---------------------------- MODULE GossipProofs ----------------------------
(***************************************************************************)
(* Theorems about Gossip, for every number of nodes, topology and choice   *)
(* of faults.  The type invariant holds in every mode.  Then the           *)
(* sequential mode (one worker): tables without gaps, in-order delivery,   *)
(* that the gossip implements RumorBroadcast, that whoever acknowledges a  *)
(* packet has taken what it could from it, and that an answer of           *)
(* anti-entropy fits on to what its receiver has.  Last, in every mode     *)
(* again, how many neighbors a goroutine may leave untried.                *)
(***************************************************************************)
EXTENDS Gossip, FiniteSetTheorems, SequenceTheorems, TLAPS

-----------------------------------------------------------------------------
(* Operators the actions are built from. *)

\* Replacing an element of a sequence leaves a sequence, whatever the index.
LEMMA ReplaceInSeq ==
  ASSUME NEW S, NEW s \in Seq(S), NEW i, NEW x \in S
  PROVE  [s EXCEPT ![i] = x] \in Seq(S)
<1>1. CASE i \in 1 .. Len(s)
  BY <1>1, ExceptSeq
<1>2. CASE i \notin 1 .. Len(s)
  <2>1. DOMAIN s = 1 .. Len(s)
    BY LenProperties
  <2>2. [s EXCEPT ![i] = x] = s
    BY <1>2, <2>1, LenProperties, SMT
  <2> QED BY <2>2
<1> QED BY <1>1, <1>2

\* Appending to one sequence of a table of sequences.
LEMMA AppendInTable ==
  ASSUME NEW T \in [Node -> [Node -> Seq(Nat)]],
         NEW n \in Node, NEW o \in Node, NEW k \in Nat
  PROVE  [T EXCEPT ![n][o] = Append(@, k)] \in [Node -> [Node -> Seq(Nat)]]
<1>1. Append(T[n][o], k) \in Seq(Nat)
  BY AppendProperties
<1> QED BY <1>1

\* The positions a remote status lacks are finitely many.
LEMMA MissingFinite ==
  ASSUME TypeOK, NEW n \in Node, NEW one \in Status, NEW other \in Status
  PROVE  IsFiniteSet(Missing(n, one, other))
<1> DEFINE Ahead == {p \in Node : one[p] > other[p]}
           Part(o) == {o} \X (other[o] + 1 .. Len(rumorTable[n][o]))
<1>1. IsFiniteSet(Ahead)
  BY NodeAssumption, FS_Subset
<1>2. ASSUME NEW o \in Node PROVE IsFiniteSet(Part(o))
  <2>1. other[o] + 1 \in Int /\ Len(rumorTable[n][o]) \in Int
    BY DEF TypeOK, Status
  <2>2. IsFiniteSet(other[o] + 1 .. Len(rumorTable[n][o]))
    BY <2>1, FS_Interval
  <2>3. IsFiniteSet({o})
    BY FS_Singleton
  <2> QED BY <2>2, <2>3, FS_Product
<1>3. IsFiniteSet({Part(o) : o \in Ahead})
  <2> DEFINE part == [o \in Ahead |-> Part(o)]
  <2>1. part \in Surjection(Ahead, {Part(o) : o \in Ahead})
    BY DEF Surjection
  <2> QED BY <1>1, <2>1, FS_Surjection
<1>4. IsFiniteSet(UNION {Part(o) : o \in Ahead})
  BY <1>2, <1>3, FS_UNION
<1> QED BY <1>4 DEF Missing

\* Every arrangement getMissingRumors may return is a sequence of rumors.
LEMMA SortingsType ==
  ASSUME TypeOK, NEW n \in Node, NEW one \in Status, NEW other \in Status,
         NEW rumors \in Sortings(n, Missing(n, one, other))
  PROVE  rumors \in Seq(Rumor)
<1> DEFINE positions == Missing(n, one, other)
           size == Cardinality(positions)
<1>1. size \in Nat
  BY MissingFinite, FS_CardinalityType
<1>2. PICK f \in [1 .. size -> positions] : rumors = [i \in 1 .. size |-> RumorAt(n, f[i])]
  BY DEF Sortings
<1>3. ASSUME NEW p \in positions PROVE RumorAt(n, p) \in Rumor
  <2>1. PICK o \in Node : p \in {o} \X (other[o] + 1 .. Len(rumorTable[n][o]))
    BY DEF Missing
  <2>2. p[1] = o /\ p[2] \in other[o] + 1 .. Len(rumorTable[n][o])
    BY <2>1
  <2>3. other[o] \in Nat
    BY DEF Status
  <2>4. rumorTable[n][o] \in Seq(Nat)
    BY DEF TypeOK
  <2>5. p[2] \in 1 .. Len(rumorTable[n][o])
    BY <2>2, <2>3, <2>4, LenProperties
  <2>6. rumorTable[n][o][p[2]] \in Nat
    BY <2>4, <2>5, ElementOfSeq
  <2> QED BY <2>2, <2>6 DEF RumorAt, Rumor
<1>4. rumors \in [1 .. size -> Rumor]
  BY <1>2, <1>3
<1> QED BY <1>1, <1>4, SeqDef

\* Starting, replacing and ending a callback, and starting a goroutine.
LEMMA StatusOfType ==
  ASSUME TypeOK, NEW n \in Node
  PROVE  StatusOf(n) \in Status
<1>1. \A o \in Node : Len(rumorTable[n][o]) \in Nat
  BY LenProperties DEF TypeOK
<1> QED BY <1>1 DEF StatusOf, Status

\* A callback that starts (Receive*) is one of the handlers' type.
LEMMA StartType ==
  ASSUME TypeOK, NEW n \in Node, NEW w \in Worker, NEW pkt \in Packet,
         NEW pc \in {"check", "status", "panicked"}, Start(n, w, pkt, pc)
  PROVE  handlers' \in [Node -> SUBSET Handler]
<1> DEFINE h == [worker |-> w, pc |-> pc, pkt |-> pkt, i |-> 1, found |-> FALSE,
                 neighbors |-> IF pc = "check" THEN Neighbors(n) ELSE {},
                 local |-> IF pc = "status" THEN StatusOf(n) ELSE NoStatus]
<1>1. StatusOf(n) \in Status /\ NoStatus \in Status
  BY StatusOfType DEF NoStatus, Status
<1>2. Neighbors(n) \in SUBSET Node
  BY DEF Neighbors
<1>3. h \in Handler
  BY <1>1, <1>2 DEF Handler
<1>4. handlers' = [handlers EXCEPT ![n] = @ \cup {h}]
  BY DEF Start
<1> HIDE DEF h
<1> QED BY <1>3, <1>4 DEF TypeOK

\* A callback that goes on stays in the handlers' type.
LEMMA BecomeType ==
  ASSUME TypeOK, NEW n \in Node, NEW h, NEW g \in Handler, Become(n, h, g)
  PROVE  handlers' \in [Node -> SUBSET Handler]
BY DEF Become, TypeOK

\* A callback that returns leaves the handlers' type intact.
LEMMA ReturnType ==
  ASSUME TypeOK, NEW n \in Node, NEW h, Return(n, h)
  PROVE  handlers' \in [Node -> SUBSET Handler]
BY DEF Return, TypeOK

\* The loop over a packet's rumors keeps a handler a handler.
LEMMA NextRumorType ==
  ASSUME NEW h \in Handler
  PROVE  NextRumor(h) \in Handler
<1> DEFINE pc == IF h.i < Len(h.pkt.rumors) THEN "check" ELSE "reply"
<1>1. pc \in {"check", "reply"} /\ h.i + 1 \in Nat
  BY DEF Handler
<1>2. NextRumor(h) = [h EXCEPT !.i = h.i + 1, !.pc = pc]
  BY DEF NextRumor
<1> HIDE DEF pc
<1> QED BY <1>1, <1>2 DEF Handler

\* sendRumorsMessage makes a goroutine of the right type.
LEMMA MongererType ==
  ASSUME NEW rumors \in Seq(Rumor), NEW exclude \in SUBSET Node
  PROVE  NewMongerer(rumors, exclude) \in Mongerer
BY DEF NewMongerer, Mongerer

\* Starting one extends its node's goroutines and ack channels.
LEMMA StartMongeringType ==
  ASSUME TypeOK, NEW n \in Node, NEW rumors \in Seq(Rumor), NEW exclude \in SUBSET Node,
         StartMongering(n, rumors, exclude)
  PROVE  monger' \in [Node -> Seq(Mongerer)] /\ syncTable' \in [Node -> Seq(BOOLEAN)]
<1>1. Append(monger[n], NewMongerer(rumors, exclude)) \in Seq(Mongerer)
  BY MongererType, AppendProperties DEF TypeOK
<1>2. Append(syncTable[n], FALSE) \in Seq(BOOLEAN)
  BY AppendProperties DEF TypeOK
<1> QED BY <1>1, <1>2 DEF StartMongering, TypeOK

\* One goroutine is replaced.
LEMMA MongerStepType ==
  ASSUME TypeOK, NEW n \in Node, NEW id, NEW m \in Mongerer,
         monger' = [monger EXCEPT ![n][id] = m]
  PROVE  monger' \in [Node -> Seq(Mongerer)]
<1>1. [monger[n] EXCEPT ![id] = m] \in Seq(Mongerer)
  BY ReplaceInSeq DEF TypeOK
<1> QED BY <1>1 DEF TypeOK

\* A goroutine that goes back to its loop.
LEMMA ExcludingType ==
  ASSUME TypeOK, NEW n \in Node, NEW id \in DOMAIN monger[n], NEW m \in Node
  PROVE  Known(n, id) \in SUBSET Node /\ Excluding(n, id, m) \in Mongerer
<1>1. monger[n][id] \in Mongerer
  BY LenProperties, ElementOfSeq DEF TypeOK
<1>2. Known(n, id) \in SUBSET Node
  BY <1>1 DEF Known, Neighbors, Mongerer
<1> QED BY <1>1, <1>2 DEF Excluding, Mongerer

\* The three kinds of packets.
LEMMA PacketTypes ==
  ASSUME NEW n \in Node, NEW m \in Node, NEW id \in Nat,
         NEW rumors \in Seq(Rumor), NEW status \in Status
  PROVE  /\ RumorsPacket(n, m, id, rumors) \in Packet
         /\ StatusPacket(n, m, status) \in Packet
         /\ AckPacket(n, m, id, status) \in Packet
<1>1. NoStatus \in Status
  BY DEF NoStatus, Status
<1>2. <<>> \in Seq(Rumor)
  BY EmptySeq
<1>3. NoId \in Nat
  BY DEF NoId
<1> QED BY <1>1, <1>2, <1>3 DEF RumorsPacket, StatusPacket, AckPacket, Packet
-----------------------------------------------------------------------------
(* Type correctness, for any number of workers. *)

\* The rumor a callback is at: one of its packet's.
LEMMA RumorOfHandler ==
  ASSUME NEW h \in Handler, h.i \in 1 .. Len(h.pkt.rumors)
  PROVE  h.pkt.rumors[h.i] \in Rumor
<1>1. h.pkt.rumors \in Seq(Rumor)
  BY DEF Handler, Packet
<1> QED BY <1>1, ElementOfSeq

\* TypeOK is preserved by every action, given WellFormed.
LEMMA TypeStep ==
  ASSUME TypeOK, WellFormed, [Next]_vars
  PROVE  TypeOK'
<1> USE DEF Rumor
<1>1. ASSUME NEW n \in Node, Broadcast(n) PROVE TypeOK'
  <2> DEFINE seq == Len(rumorTable[n][n]) + 1
             rumors == <<[origin |-> n, seq |-> seq]>>
  <2>1. seq \in Nat
    BY LenProperties DEF TypeOK
  <2>2. rumors \in Seq(Rumor)
    BY <2>1
  <2>3. rumorTable' \in [Node -> [Node -> Seq(Nat)]]
    <3>1. rumorTable' = [rumorTable EXCEPT ![n][n] = Append(@, seq)]
      BY <1>1 DEF Broadcast
    <3> QED BY <2>1, <3>1, AppendInTable DEF TypeOK
  <2>4. monger' \in [Node -> Seq(Mongerer)] /\ syncTable' \in [Node -> Seq(BOOLEAN)]
    <3>1. StartMongering(n, rumors, {})
      BY <1>1 DEF Broadcast
    <3>2. {} \in SUBSET Node
      OBVIOUS
    <3> HIDE DEF rumors
    <3> QED BY <2>2, <3>1, <3>2, StartMongeringType
  <2>5. unprocessed' \in [Node -> SUBSET Nat]
    BY <1>1, <2>1 DEF Broadcast, TypeOK
  <2> QED BY <1>1, <2>3, <2>4, <2>5 DEF Broadcast, TypeOK
<1>2. ASSUME NEW n \in Node, NEW seq \in unprocessed[n], ProcessOwn(n, seq) PROVE TypeOK'
  BY <1>2 DEF ProcessOwn, TypeOK
<1>3. ASSUME NEW n \in Node, NEW a \in Node, AddPeer(n, a) PROVE TypeOK'
  BY <1>3 DEF AddPeer, TypeOK
<1>4. ASSUME NEW n \in Node, NEW a \in Node, AntiEntropy(n, a) PROVE TypeOK'
  <2>1. StatusPacket(n, a, StatusOf(n)) \in Packet
    BY StatusOfType, PacketTypes, EmptySeq
  <2> QED BY <1>4, <2>1 DEF AntiEntropy, TypeOK
<1>5. ASSUME NEW n \in Node, NEW id \in DOMAIN monger[n], Monger(n, id) PROVE TypeOK'
  <2> DEFINE t == monger[n][id]
  <2>1. t \in Mongerer /\ id \in Nat
    BY LenProperties, ElementOfSeq DEF TypeOK
  <2>2. Known(n, id) \in SUBSET Node
    BY ExcludingType
  <2>3. Finished \in Mongerer
    BY EmptySeq DEF Finished, Mongerer
  <2>4. ASSUME NEW m \in Node, MongerSend(n, id, m) PROVE TypeOK'
    <3>1. RumorsPacket(n, m, id, t.rumors) \in Packet
      BY <2>1, PacketTypes, StatusOfType DEF Mongerer
    <3>2. [t EXCEPT !.neighbors = Known(n, id), !.dest = m, !.pc = "wait"] \in Mongerer
      BY <2>1, <2>2 DEF Mongerer
    <3>3. PICK u \in Mongerer : monger' = [monger EXCEPT ![n][id] = u]
      BY <2>3, <2>4, <3>2 DEF MongerSend
    <3>4. monger' \in [Node -> Seq(Mongerer)]
      BY <3>3, MongerStepType
    <3> QED BY <2>4, <3>1, <3>4 DEF MongerSend, MongerUnchanged, TypeOK
  <2>5. ASSUME NEW m \in Node, MongerSendFails(n, id, m) PROVE TypeOK'
    <3>1. monger' \in [Node -> Seq(Mongerer)]
      BY <2>5, MongerStepType, ExcludingType DEF MongerSendFails
    <3> QED BY <2>5, <3>1 DEF MongerSendFails, MongerUnchanged, TypeOK
  <2>6. CASE MongerGiveUp(n, id) \/ MongerAcked(n, id)
    <3>1. monger' \in [Node -> Seq(Mongerer)]
      BY <2>3, <2>6, MongerStepType DEF MongerGiveUp, MongerAcked
    <3> QED BY <2>6, <3>1 DEF MongerGiveUp, MongerAcked, MongerUnchanged, TypeOK
  <2>7. CASE MongerTimeout(n, id)
    <3>1. t.dest \in Node
      BY <2>7 DEF MongerTimeout, WellFormed, MongerersFull
    <3>2. monger' \in [Node -> Seq(Mongerer)]
      BY <2>7, <3>1, MongerStepType, ExcludingType DEF MongerTimeout
    <3> QED BY <2>7, <3>2 DEF MongerTimeout, MongerUnchanged, TypeOK
  <2> QED BY <1>5, <2>4, <2>5, <2>6, <2>7 DEF Monger
<1>6. ASSUME NEW n \in Node, NEW pkt \in network, NEW w \in Worker,
             ReceiveRumors(n, w, pkt) \/ ReceiveStatus(n, w, pkt) \/ ReceiveAck(n, w, pkt)
      PROVE  TypeOK'
  <2>1. pkt \in Packet
    BY DEF TypeOK
  <2>2. network' \in SUBSET Packet
    BY <1>6 DEF TypeOK, ReceiveRumors, ReceiveStatus, ReceiveAck, Take
  <2>3. \E pc \in {"check", "status", "panicked"} : Start(n, w, pkt, pc)
    BY <1>6 DEF ReceiveRumors, ReceiveStatus, ReceiveAck
  <2>4. handlers' \in [Node -> SUBSET Handler]
    BY <2>1, <2>3, StartType
  <2>5. syncTable' \in [Node -> Seq(BOOLEAN)]
    <3>1. [syncTable[n] EXCEPT ![pkt.id] = TRUE] \in Seq(BOOLEAN)
      BY ReplaceInSeq DEF TypeOK
    <3>2. \/ syncTable' = syncTable
          \/ syncTable' = [syncTable EXCEPT ![n][pkt.id] = TRUE]
      BY <1>6 DEF ReceiveRumors, ReceiveStatus, ReceiveAck
    <3> QED BY <3>1, <3>2 DEF TypeOK
  <2> QED BY <1>6, <2>2, <2>4, <2>5 DEF TypeOK, ReceiveRumors, ReceiveStatus, ReceiveAck
<1>7. ASSUME NEW n \in Node, NEW h \in handlers[n], Callback(n, h) PROVE TypeOK'
  <2> DEFINE rumor == h.pkt.rumors[h.i]
  <2>1. h \in Handler /\ h.pkt \in Packet /\ NextRumor(h) \in Handler
    BY NextRumorType DEF TypeOK, Handler
  <2>2. h.pkt.from \in Node /\ h.pkt.id \in Nat /\ h.pkt.rumors \in Seq(Rumor)
        /\ h.pkt.status \in Status /\ h.local \in Status
    BY <2>1 DEF Packet, Handler
  <2>3. h.pc \in {"check", "store", "deliver"} => rumor \in Rumor
    BY <2>1, RumorOfHandler DEF WellFormed, HandlersFull
  <2>4. CASE CheckRumor(n, h)
    <3>1. [h EXCEPT !.pc = "store", !.found = TRUE] \in Handler
      BY <2>1 DEF Handler
    <3>2. \E g \in Handler : Become(n, h, g)
      BY <2>1, <2>4, <3>1 DEF CheckRumor
    <3>3. handlers' \in [Node -> SUBSET Handler]
      BY <3>2, BecomeType
    <3> QED BY <2>4, <3>3 DEF CheckRumor, TypeOK
  <2>5. CASE StoreRumor(n, h)
    <3>1. rumor.origin \in Node /\ rumor.seq \in Nat
      BY <2>3, <2>5 DEF StoreRumor
    <3>2. rumorTable' \in [Node -> [Node -> Seq(Nat)]]
      <4>1. rumorTable' = [rumorTable EXCEPT ![n][rumor.origin] = Append(@, rumor.seq)]
        BY <2>5 DEF StoreRumor
      <4> QED BY <3>1, <4>1, AppendInTable DEF TypeOK
    <3>3. [h EXCEPT !.pc = "deliver"] \in Handler
      BY <2>1 DEF Handler
    <3>4. \E g \in Handler : Become(n, h, g)
      BY <2>1, <2>5, <3>3 DEF StoreRumor
    <3>5. handlers' \in [Node -> SUBSET Handler]
      BY <3>4, BecomeType
    <3> QED BY <2>5, <3>2, <3>5 DEF StoreRumor, TypeOK
  <2>6. CASE DeliverRumor(n, h)
    <3>1. rumor.origin \in Node /\ rumor.seq \in Nat
      BY <2>3, <2>6 DEF DeliverRumor
    <3>2. delivered' \in [Node -> [Node -> Seq(Nat)]]
      <4>1. delivered' = [delivered EXCEPT ![n][rumor.origin] = Append(@, rumor.seq)]
        BY <2>6 DEF DeliverRumor
      <4> QED BY <3>1, <4>1, AppendInTable DEF TypeOK
    <3>3. routing' \in [Node -> [Node -> Node \cup {NoNode}]]
      BY <2>2, <2>6, <3>1 DEF DeliverRumor, RouteBy, TypeOK
    <3>4. handlers' \in [Node -> SUBSET Handler]
      BY <2>1, <2>6, BecomeType, ReturnType DEF DeliverRumor
    <3> QED BY <2>6, <3>2, <3>3, <3>4 DEF DeliverRumor, TypeOK
  <2>7. CASE ReplyToRumors(n, h)
    <3>1. AckPacket(n, h.pkt.from, h.pkt.id, StatusOf(n)) \in Packet
      BY <2>2, PacketTypes, StatusOfType
    <3>2. handlers' \in [Node -> SUBSET Handler]
      BY <2>7, ReturnType DEF ReplyToRumors
    <3>3. monger' \in [Node -> Seq(Mongerer)] /\ syncTable' \in [Node -> Seq(BOOLEAN)]
      <4>1. CASE StartMongering(n, h.pkt.rumors, {h.pkt.from})
        <5>1. h.pkt.rumors \in Seq(Rumor) /\ {h.pkt.from} \in SUBSET Node
          BY <2>2
        <5> QED BY <4>1, <5>1, StartMongeringType, Zenon
      <4>2. CASE UNCHANGED <<monger, syncTable>>
        BY <4>2 DEF TypeOK
      <4> QED BY <2>7, <4>1, <4>2 DEF ReplyToRumors
    <3> QED BY <2>7, <3>1, <3>2, <3>3 DEF ReplyToRumors, TypeOK
  <2>8. CASE ForwardStatus(n, h)
    <3>1. \A m \in Node : StatusPacket(n, m, h.local) \in Packet
      BY <2>2, PacketTypes
    <3>2. network' \in SUBSET Packet
      BY <2>8, <3>1 DEF ForwardStatus, Neighbors, TypeOK
    <3>3. handlers' \in [Node -> SUBSET Handler]
      BY <2>8, ReturnType DEF ForwardStatus
    <3> QED BY <2>8, <3>2, <3>3 DEF ForwardStatus, StatusUnchanged, TypeOK
  <2>9. CASE Reconcile(n, h)
    <3>1. StatusPacket(n, h.pkt.from, h.local) \in Packet
      BY <2>2, PacketTypes
    <3>2. \A rumors \in Sortings(n, Missing(n, h.local, h.pkt.status)) :
            RumorsPacket(n, h.pkt.from, NoId, rumors) \in Packet
      BY <2>2, SortingsType, PacketTypes DEF NoId
    <3>3. network' \in SUBSET Packet
      BY <2>9, <3>1, <3>2 DEF Reconcile, TypeOK
    <3>4. handlers' \in [Node -> SUBSET Handler]
      BY <2>9, ReturnType DEF Reconcile
    <3> QED BY <2>9, <3>3, <3>4 DEF Reconcile, StatusUnchanged, TypeOK
  <2>10. CASE Recover(n, h)
    <3>1. handlers' \in [Node -> SUBSET Handler]
      BY <2>10, ReturnType DEF Recover
    <3> QED BY <2>10, <3>1 DEF Recover, TypeOK
  <2> QED BY <1>7, <2>4, <2>5, <2>6, <2>7, <2>8, <2>9, <2>10 DEF Callback
<1>8. ASSUME NEW pkt \in network, Lose(pkt) PROVE TypeOK'
  BY <1>8 DEF Lose, TypeOK
<1>9. CASE UNCHANGED vars
  BY <1>9 DEF vars, TypeOK
<1> QED BY <1>1, <1>2, <1>3, <1>4, <1>5, <1>6, <1>7, <1>8, <1>9 DEF Next, Receive

-----------------------------------------------------------------------------
(* WellFormed, for any number of workers. *)

\* A remote that lacks something is sent at least one rumor.
LEMMA SortingsNonEmpty ==
  ASSUME TypeOK, NEW n \in Node, NEW one \in Status, NEW other \in Status,
         \A o \in Node : one[o] <= Len(rumorTable[n][o]), HasMore(one, other),
         NEW rumors \in Sortings(n, Missing(n, one, other))
  PROVE  rumors # <<>>
<1> DEFINE positions == Missing(n, one, other)
           size == Cardinality(positions)
<1>1. PICK o \in Node : one[o] > other[o]
  BY DEF HasMore
<1>2. one[o] \in Nat /\ other[o] \in Nat /\ Len(rumorTable[n][o]) \in Nat
  BY LenProperties DEF Status, TypeOK
<1>3. Len(rumorTable[n][o]) \in other[o] + 1 .. Len(rumorTable[n][o])
  BY <1>1, <1>2
<1>4. <<o, Len(rumorTable[n][o])>> \in positions
  BY <1>1, <1>3 DEF Missing
<1>5. size \in Nat /\ size # 0
  BY <1>4, MissingFinite, FS_CardinalityType, FS_EmptySet
<1>6. PICK f \in [1 .. size -> positions] : rumors = [i \in 1 .. size |-> RumorAt(n, f[i])]
  BY DEF Sortings
<1>7. DOMAIN rumors = 1 .. size
  BY <1>6
<1>8. 1 \in DOMAIN rumors
  BY <1>5, <1>7
<1> QED BY <1>8

\* The steps that change the tables, that send packets, that run callbacks.
LEMMA TableSteps ==
  ASSUME [Next]_vars
  PROVE  \/ UNCHANGED rumorTable
         \/ \E n \in Node : Broadcast(n) \/ \E h \in handlers[n] : StoreRumor(n, h)
<1>1. ASSUME NEW n \in Node, NEW id \in DOMAIN monger[n], Monger(n, id)
      PROVE  UNCHANGED rumorTable
  BY <1>1, Zenon DEF Monger, MongerSend, MongerSendFails, MongerGiveUp, MongerAcked,
              MongerTimeout, MongerUnchanged
<1>2. ASSUME NEW n \in Node, NEW pkt \in network, Receive(n, pkt)
      PROVE  UNCHANGED rumorTable
  BY <1>2 DEF Receive, ReceiveRumors, ReceiveStatus, ReceiveAck
<1>3. ASSUME NEW n \in Node, NEW h \in handlers[n], Callback(n, h)
      PROVE  UNCHANGED rumorTable \/ StoreRumor(n, h)
  BY <1>3, Zenon DEF Callback, CheckRumor, DeliverRumor, ReplyToRumors, ForwardStatus,
              Reconcile, StatusUnchanged, Recover
<1>4. ASSUME NEW n \in Node, NEW a \in Node, AddPeer(n, a) \/ AntiEntropy(n, a)
      PROVE  UNCHANGED rumorTable
  BY <1>4 DEF AddPeer, AntiEntropy
<1>5. ASSUME NEW n \in Node, NEW seq \in unprocessed[n], ProcessOwn(n, seq)
      PROVE  UNCHANGED rumorTable
  BY <1>5 DEF ProcessOwn
<1>6. ASSUME NEW pkt \in network, Lose(pkt)
      PROVE  UNCHANGED rumorTable
  BY <1>6 DEF Lose
<1>7. CASE UNCHANGED vars
  BY <1>7 DEF vars
<1> QED BY <1>1, <1>2, <1>3, <1>4, <1>5, <1>6, <1>7 DEF Next

\* Only these actions put packets into the network.
LEMMA SendingSteps ==
  ASSUME [Next]_vars
  PROVE  \/ network' \subseteq network
         \/ \E n, m \in Node : \E id \in DOMAIN monger[n] : MongerSend(n, id, m)
         \/ \E n, m \in Node : AntiEntropy(n, m)
         \/ \E n \in Node : \E h \in handlers[n] :
              ReplyToRumors(n, h) \/ ForwardStatus(n, h) \/ Reconcile(n, h)
<1>1. ASSUME NEW n \in Node, NEW id \in DOMAIN monger[n], Monger(n, id)
      PROVE  network' \subseteq network \/ \E m \in Node : MongerSend(n, id, m)
  BY <1>1 DEF Monger, MongerSendFails, MongerGiveUp, MongerAcked, MongerTimeout
<1>2. ASSUME NEW n \in Node, NEW pkt \in network, Receive(n, pkt)
      PROVE  network' \subseteq network
  BY <1>2 DEF Receive, ReceiveRumors, ReceiveStatus, ReceiveAck, Take
<1>3. ASSUME NEW n \in Node, NEW h \in handlers[n], Callback(n, h)
      PROVE  \/ network' \subseteq network
             \/ ReplyToRumors(n, h) \/ ForwardStatus(n, h) \/ Reconcile(n, h)
  BY <1>3, Zenon DEF Callback, CheckRumor, StoreRumor, DeliverRumor, Recover
<1>4. ASSUME NEW n \in Node, Broadcast(n) \/ \E seq \in unprocessed[n] : ProcessOwn(n, seq)
      PROVE  network' \subseteq network
  BY <1>4 DEF Broadcast, ProcessOwn
<1>5. ASSUME NEW n \in Node, NEW a \in Node, AddPeer(n, a)
      PROVE  network' \subseteq network
  BY <1>5 DEF AddPeer
<1>6. ASSUME NEW pkt \in network, Lose(pkt)
      PROVE  network' \subseteq network
  BY <1>6 DEF Lose
<1>7. CASE UNCHANGED vars
  BY <1>7 DEF vars
<1> QED BY <1>1, <1>2, <1>3, <1>4, <1>5, <1>6, <1>7 DEF Next

\* Only receiving and the callbacks themselves change the callbacks.
LEMMA HandlerSteps ==
  ASSUME [Next]_vars
  PROVE  \/ UNCHANGED handlers
         \/ \E n \in Node : \E pkt \in network : Receive(n, pkt)
         \/ \E n \in Node : \E h \in handlers[n] : Callback(n, h)
<1>1. ASSUME NEW n \in Node, NEW id \in DOMAIN monger[n], Monger(n, id)
      PROVE  UNCHANGED handlers
  BY <1>1, Zenon DEF Monger, MongerSend, MongerSendFails, MongerGiveUp, MongerAcked,
              MongerTimeout, MongerUnchanged
<1>2. ASSUME NEW n \in Node,
             \/ Broadcast(n) \/ \E seq \in unprocessed[n] : ProcessOwn(n, seq)
             \/ \E a \in Node : AddPeer(n, a) \/ AntiEntropy(n, a)
      PROVE  UNCHANGED handlers
  BY <1>2 DEF Broadcast, ProcessOwn, AddPeer, AntiEntropy
<1>3. CASE UNCHANGED vars \/ \E pkt \in network : Lose(pkt)
  BY <1>3 DEF vars, Lose
<1> QED BY <1>1, <1>2, <1>3 DEF Next

\* Tables only grow, whoever runs.
LEMMA TablesGrow ==
  ASSUME TypeOK, WellFormed, [Next]_vars, NEW n \in Node, NEW o \in Node
  PROVE  Len(rumorTable[n][o]) <= Len(rumorTable'[n][o])
<1>1. ASSUME NEW m \in Node, NEW p \in Node, NEW k \in Nat,
             rumorTable' = [rumorTable EXCEPT ![m][p] = Append(@, k)]
      PROVE  Len(rumorTable[n][o]) <= Len(rumorTable'[n][o])
  <2>1. rumorTable[n][o] \in Seq(Nat)
    BY DEF TypeOK
  <2>2. Len(Append(rumorTable[n][o], k)) = Len(rumorTable[n][o]) + 1
    BY <2>1, AppendProperties
  <2>3. \/ rumorTable'[n][o] = rumorTable[n][o]
        \/ rumorTable'[n][o] = Append(rumorTable[n][o], k)
    BY <1>1 DEF TypeOK
  <2> QED BY <2>1, <2>2, <2>3, LenProperties
<1>2. CASE UNCHANGED rumorTable
  BY <1>2, LenProperties DEF TypeOK
<1>3. ASSUME NEW m \in Node, Broadcast(m) PROVE Len(rumorTable[n][o]) <= Len(rumorTable'[n][o])
  <2>1. Len(rumorTable[m][m]) + 1 \in Nat
    BY LenProperties DEF TypeOK
  <2>2. rumorTable' = [rumorTable EXCEPT ![m][m] = Append(@, Len(rumorTable[m][m]) + 1)]
    BY <1>3 DEF Broadcast
  <2> QED BY <1>1, <2>1, <2>2
<1>4. ASSUME NEW m \in Node, NEW h \in handlers[m], StoreRumor(m, h)
      PROVE  Len(rumorTable[n][o]) <= Len(rumorTable'[n][o])
  <2> DEFINE rumor == h.pkt.rumors[h.i]
  <2>1. h \in Handler /\ h.i \in 1 .. Len(h.pkt.rumors)
    BY <1>4 DEF StoreRumor, WellFormed, HandlersFull, TypeOK
  <2>2. rumor.origin \in Node /\ rumor.seq \in Nat
    BY <2>1, RumorOfHandler DEF Rumor
  <2>3. rumorTable' = [rumorTable EXCEPT ![m][rumor.origin] = Append(@, rumor.seq)]
    BY <1>4 DEF StoreRumor
  <2> QED BY <1>1, <2>2, <2>3
<1>5. \/ UNCHANGED rumorTable
      \/ \E m \in Node : Broadcast(m) \/ \E h \in handlers[m] : StoreRumor(m, h)
  BY TableSteps
<1> QED BY <1>2, <1>3, <1>4, <1>5

\* Sent packets of rumors are not empty.
LEMMA PacketsFullStep ==
  ASSUME TypeOK, WellFormed, [Next]_vars
  PROVE  PacketsFull'
<1> SUFFICES ASSUME NEW pkt \in network', pkt \notin network, pkt.type = "rumors"
             PROVE  pkt.rumors # <<>>
  BY DEF PacketsFull, WellFormed
<1>1. \/ \E n, m \in Node : \E id \in DOMAIN monger[n] : MongerSend(n, id, m)
      \/ \E n, m \in Node : AntiEntropy(n, m)
      \/ \E n \in Node : \E h \in handlers[n] :
           ReplyToRumors(n, h) \/ ForwardStatus(n, h) \/ Reconcile(n, h)
  BY SendingSteps
<1>2. ASSUME NEW n \in Node, NEW id \in DOMAIN monger[n], NEW m \in Node, MongerSend(n, id, m)
      PROVE  pkt.rumors # <<>>
  BY <1>2 DEF MongerSend, MayTry, WellFormed, MongerersFull, RumorsPacket
<1>3. ASSUME NEW n \in Node, NEW m \in Node, AntiEntropy(n, m) PROVE FALSE
  BY <1>3 DEF AntiEntropy, StatusPacket
<1>4. ASSUME NEW n \in Node, NEW h \in handlers[n], ReplyToRumors(n, h) \/ ForwardStatus(n, h)
      PROVE  FALSE
  BY <1>4 DEF ReplyToRumors, ForwardStatus, AckPacket, StatusPacket
<1>5. ASSUME NEW n \in Node, NEW h \in handlers[n], Reconcile(n, h)
      PROVE  pkt.rumors # <<>>
  <2> h \in Handler
    BY DEF TypeOK
  <2>1. h.local \in Status /\ h.pkt.status \in Status
    BY DEF Handler, Packet
  <2>2. \A o \in Node : h.local[o] <= Len(rumorTable[n][o])
    BY DEF WellFormed, LocalIsPast
  <2>3. /\ HasMore(h.local, h.pkt.status)
        /\ \E rumors \in Sortings(n, Missing(n, h.local, h.pkt.status)) :
             pkt = RumorsPacket(n, h.pkt.from, NoId, rumors)
    BY <1>5 DEF Reconcile, StatusPacket
  <2> QED BY <2>1, <2>2, <2>3, SortingsNonEmpty DEF RumorsPacket
<1> QED BY <1>1, <1>2, <1>3, <1>4, <1>5

\* A goroutine of the next state: an old one, the one that took a step, a new one.
LEMMA ReplacedMongerer ==
  ASSUME TypeOK, NEW n \in Node, NEW id \in DOMAIN monger[n], NEW u,
         monger' = [monger EXCEPT ![n][id] = u],
         NEW p \in Node, NEW k \in DOMAIN monger'[p]
  PROVE  /\ k \in DOMAIN monger[p]
         /\ \/ monger'[p][k] = monger[p][k]
            \/ p = n /\ k = id /\ monger'[p][k] = u
<1>1. k \in DOMAIN monger[p]
  BY LenProperties DEF TypeOK
<1> QED BY <1>1 DEF TypeOK

\* After a start, a goroutine is an old one, unchanged, or the new one.
LEMMA AppendedMongerer ==
  ASSUME TypeOK, NEW n \in Node, NEW rumors \in Seq(Rumor), NEW exclude \in SUBSET Node,
         StartMongering(n, rumors, exclude), NEW p \in Node, NEW k \in DOMAIN monger'[p]
  PROVE  \/ k \in DOMAIN monger[p] /\ monger'[p][k] = monger[p][k]
         \/ p = n /\ monger'[p][k] = NewMongerer(rumors, exclude)
<1> DEFINE u == NewMongerer(rumors, exclude)
<1>1. u \in Mongerer
  BY MongererType
<1>2. monger' = [monger EXCEPT ![n] = Append(@, u)]
  BY DEF StartMongering
<1>3. monger[p] \in Seq(Mongerer)
  BY DEF TypeOK
<1> HIDE DEF u
<1>4. CASE p # n
  <2>1. monger'[p] = monger[p]
    BY <1>2, <1>4 DEF TypeOK
  <2> QED BY <2>1
<1>5. CASE p = n
  <2>1. monger'[p] = Append(monger[p], u)
    BY <1>2, <1>5 DEF TypeOK
  <2>2. /\ Append(monger[p], u) \in Seq(Mongerer)
        /\ Len(Append(monger[p], u)) = Len(monger[p]) + 1
        /\ Append(monger[p], u)[Len(monger[p]) + 1] = u
        /\ \A i \in 1 .. Len(monger[p]) : Append(monger[p], u)[i] = monger[p][i]
    BY <1>1, <1>3, AppendProperties
  <2>3. k \in 1 .. Len(monger[p]) + 1 /\ DOMAIN monger[p] = 1 .. Len(monger[p])
    BY <1>3, <2>1, <2>2, LenProperties
  <2>4. k \in 1 .. Len(monger[p]) \/ k = Len(monger[p]) + 1
    BY <1>3, <2>3, LenProperties
  <2> QED BY <1>5, <2>1, <2>2, <2>3, <2>4 DEF u
<1> QED BY <1>4, <1>5

\* Goroutines have a packet to send, and wait for somebody.
FullMongerer(t) == /\ t.pc # "done" => t.rumors # <<>>
                   /\ t.pc = "wait" => t.dest \in Node

\* Running goroutines carry rumors, and wait only for a real neighbor.
LEMMA MongerersFullStep ==
  ASSUME TypeOK, WellFormed, [Next]_vars
  PROVE  MongerersFull'
<1> USE DEF FullMongerer
<1>0. \A n \in Node : /\ monger[n] \in Seq(Mongerer)
                      /\ \A id \in DOMAIN monger[n] : /\ monger[n][id] \in Mongerer
                                                      /\ FullMongerer(monger[n][id])
  BY LenProperties, ElementOfSeq DEF TypeOK, WellFormed, MongerersFull
<1>1. ASSUME NEW n \in Node, NEW id \in DOMAIN monger[n], NEW u, FullMongerer(u),
             monger' = [monger EXCEPT ![n][id] = u]
      PROVE  MongerersFull'
  BY <1>0, <1>1, ReplacedMongerer DEF MongerersFull
<1>2. ASSUME NEW n \in Node, NEW rumors \in Seq(Rumor), NEW exclude \in SUBSET Node,
             rumors # <<>>, StartMongering(n, rumors, exclude)
      PROVE  MongerersFull'
  <2> DEFINE u == NewMongerer(rumors, exclude)
  <2>1. u.pc = "new" /\ u.rumors = rumors
    BY DEF NewMongerer
  <2> HIDE DEF u
  <2>2. ASSUME NEW p \in Node, NEW k \in DOMAIN monger'[p] PROVE FullMongerer(monger'[p][k])
    <3>1. \/ k \in DOMAIN monger[p] /\ monger'[p][k] = monger[p][k]
          \/ monger'[p][k] = u
      BY <1>2, AppendedMongerer DEF u
    <3> QED BY <1>0, <1>2, <2>1, <3>1
  <2> QED BY <2>2 DEF MongerersFull
<1>3. CASE UNCHANGED monger
  BY <1>3 DEF WellFormed, MongerersFull
<1>4. ASSUME NEW n \in Node, Broadcast(n) PROVE MongerersFull'
  <2> DEFINE seq == Len(rumorTable[n][n]) + 1
             rumors == <<[origin |-> n, seq |-> seq]>>
  <2>1. seq \in Nat
    BY LenProperties DEF TypeOK
  <2>2. rumors \in Seq(Rumor) /\ rumors # <<>>
    BY <2>1 DEF Rumor
  <2>3. StartMongering(n, rumors, {}) /\ {} \in SUBSET Node
    BY <1>4 DEF Broadcast
  <2> HIDE DEF rumors
  <2> QED BY <1>2, <2>2, <2>3
<1>5. ASSUME NEW n \in Node, NEW id \in DOMAIN monger[n], Monger(n, id) PROVE MongerersFull'
  <2> DEFINE t == monger[n][id]
  <2>1. FullMongerer(Finished)
    BY DEF Finished
  <2>2. t \in Mongerer /\ FullMongerer(t)
    BY <1>0
  <2>3. t.pc \in {"new", "loop", "wait"} => \A m \in Node : FullMongerer(Excluding(n, id, m))
    BY <2>2 DEF Excluding, Mongerer
  <2>4. ASSUME NEW m \in Node, MongerSend(n, id, m) PROVE MongerersFull'
    <3> DEFINE u == [t EXCEPT !.neighbors = Known(n, id), !.dest = m, !.pc = "wait"]
    <3>1. FullMongerer(u)
      BY <2>2, <2>4 DEF MongerSend, MayTry, Mongerer
    <3>2. monger' = [monger EXCEPT ![n][id] = IF AckTimeout THEN u ELSE Finished]
      BY <2>4 DEF MongerSend
    <3> HIDE DEF u, FullMongerer
    <3> QED BY <1>1, <2>1, <3>1, <3>2
  <2>5. ASSUME NEW m \in Node, MongerSendFails(n, id, m) PROVE MongerersFull'
    <3>1. FullMongerer(Excluding(n, id, m)) /\ monger' = [monger EXCEPT ![n][id] = Excluding(n, id, m)]
      BY <2>3, <2>5 DEF MongerSendFails, MayTry
    <3> HIDE DEF FullMongerer
    <3> QED BY <1>1, <3>1
  <2>6. CASE MongerGiveUp(n, id) \/ MongerAcked(n, id)
    <3>1. monger' = [monger EXCEPT ![n][id] = Finished]
      BY <2>6 DEF MongerGiveUp, MongerAcked
    <3> HIDE DEF FullMongerer
    <3> QED BY <1>1, <2>1, <3>1
  <2>7. CASE MongerTimeout(n, id)
    <3>1. FullMongerer(Excluding(n, id, t.dest))
      BY <2>2, <2>3, <2>7 DEF MongerTimeout
    <3>2. monger' = [monger EXCEPT ![n][id] = Excluding(n, id, t.dest)]
      BY <2>7 DEF MongerTimeout
    <3> HIDE DEF FullMongerer
    <3> QED BY <1>1, <3>1, <3>2
  <2> QED BY <1>5, <2>4, <2>5, <2>6, <2>7 DEF Monger
<1>6. ASSUME NEW n \in Node, NEW pkt \in network, Receive(n, pkt) PROVE MongerersFull'
  BY <1>3, <1>6 DEF Receive, ReceiveRumors, ReceiveStatus, ReceiveAck
<1>7. ASSUME NEW n \in Node, NEW h \in handlers[n], Callback(n, h) PROVE MongerersFull'
  <2>1. CASE ReplyToRumors(n, h)
    <3>1. h \in Handler
      BY DEF TypeOK
    <3>2. h.pkt.rumors \in Seq(Rumor) /\ {h.pkt.from} \in SUBSET Node
      BY <3>1 DEF Handler, Packet
    <3>3. h.pkt.rumors # <<>>
      BY <2>1 DEF ReplyToRumors, WellFormed, HandlersFull
    <3>4. StartMongering(n, h.pkt.rumors, {h.pkt.from}) \/ UNCHANGED monger
      BY <2>1 DEF ReplyToRumors
    <3> QED BY <1>2, <1>3, <3>2, <3>3, <3>4
  <2>2. CASE ~ReplyToRumors(n, h)
    BY <1>3, <1>7, <2>2, Zenon DEF Callback, CheckRumor, StoreRumor, DeliverRumor, ForwardStatus,
                            Reconcile, StatusUnchanged, Recover
  <2> QED BY <2>1, <2>2
<1>8. CASE UNCHANGED vars \/ \E pkt \in network : Lose(pkt)
  BY <1>3, <1>8 DEF vars, Lose
<1>9. ASSUME NEW n \in Node,
             \/ \E seq \in unprocessed[n] : ProcessOwn(n, seq)
             \/ \E a \in Node : AddPeer(n, a) \/ AntiEntropy(n, a)
      PROVE  MongerersFull'
  BY <1>3, <1>9 DEF ProcessOwn, AddPeer, AntiEntropy
<1> QED BY <1>4, <1>5, <1>6, <1>7, <1>8, <1>9 DEF Next

\* A callback is at a rumor of its packet.
AtRumor(h) == /\ h.pc \in {"check", "store", "deliver"} => h.i \in 1 .. Len(h.pkt.rumors)
              /\ h.pc = "reply" => h.pkt.rumors # <<>>

\* The loop over the rumors of a packet stays within the packet.
LEMMA NextRumorInRange ==
  ASSUME NEW h \in Handler, h.i \in 1 .. Len(h.pkt.rumors)
  PROVE  /\ AtRumor(NextRumor(h))
         /\ NextRumor(h).worker = h.worker /\ NextRumor(h).pkt = h.pkt
         /\ NextRumor(h).local = h.local /\ NextRumor(h).neighbors = h.neighbors
         /\ NextRumor(h).pc \in {"check", "reply"}
<1>1. h.pkt.rumors \in Seq(Rumor)
  BY DEF Handler, Packet
<1>2. Len(h.pkt.rumors) \in Nat /\ h.pkt.rumors # <<>>
  BY <1>1, LenProperties, EmptySeq
<1>3. CASE h.i < Len(h.pkt.rumors)
  <2>1. NextRumor(h) = [h EXCEPT !.i = h.i + 1, !.pc = "check"]
    BY <1>3 DEF NextRumor
  <2> QED BY <1>2, <1>3, <2>1 DEF AtRumor, Handler
<1>4. CASE ~(h.i < Len(h.pkt.rumors))
  <2>1. NextRumor(h) = [h EXCEPT !.i = h.i + 1, !.pc = "reply"]
    BY <1>4 DEF NextRumor
  <2> QED BY <1>2, <2>1 DEF AtRumor, Handler
<1> QED BY <1>3, <1>4

\* What a callback becomes in one of its steps, if it does not end.
LEMMA CallbackSuccessor ==
  ASSUME TypeOK, WellFormed, NEW n \in Node, NEW h \in handlers[n], Callback(n, h)
  PROVE  \/ Return(n, h)
         \/ \E g \in Handler : /\ Become(n, h, g)
                               /\ AtRumor(g) /\ g.pc \notin {"status", "panicked"}
                               /\ g.worker = h.worker /\ g.pkt = h.pkt
                               /\ g.local = h.local /\ g.neighbors = h.neighbors
<1>1. h \in Handler /\ AtRumor(h)
  BY DEF TypeOK, WellFormed, HandlersFull, AtRumor
<1>2. h.pc \in {"check", "store", "deliver"} =>
        /\ NextRumor(h) \in Handler /\ AtRumor(NextRumor(h))
        /\ NextRumor(h).worker = h.worker /\ NextRumor(h).pkt = h.pkt
        /\ NextRumor(h).local = h.local /\ NextRumor(h).neighbors = h.neighbors
        /\ NextRumor(h).pc \notin {"status", "panicked"}
  BY <1>1, NextRumorType, NextRumorInRange DEF AtRumor
<1>3. CASE CheckRumor(n, h)
  <2> DEFINE g == [h EXCEPT !.pc = "store", !.found = TRUE]
  <2>1. /\ g \in Handler /\ AtRumor(g) /\ g.pc \notin {"status", "panicked"}
        /\ g.worker = h.worker /\ g.pkt = h.pkt
        /\ g.local = h.local /\ g.neighbors = h.neighbors
    BY <1>1, <1>3 DEF CheckRumor, AtRumor, Handler
  <2>2. Become(n, h, g) \/ Become(n, h, NextRumor(h))
    BY <1>3 DEF CheckRumor
  <2>3. h.pc = "check"
    BY <1>3 DEF CheckRumor
  <2> HIDE DEF g
  <2> QED BY <1>2, <2>1, <2>2, <2>3
<1>4. CASE StoreRumor(n, h)
  <2> DEFINE g == [h EXCEPT !.pc = "deliver"]
  <2>1. /\ g \in Handler /\ AtRumor(g) /\ g.pc \notin {"status", "panicked"}
        /\ g.worker = h.worker /\ g.pkt = h.pkt
        /\ g.local = h.local /\ g.neighbors = h.neighbors
    BY <1>1, <1>4 DEF StoreRumor, AtRumor, Handler
  <2>2. Become(n, h, g) \/ Become(n, h, NextRumor(h))
    BY <1>4 DEF StoreRumor
  <2>3. h.pc = "store"
    BY <1>4 DEF StoreRumor
  <2> HIDE DEF g
  <2> QED BY <1>2, <2>1, <2>2, <2>3
<1>5. CASE DeliverRumor(n, h)
  BY <1>2, <1>5 DEF DeliverRumor
<1>6. CASE ReplyToRumors(n, h) \/ ForwardStatus(n, h) \/ Reconcile(n, h) \/ Recover(n, h)
  BY <1>6 DEF ReplyToRumors, ForwardStatus, Reconcile, Recover
<1> QED BY <1>3, <1>4, <1>5, <1>6 DEF Callback

\* The callback a packet starts.
LEMMA ReceiveStarts ==
  ASSUME TypeOK, WellFormed, NEW n \in Node, NEW pkt \in network, NEW w \in Worker,
         ReceiveRumors(n, w, pkt) \/ ReceiveStatus(n, w, pkt) \/ ReceiveAck(n, w, pkt)
  PROVE  \E g \in Handler : /\ handlers' = [handlers EXCEPT ![n] = @ \cup {g}]
                            /\ AtRumor(g) /\ g.pc \in {"check", "status", "panicked"}
                            /\ g.worker = w /\ g.pkt = pkt
                            /\ g.local = StatusOf(n) \/ g.local = NoStatus
<1>1. PICK pc \in {"check", "status", "panicked"} :
        Start(n, w, pkt, pc) /\ (pc = "check" => pkt.type = "rumors")
  BY DEF ReceiveRumors, ReceiveStatus, ReceiveAck
<1> DEFINE g == [worker |-> w, pc |-> pc, pkt |-> pkt, i |-> 1, found |-> FALSE,
                 neighbors |-> IF pc = "check" THEN Neighbors(n) ELSE {},
                 local |-> IF pc = "status" THEN StatusOf(n) ELSE NoStatus]
<1>2. handlers' = [handlers EXCEPT ![n] = @ \cup {g}]
  BY <1>1 DEF Start
<1>3. pkt \in Packet /\ StatusOf(n) \in Status /\ NoStatus \in Status /\ Neighbors(n) \in SUBSET Node
  BY StatusOfType DEF TypeOK, NoStatus, Status, Neighbors
<1>4. g \in Handler
  BY <1>3 DEF Handler
<1>5. pc = "check" => 1 \in 1 .. Len(pkt.rumors)
  <2>1. pkt.rumors \in Seq(Rumor)
    BY <1>3 DEF Packet
  <2>2. pc = "check" => pkt.rumors # <<>>
    BY <1>1 DEF WellFormed, PacketsFull
  <2> QED BY <2>1, <2>2, EmptySeq
<1>6. AtRumor(g)
  BY <1>1, <1>5 DEF AtRumor
<1>7. /\ g.worker = w /\ g.pkt = pkt /\ g.pc \in {"check", "status", "panicked"}
      /\ g.local = StatusOf(n) \/ g.local = NoStatus
  BY <1>1
<1> HIDE DEF g
<1> QED BY <1>2, <1>4, <1>6, <1>7

\* Callbacks stay within their packets, and behind their node's table.
LEMMA HandlersStep ==
  ASSUME TypeOK, WellFormed, [Next]_vars
  PROVE  HandlersFull' /\ LocalIsPast'
<1> DEFINE Past(n, h) == \A o \in Node : h.local[o] <= Len(rumorTable[n][o])
           Good(n, h) == AtRumor(h) /\ \A o \in Node : h.local[o] <= Len(rumorTable'[n][o])
<1>1. ASSUME NEW n \in Node, NEW h \in Handler, Past(n, h)
      PROVE  \A o \in Node : h.local[o] <= Len(rumorTable'[n][o])
  <2> SUFFICES ASSUME NEW o \in Node PROVE h.local[o] <= Len(rumorTable'[n][o])
    OBVIOUS
  <2>1. h.local[o] \in Nat
    BY DEF Handler, Status
  <2>2. Len(rumorTable[n][o]) \in Nat /\ Len(rumorTable'[n][o]) \in Nat
    BY TypeStep, LenProperties DEF TypeOK
  <2>3. Len(rumorTable[n][o]) <= Len(rumorTable'[n][o])
    BY TablesGrow
  <2> QED BY <1>1, <2>1, <2>2, <2>3
<1>2. \A n \in Node : \A h \in handlers[n] : h \in Handler /\ Past(n, h) /\ Good(n, h)
  BY <1>1 DEF TypeOK, WellFormed, HandlersFull, LocalIsPast, AtRumor
<1> SUFFICES \A n \in Node : \A h \in handlers'[n] : Good(n, h)
  BY DEF HandlersFull, LocalIsPast, AtRumor
<1> HIDE DEF Good
<1>3. CASE UNCHANGED handlers
  BY <1>2, <1>3
<1>4. ASSUME NEW n \in Node, NEW h \in handlers[n], Callback(n, h)
      PROVE  \A p \in Node : \A g \in handlers'[p] : Good(p, g)
  <2>1. CASE Return(n, h)
    BY <1>2, <2>1 DEF Return, TypeOK
  <2>2. ASSUME NEW g \in Handler, Become(n, h, g), AtRumor(g), g.local = h.local
        PROVE  \A p \in Node : \A f \in handlers'[p] : Good(p, f)
    <3>1. Good(n, g)
      BY <1>1, <1>2, <2>2 DEF Good
    <3> QED BY <1>2, <2>2, <3>1 DEF Become, TypeOK
  <2> QED BY <1>4, <2>1, <2>2, CallbackSuccessor
<1>5. ASSUME NEW n \in Node, NEW pkt \in network, Receive(n, pkt)
      PROVE  \A p \in Node : \A g \in handlers'[p] : Good(p, g)
  <2>1. PICK g \in Handler : /\ handlers' = [handlers EXCEPT ![n] = @ \cup {g}]
                             /\ AtRumor(g)
                             /\ g.local = StatusOf(n) \/ g.local = NoStatus
    BY <1>5, ReceiveStarts DEF Receive
  <2>2. Past(n, g)
    <3>1. \A o \in Node : Len(rumorTable[n][o]) \in Nat
      BY LenProperties DEF TypeOK
    <3> QED BY <2>1, <3>1 DEF StatusOf, NoStatus
  <2>3. Good(n, g)
    BY <1>1, <2>1, <2>2 DEF Good
  <2> QED BY <1>2, <2>1, <2>3 DEF TypeOK
<1> QED BY <1>3, <1>4, <1>5, HandlerSteps

\* A peer that has just been created is well formed.
LEMMA TypeInit ==
  ASSUME Init
  PROVE  TypeOK /\ WellFormed
<1>1. \A S : <<>> \in Seq(S) /\ Len(<<>>) = 0
  BY EmptySeq
<1>2. TypeOK
  BY <1>1, PeersAssumption DEF Init, TypeOK
<1>3. DOMAIN <<>> = {}
  BY <1>1
<1>4. WellFormed
  BY <1>3 DEF Init, WellFormed, PacketsFull, MongerersFull, HandlersFull, LocalIsPast
<1> QED BY <1>2, <1>4

\* Every step keeps the types and the shape of packets and threads.
LEMMA WellFormedStep ==
  ASSUME TypeOK, WellFormed, [Next]_vars
  PROVE  TypeOK' /\ WellFormed'
BY TypeStep, PacketsFullStep, MongerersFullStep, HandlersStep DEF WellFormed

\* Every variable keeps its type, in every mode and under every fault; no
\* callback reads past the rumors of its packet.
THEOREM TypeCorrect == Spec => [](TypeOK /\ WellFormed)
<1>1. Init => TypeOK /\ WellFormed
  BY TypeInit
<1>2. TypeOK /\ WellFormed /\ [Next]_vars => (TypeOK /\ WellFormed)'
  BY WellFormedStep
<1> QED BY <1>1, <1>2, PTL DEF Spec

-----------------------------------------------------------------------------
(* The sequential mode. *)

\* The receive loop runs a callback to its end before it receives again.
OneWorker == \A v, w \in Worker : v = w

\* A receive loop with one worker runs one callback at a time.
LEMMA OneCallbackStep ==
  ASSUME TypeOK, WellFormed, OneWorker, OneCallback, [Next]_vars
  PROVE  OneCallback'
<1>1. CASE UNCHANGED handlers
  BY <1>1 DEF OneCallback
<1>2. ASSUME NEW n \in Node, NEW h \in handlers[n], Callback(n, h)
      PROVE  OneCallback'
  <2>1. CASE Return(n, h)
    BY <2>1 DEF Return, TypeOK, OneCallback
  <2>2. ASSUME NEW g \in Handler, Become(n, h, g) PROVE OneCallback'
    BY <2>2 DEF Become, TypeOK, OneCallback
  <2> QED BY <1>2, <2>1, <2>2, CallbackSuccessor
<1>3. ASSUME NEW n \in Node, NEW pkt \in network, Receive(n, pkt)
      PROVE  OneCallback'
  <2>1. PICK w \in Worker : \/ ReceiveRumors(n, w, pkt) \/ ReceiveStatus(n, w, pkt)
                            \/ ReceiveAck(n, w, pkt)
    BY <1>3 DEF Receive
  <2>2. handlers[n] = {}
    <3>1. w \in Idle(n)
      BY <2>1 DEF ReceiveRumors, ReceiveStatus, ReceiveAck
    <3> QED BY <3>1 DEF Idle, OneWorker, TypeOK, Handler
  <2>3. PICK g \in Handler : handlers' = [handlers EXCEPT ![n] = @ \cup {g}]
    BY <2>1, ReceiveStarts
  <2> QED BY <2>2, <2>3 DEF OneCallback, TypeOK
<1> QED BY <1>1, <1>2, <1>3, HandlerSteps

\* What a callback stores is the next rumor of another node, which has it.
LEMMA StoresNext ==
  ASSUME InOrder, NEW n \in Node, NEW h \in handlers[n], StoreRumor(n, h)
  PROVE  LET rumor == h.pkt.rumors[h.i]
         IN  /\ rumor \in Rumor /\ rumor.origin # n
             /\ rumor.seq = Len(rumorTable[n][rumor.origin]) + 1
             /\ rumor.seq <= Len(rumorTable[rumor.origin][rumor.origin])
<1> DEFINE rumor == h.pkt.rumors[h.i]
<1>1. h \in Handler /\ h.i \in 1 .. Len(h.pkt.rumors)
  BY DEF InOrder, StoreRumor, WellFormed, HandlersFull, TypeOK
<1>2. rumor \in Rumor
  BY <1>1, RumorOfHandler
<1>3. h.i \in DOMAIN h.pkt.rumors
  BY <1>1, LenProperties DEF Handler, Packet
<1>4. rumor.seq <= Len(rumorTable[rumor.origin][rumor.origin])
  BY <1>3 DEF InOrder, Sequential, RumorsExist, Exists
<1>5. rumor.seq = Len(rumorTable[n][rumor.origin]) + 1
  BY DEF StoreRumor, InOrder, Sequential, ChecksHold
<1>6. Len(rumorTable[n][rumor.origin]) \in Nat
  BY <1>2, LenProperties DEF InOrder, TypeOK, Rumor
<1> HIDE DEF rumor
<1>7. rumor.origin # n
  BY <1>4, <1>5, <1>6
<1> QED BY <1>2, <1>4, <1>5, <1>7, Zenon DEF rumor

\* The two steps that change a table have the same effect on it.
LEMMA TableEffect ==
  ASSUME InOrder, [Next]_vars
  PROVE  \/ UNCHANGED rumorTable
         \/ \E n, o \in Node :
              /\ rumorTable' = [rumorTable EXCEPT ![n][o] = Append(@, Len(rumorTable[n][o]) + 1)]
              /\ o # n => Len(rumorTable[n][o]) + 1 <= Len(rumorTable[o][o])
<1>1. ASSUME NEW n \in Node, Broadcast(n)
      PROVE  rumorTable' = [rumorTable EXCEPT ![n][n] = Append(@, Len(rumorTable[n][n]) + 1)]
  BY <1>1 DEF Broadcast
<1>2. ASSUME NEW n \in Node, NEW h \in handlers[n], StoreRumor(n, h)
      PROVE  \E o \in Node :
               /\ rumorTable' = [rumorTable EXCEPT ![n][o] = Append(@, Len(rumorTable[n][o]) + 1)]
               /\ o # n => Len(rumorTable[n][o]) + 1 <= Len(rumorTable[o][o])
  <2> DEFINE rumor == h.pkt.rumors[h.i]
  <2>1. /\ rumor.origin \in Node
        /\ rumor.seq = Len(rumorTable[n][rumor.origin]) + 1
        /\ rumor.seq <= Len(rumorTable[rumor.origin][rumor.origin])
    BY <1>2, StoresNext DEF Rumor
  <2>2. rumorTable' = [rumorTable EXCEPT ![n][rumor.origin] = Append(@, rumor.seq)]
    BY <1>2 DEF StoreRumor
  <2> QED BY <2>1, <2>2, Zenon
<1> QED BY <1>1, <1>2, TableSteps

\* Tables stay without gaps and never ahead of their origin's table.
LEMMA GaplessStep ==
  ASSUME InOrder, [Next]_vars
  PROVE  Gapless'
<1>1. CASE UNCHANGED rumorTable
  BY <1>1 DEF InOrder, Sequential, Gapless
<1>2. ASSUME NEW n \in Node, NEW o \in Node,
             rumorTable' = [rumorTable EXCEPT ![n][o] = Append(@, Len(rumorTable[n][o]) + 1)],
             o # n => Len(rumorTable[n][o]) + 1 <= Len(rumorTable[o][o])
      PROVE  Gapless'
  <2> DEFINE old == rumorTable[n][o]
             new == Append(old, Len(old) + 1)
  <2>1. \A m, p \in Node : /\ rumorTable[m][p] \in Seq(Nat) /\ Len(rumorTable[m][p]) \in Nat
                           /\ DOMAIN rumorTable[m][p] = 1 .. Len(rumorTable[m][p])
    BY LenProperties DEF InOrder, TypeOK
  <2>2. /\ new \in Seq(Nat) /\ Len(new) = Len(old) + 1 /\ new[Len(old) + 1] = Len(old) + 1
        /\ \A i \in 1 .. Len(old) : new[i] = old[i]
    BY <2>1, AppendProperties
  <2>3. DOMAIN new = 1 .. Len(old) + 1
    BY <2>2, LenProperties
  <2>4. \A i \in DOMAIN new : new[i] = i
    <3>1. \A i \in 1 .. Len(old) : old[i] = i
      BY <2>1 DEF InOrder, Sequential, Gapless
    <3>2. \A k \in Nat : \A i \in 1 .. k + 1 : i \in 1 .. k \/ i = k + 1
      OBVIOUS
    <3>3. \A i \in 1 .. Len(old) + 1 : i \in 1 .. Len(old) \/ i = Len(old) + 1
      BY <2>1, <3>2
    <3> QED BY <2>2, <2>3, <3>1, <3>3
  <2>5. rumorTable'[n][o] = new
    BY <1>2 DEF InOrder, TypeOK
  <2>6. \A m, p \in Node : m # n \/ p # o => rumorTable'[m][p] = rumorTable[m][p]
    BY <1>2 DEF InOrder, TypeOK
  <2>7. \A m, p \in Node : Len(rumorTable[m][p]) <= Len(rumorTable[p][p])
    BY DEF InOrder, Sequential, Gapless
  <2> HIDE DEF new
  <2> SUFFICES ASSUME NEW m \in Node, NEW p \in Node
               PROVE  /\ \A i \in DOMAIN rumorTable'[m][p] : rumorTable'[m][p][i] = i
                      /\ Len(rumorTable'[m][p]) <= Len(rumorTable'[p][p])
    BY DEF Gapless
  <2>8. \A i \in DOMAIN rumorTable'[m][p] : rumorTable'[m][p][i] = i
    BY <2>4, <2>5, <2>6 DEF InOrder, Sequential, Gapless
  <2>9. Len(rumorTable'[m][p]) <= Len(rumorTable'[p][p])
    BY <1>2, <2>1, <2>2, <2>5, <2>6, <2>7
  <2> QED BY <2>8, <2>9
<1> QED BY <1>1, <1>2, TableEffect

\* Rumors that exist go on existing.
ExistNext(rumors) ==
  \A i \in DOMAIN rumors :
    rumors[i].seq <= Len(rumorTable'[rumors[i].origin][rumors[i].origin])

\* Rumors that exist go on existing, as tables only grow.
LEMMA ExistsStep ==
  ASSUME InOrder, [Next]_vars, NEW rumors \in Seq(Rumor), Exists(rumors)
  PROVE  ExistNext(rumors)
<1> SUFFICES ASSUME NEW i \in DOMAIN rumors
             PROVE  rumors[i].seq <= Len(rumorTable'[rumors[i].origin][rumors[i].origin])
  BY DEF ExistNext
<1> DEFINE o == rumors[i].origin
<1>1. rumors[i] \in Rumor
  BY LenProperties, ElementOfSeq
<1>2. o \in Node /\ rumors[i].seq \in Nat
  BY <1>1 DEF Rumor
<1>3. rumors[i].seq <= Len(rumorTable[o][o])
  BY DEF Exists
<1>4. TypeOK /\ WellFormed /\ TypeOK'
  BY TypeStep DEF InOrder
<1> HIDE DEF o
<1>5. Len(rumorTable[o][o]) <= Len(rumorTable'[o][o])
  BY <1>2, <1>4, TablesGrow
<1>6. rumorTable[o][o] \in Seq(Nat) /\ rumorTable'[o][o] \in Seq(Nat)
  BY <1>2, <1>4 DEF TypeOK
<1>7. Len(rumorTable[o][o]) \in Nat /\ Len(rumorTable'[o][o]) \in Nat
  BY <1>6, LenProperties
<1>8. rumors[i].seq <= Len(rumorTable'[o][o])
  BY <1>2, <1>3, <1>5, <1>7
<1> QED BY <1>8 DEF o

\* What getMissingRumors sends exists.
LEMMA SortingsExist ==
  ASSUME TypeOK, Gapless, NEW n \in Node, NEW one \in Status, NEW other \in Status,
         NEW rumors \in Sortings(n, Missing(n, one, other))
  PROVE  Exists(rumors)
<1> DEFINE positions == Missing(n, one, other)
           size == Cardinality(positions)
<1>1. PICK f \in [1 .. size -> positions] : rumors = [i \in 1 .. size |-> RumorAt(n, f[i])]
  BY DEF Sortings
<1>2. ASSUME NEW p \in positions
      PROVE  RumorAt(n, p).seq <= Len(rumorTable[RumorAt(n, p).origin][RumorAt(n, p).origin])
  <2>1. PICK o \in Node : p \in {o} \X (other[o] + 1 .. Len(rumorTable[n][o]))
    BY DEF Missing
  <2>2. p[1] = o /\ p[2] \in other[o] + 1 .. Len(rumorTable[n][o])
    BY <2>1
  <2>3. other[o] \in Nat /\ rumorTable[n][o] \in Seq(Nat)
    BY DEF Status, TypeOK
  <2>4. /\ Len(rumorTable[n][o]) \in Nat /\ Len(rumorTable[o][o]) \in Nat
        /\ DOMAIN rumorTable[n][o] = 1 .. Len(rumorTable[n][o])
    BY <2>3, LenProperties DEF TypeOK
  <2>5. p[2] \in DOMAIN rumorTable[n][o] /\ p[2] <= Len(rumorTable[n][o])
    BY <2>2, <2>3, <2>4
  <2>6. rumorTable[n][o][p[2]] = p[2] /\ Len(rumorTable[n][o]) <= Len(rumorTable[o][o])
    BY <2>5 DEF Gapless
  <2>7. p[2] \in Nat
    BY <2>4, <2>5
  <2>8. RumorAt(n, p).seq = p[2] /\ RumorAt(n, p).origin = o
    BY <2>2, <2>6 DEF RumorAt
  <2> QED BY <2>4, <2>5, <2>6, <2>7, <2>8
<1> QED BY <1>1, <1>2 DEF Exists

\* A goroutine keeps its rumors or finishes.
LEMMA MongererSteps ==
  ASSUME TypeOK, NEW n \in Node, NEW id \in DOMAIN monger[n], Monger(n, id)
  PROVE  \E u : /\ monger' = [monger EXCEPT ![n][id] = u]
                /\ u.rumors = <<>> \/ u.rumors = monger[n][id].rumors
<1>1. monger[n][id] \in Mongerer
  BY LenProperties, ElementOfSeq DEF TypeOK
<1>2. \A m : Excluding(n, id, m).rumors = monger[n][id].rumors
  BY <1>1 DEF Excluding, Mongerer
<1>3. Finished.rumors = <<>>
  BY DEF Finished
<1>4. ASSUME NEW m \in Node, MongerSend(n, id, m)
      PROVE  \E u : /\ monger' = [monger EXCEPT ![n][id] = u]
                    /\ u.rumors = <<>> \/ u.rumors = monger[n][id].rumors
  <2> DEFINE u == [monger[n][id] EXCEPT !.neighbors = Known(n, id), !.dest = m, !.pc = "wait"]
  <2>1. u.rumors = monger[n][id].rumors
    BY <1>1 DEF Mongerer
  <2>2. \/ monger' = [monger EXCEPT ![n][id] = u]
        \/ monger' = [monger EXCEPT ![n][id] = Finished]
    BY <1>4 DEF MongerSend
  <2> HIDE DEF u
  <2> QED BY <1>3, <2>1, <2>2
<1>5. ASSUME NEW m \in Node, MongerSendFails(n, id, m)
      PROVE  monger' = [monger EXCEPT ![n][id] = Excluding(n, id, m)]
  BY <1>5 DEF MongerSendFails
<1>6. MongerTimeout(n, id) => monger' = [monger EXCEPT ![n][id] = Excluding(n, id, monger[n][id].dest)]
  BY DEF MongerTimeout
<1>7. MongerGiveUp(n, id) \/ MongerAcked(n, id) => monger' = [monger EXCEPT ![n][id] = Finished]
  BY DEF MongerGiveUp, MongerAcked
<1> QED BY <1>2, <1>3, <1>4, <1>5, <1>6, <1>7 DEF Monger

\* Whatever is sent, mongered or processed exists at its origin.
LEMMA RumorsExistStep ==
  ASSUME InOrder, [Next]_vars
  PROVE  RumorsExist'
<1> USE DEF InOrder
<1>1. \A n \in Node : \A h \in handlers[n] :
        h \in Handler /\ h.pkt.rumors \in Seq(Rumor) /\ ExistNext(h.pkt.rumors)
  <2> SUFFICES ASSUME NEW n \in Node, NEW h \in handlers[n]
               PROVE  h \in Handler /\ h.pkt.rumors \in Seq(Rumor) /\ ExistNext(h.pkt.rumors)
    OBVIOUS
  <2> h \in Handler
    BY DEF TypeOK
  <2>1. h \in Handler /\ h.pkt.rumors \in Seq(Rumor)
    BY DEF Handler, Packet
  <2>2. Exists(h.pkt.rumors)
    BY DEF Sequential, RumorsExist
  <2> QED BY <2>1, <2>2, ExistsStep
<1>2. \A pkt \in network : pkt.rumors \in Seq(Rumor) /\ ExistNext(pkt.rumors)
  <2> SUFFICES ASSUME NEW pkt \in network
               PROVE  pkt.rumors \in Seq(Rumor) /\ ExistNext(pkt.rumors)
    OBVIOUS
  <2>1. pkt.rumors \in Seq(Rumor)
    BY DEF TypeOK, Packet
  <2>2. Exists(pkt.rumors)
    BY DEF Sequential, RumorsExist
  <2> QED BY <2>1, <2>2, ExistsStep
<1>3. \A n \in Node : \A id \in DOMAIN monger[n] :
        monger[n][id].rumors \in Seq(Rumor) /\ ExistNext(monger[n][id].rumors)
  <2> SUFFICES ASSUME NEW n \in Node, NEW id \in DOMAIN monger[n]
               PROVE  monger[n][id].rumors \in Seq(Rumor) /\ ExistNext(monger[n][id].rumors)
    OBVIOUS
  <2>1. monger[n][id] \in Mongerer
    BY LenProperties, ElementOfSeq DEF TypeOK
  <2>2. monger[n][id].rumors \in Seq(Rumor) /\ Exists(monger[n][id].rumors)
    BY <2>1 DEF Mongerer, Sequential, RumorsExist
  <2> QED BY <2>2, ExistsStep
<1>4. ExistNext(<<>>)
  BY DEF ExistNext
<1>5. \A pkt \in network' : ExistNext(pkt.rumors)
  <2>1. CASE network' \subseteq network
    BY <1>2, <2>1
  <2>2. ASSUME NEW n \in Node, NEW m \in Node, NEW id \in DOMAIN monger[n], MongerSend(n, id, m)
        PROVE  \A pkt \in network' : ExistNext(pkt.rumors)
    BY <1>2, <1>3, <2>2 DEF MongerSend, RumorsPacket
  <2>3. ASSUME NEW n \in Node, NEW m \in Node, AntiEntropy(n, m)
        PROVE  \A pkt \in network' : ExistNext(pkt.rumors)
    BY <1>2, <1>4, <2>3 DEF AntiEntropy, StatusPacket
  <2>4. ASSUME NEW n \in Node, NEW h \in handlers[n], ReplyToRumors(n, h) \/ ForwardStatus(n, h)
        PROVE  \A pkt \in network' : ExistNext(pkt.rumors)
    BY <1>2, <1>4, <2>4 DEF ReplyToRumors, ForwardStatus, AckPacket, StatusPacket
  <2>5. ASSUME NEW n \in Node, NEW h \in handlers[n], Reconcile(n, h)
        PROVE  \A pkt \in network' : ExistNext(pkt.rumors)
    <3>1. h.local \in Status /\ h.pkt.status \in Status
      BY <1>1 DEF Handler, Packet
    <3>2. ASSUME NEW rumors \in Sortings(n, Missing(n, h.local, h.pkt.status))
          PROVE  ExistNext(rumors)
      BY <3>1, SortingsType, SortingsExist, ExistsStep DEF Sequential
    <3> QED BY <1>2, <1>4, <2>5, <3>2 DEF Reconcile, RumorsPacket, StatusPacket
  <2> QED BY <2>1, <2>2, <2>3, <2>4, <2>5, SendingSteps
<1>6. \A n \in Node : \A h \in handlers'[n] : ExistNext(h.pkt.rumors)
  <2>1. CASE UNCHANGED handlers
    BY <1>1, <2>1
  <2>2. ASSUME NEW n \in Node, NEW pkt \in network, Receive(n, pkt)
        PROVE  \A p \in Node : \A g \in handlers'[p] : ExistNext(g.pkt.rumors)
    <3>1. PICK g : handlers' = [handlers EXCEPT ![n] = @ \cup {g}] /\ g.pkt = pkt
      BY <2>2, ReceiveStarts DEF Receive
    <3> QED BY <1>1, <1>2, <3>1 DEF TypeOK
  <2>3. ASSUME NEW n \in Node, NEW h \in handlers[n], Callback(n, h)
        PROVE  \A p \in Node : \A g \in handlers'[p] : ExistNext(g.pkt.rumors)
    <3>1. CASE Return(n, h)
      BY <1>1, <3>1 DEF Return, TypeOK
    <3>2. ASSUME NEW g, Become(n, h, g), g.pkt = h.pkt
          PROVE  \A p \in Node : \A f \in handlers'[p] : ExistNext(f.pkt.rumors)
      BY <1>1, <3>2 DEF Become, TypeOK
    <3> QED BY <2>3, <3>1, <3>2, CallbackSuccessor
  <2> QED BY <2>1, <2>2, <2>3, HandlerSteps
<1>7. \A n \in Node : \A id \in DOMAIN monger'[n] : ExistNext(monger'[n][id].rumors)
  <2> SUFFICES ASSUME NEW p \in Node, NEW k \in DOMAIN monger'[p]
               PROVE  ExistNext(monger'[p][k].rumors)
    OBVIOUS
  <2>1. CASE UNCHANGED monger
    BY <1>3, <2>1
  <2>2. ASSUME NEW n \in Node, NEW rumors \in Seq(Rumor), NEW exclude \in SUBSET Node,
               StartMongering(n, rumors, exclude), ExistNext(rumors)
        PROVE  ExistNext(monger'[p][k].rumors)
    <3>1. NewMongerer(rumors, exclude).rumors = rumors
      BY DEF NewMongerer
    <3> QED BY <1>3, <2>2, <3>1, AppendedMongerer
  <2>3. ASSUME NEW n \in Node, Broadcast(n) PROVE ExistNext(monger'[p][k].rumors)
    <3> DEFINE seq == Len(rumorTable[n][n]) + 1
               rumors == <<[origin |-> n, seq |-> seq]>>
    <3>1. seq \in Nat /\ rumorTable[n][n] \in Seq(Nat)
      BY LenProperties DEF TypeOK
    <3>2. rumors \in Seq(Rumor)
      BY <3>1 DEF Rumor
    <3>3. rumorTable'[n][n] = Append(rumorTable[n][n], seq)
      BY <2>3 DEF Broadcast, TypeOK
    <3>4. Len(rumorTable'[n][n]) = seq
      BY <3>1, <3>3, AppendProperties
    <3>5. ExistNext(rumors)
      BY <3>1, <3>4 DEF ExistNext
    <3>6. StartMongering(n, rumors, {}) /\ {} \in SUBSET Node
      BY <2>3 DEF Broadcast
    <3> HIDE DEF rumors
    <3> QED BY <2>2, <3>2, <3>5, <3>6
  <2>4. ASSUME NEW n \in Node, NEW h \in handlers[n], ReplyToRumors(n, h)
        PROVE  ExistNext(monger'[p][k].rumors)
    <3>1. StartMongering(n, h.pkt.rumors, {h.pkt.from}) \/ UNCHANGED monger
      BY <2>4 DEF ReplyToRumors
    <3>2. {h.pkt.from} \in SUBSET Node
      BY <1>1 DEF Handler, Packet
    <3> QED BY <1>1, <2>1, <2>2, <3>1, <3>2
  <2>5. ASSUME NEW n \in Node, NEW id \in DOMAIN monger[n], Monger(n, id)
        PROVE  ExistNext(monger'[p][k].rumors)
    <3>1. PICK u : /\ monger' = [monger EXCEPT ![n][id] = u]
                   /\ u.rumors = <<>> \/ u.rumors = monger[n][id].rumors
      BY <2>5, MongererSteps
    <3> QED BY <1>3, <1>4, <3>1, ReplacedMongerer
  <2>6. ASSUME NEW n \in Node, NEW pkt \in network, Receive(n, pkt) PROVE UNCHANGED monger
    BY <2>6 DEF Receive, ReceiveRumors, ReceiveStatus, ReceiveAck
  <2>7. ASSUME NEW n \in Node, NEW h \in handlers[n], Callback(n, h), ~ReplyToRumors(n, h)
        PROVE  UNCHANGED monger
    BY <2>7, Zenon DEF Callback, CheckRumor, StoreRumor, DeliverRumor, ForwardStatus,
                Reconcile, StatusUnchanged, Recover
  <2>8. CASE UNCHANGED vars \/ \E pkt \in network : Lose(pkt)
    BY <2>1, <2>8 DEF vars, Lose
  <2>9. ASSUME NEW n \in Node,
               \/ \E seq \in unprocessed[n] : ProcessOwn(n, seq)
               \/ \E a \in Node : AddPeer(n, a) \/ AntiEntropy(n, a)
        PROVE  UNCHANGED monger
    BY <2>9 DEF ProcessOwn, AddPeer, AntiEntropy
  <2> QED BY <2>1, <2>3, <2>4, <2>5, <2>6, <2>7, <2>8, <2>9 DEF Next
<1> QED BY <1>5, <1>6, <1>7 DEF RumorsExist, Exists, ExistNext

\* Without gaps, the last Sequence stored is the number of rumors stored.
LEMMA LastIsLen ==
  ASSUME TypeOK, Gapless, NEW n \in Node, NEW o \in Node
  PROVE  LastSeqno(n, o) = Len(rumorTable[n][o])
<1>1. rumorTable[n][o] \in Seq(Nat)
  BY DEF TypeOK
<1>2. CASE rumorTable[n][o] = <<>>
  BY <1>2 DEF LastSeqno
<1>3. CASE rumorTable[n][o] # <<>>
  <2>1. Len(rumorTable[n][o]) \in DOMAIN rumorTable[n][o]
    BY <1>1, <1>3, EmptySeq, LenProperties
  <2> QED BY <1>3, <2>1 DEF LastSeqno, Gapless
<1> QED BY <1>2, <1>3

\* A rumor checked or stored is not the node's own.
LEMMA RumorOfOther ==
  ASSUME InOrder, NEW n \in Node, NEW h \in handlers[n], h.pc \in {"store", "deliver"}
  PROVE  /\ h \in Handler /\ h.i \in 1 .. Len(h.pkt.rumors)
         /\ h.pkt.rumors[h.i].origin \in Node \ {n}
<1> DEFINE o == h.pkt.rumors[h.i].origin
<1>1. h \in Handler /\ h.i \in 1 .. Len(h.pkt.rumors)
  BY DEF InOrder, WellFormed, HandlersFull, TypeOK
<1>2. o \in Node
  BY <1>1, RumorOfHandler DEF Rumor
<1>3. h.i \in DOMAIN h.pkt.rumors
  BY <1>1, LenProperties DEF Handler, Packet
<1>4. h.pkt.rumors[h.i].seq <= Len(rumorTable[o][o])
  BY <1>3 DEF InOrder, Sequential, RumorsExist, Exists
<1>5. Len(rumorTable[n][o]) \in Nat
  <2>1. TypeOK
    BY DEF InOrder
  <2> HIDE DEF o
  <2>2. rumorTable[n][o] \in Seq(Nat)
    BY <1>2, <2>1 DEF TypeOK
  <2> QED BY <2>2, LenProperties
<1>6. o # n
  <2>1. CASE h.pc = "store"
    <3>1. h.pkt.rumors[h.i].seq = Len(rumorTable[n][o]) + 1
      BY <2>1 DEF InOrder, Sequential, ChecksHold
    <3> DEFINE seq == h.pkt.rumors[h.i].seq
    <3>2. seq <= Len(rumorTable[o][o]) /\ seq = Len(rumorTable[n][o]) + 1
      BY <1>4, <3>1
    <3> HIDE DEF seq, o
    <3> QED BY <1>5, <3>2
  <2>2. CASE h.pc = "deliver"
    BY <2>2 DEF InOrder, Sequential, ChecksHold
  <2> QED BY <2>1, <2>2
<1> QED BY <1>1, <1>2, <1>6

\* What RumorsMessageCallback checked holds until it stores and delivers.
LEMMA ChecksHoldStep ==
  ASSUME InOrder, OneWorker, [Next]_vars
  PROVE  ChecksHold'
<1> USE DEF InOrder
<1> DEFINE CheckNext(p, g) ==
             LET rumor == g.pkt.rumors[g.i]
                 size  == Len(rumorTable'[p][rumor.origin])
             IN /\ g.pc = "store" => rumor.seq = size + 1
                /\ g.pc = "deliver" => rumor.origin # p /\ rumor.seq = size
<1> SUFFICES \A p \in Node : \A g \in handlers'[p] : CheckNext(p, g)
  BY DEF ChecksHold
\* A callback whose node's entry for the origin is as it was.
<1>1. ASSUME NEW p \in Node, NEW g \in handlers[p],
             g.pc \in {"store", "deliver"} =>
               rumorTable'[p][g.pkt.rumors[g.i].origin] = rumorTable[p][g.pkt.rumors[g.i].origin]
      PROVE  CheckNext(p, g)
  <2> DEFINE rumor == g.pkt.rumors[g.i]
  <2>1. /\ g.pc = "store" => rumor.seq = Len(rumorTable[p][rumor.origin]) + 1
        /\ g.pc = "deliver" => /\ rumor.origin # p
                               /\ rumor.seq = Len(rumorTable[p][rumor.origin])
    BY DEF Sequential, ChecksHold
  <2>2. g.pc \in {"store", "deliver"} => rumorTable'[p][rumor.origin] = rumorTable[p][rumor.origin]
    BY <1>1
  <2> HIDE DEF rumor
  <2>3. /\ g.pc = "store" => rumor.seq = Len(rumorTable'[p][rumor.origin]) + 1
        /\ g.pc = "deliver" => /\ rumor.origin # p
                               /\ rumor.seq = Len(rumorTable'[p][rumor.origin])
    BY <2>1, <2>2
  <2> QED BY <2>3 DEF rumor
<1>2. ASSUME NEW n \in Node, Broadcast(n)
      PROVE  \A p \in Node : \A g \in handlers'[p] : CheckNext(p, g)
  <2> SUFFICES ASSUME NEW p \in Node, NEW g \in handlers[p] PROVE CheckNext(p, g)
    BY <1>2 DEF Broadcast
  <2>1. ASSUME g.pc \in {"store", "deliver"}
        PROVE  rumorTable'[p][g.pkt.rumors[g.i].origin] = rumorTable[p][g.pkt.rumors[g.i].origin]
    <3>1. g.pkt.rumors[g.i].origin \in Node \ {p}
      BY <2>1, RumorOfOther
    <3>2. rumorTable' = [rumorTable EXCEPT ![n][n] = Append(@, Len(rumorTable[n][n]) + 1)]
      BY <1>2 DEF Broadcast
    <3> QED BY <3>1, <3>2 DEF TypeOK
  <2> QED BY <1>1, <2>1
<1>3. ASSUME NEW n \in Node, NEW h \in handlers[n], StoreRumor(n, h)
      PROVE  \A p \in Node : \A g \in handlers'[p] : CheckNext(p, g)
  <2> DEFINE rumor == h.pkt.rumors[h.i]
             old == rumorTable[n][rumor.origin]
             new == [h EXCEPT !.pc = "deliver"]
  <2>1. /\ rumor \in Rumor /\ rumor.origin # n /\ rumor.seq = Len(old) + 1
        /\ rumor.origin \in Node /\ rumor.seq \in Nat
    BY <1>3, StoresNext DEF Rumor
  <2>2. rumorTable' = [rumorTable EXCEPT ![n][rumor.origin] = Append(@, rumor.seq)]
    BY <1>3 DEF StoreRumor
  <2>3. rumorTable'[n][rumor.origin] = Append(old, rumor.seq)
    BY <2>1, <2>2, Zenon DEF TypeOK
  <2>4. Len(rumorTable'[n][rumor.origin]) = rumor.seq
    <3>1. old \in Seq(Nat)
      BY <2>1 DEF TypeOK
    <3>2. Len(Append(old, rumor.seq)) = Len(old) + 1
      BY <2>1, <3>1, AppendProperties
    <3> HIDE DEF old, rumor
    <3> QED BY <2>1, <2>3, <3>2
  <2>5. h \in Handler
    BY DEF TypeOK
  <2>6. new.pc = "deliver" /\ new.i = h.i /\ new.pkt = h.pkt
    BY <2>5 DEF Handler
  <2>7. CheckNext(n, new)
    BY <2>1, <2>4, <2>6
  <2>8. handlers' = [handlers EXCEPT ![n] = (@ \ {h}) \cup {new}]
    BY <1>3, <2>1 DEF StoreRumor, Become
  <2> HIDE DEF new
  <2>9. handlers'[n] = {new} /\ \A p \in Node \ {n} : handlers'[p] = handlers[p]
    BY <2>8 DEF TypeOK, Sequential, OneCallback
  <2>10. \A p \in Node \ {n} : rumorTable'[p] = rumorTable[p]
    BY <2>2 DEF TypeOK
  <2>11. ASSUME NEW p \in Node \ {n}, NEW g \in handlers'[p] PROVE CheckNext(p, g)
    <3>1. g \in handlers[p] /\ rumorTable'[p] = rumorTable[p]
      BY <2>9, <2>10
    <3> HIDE DEF CheckNext
    <3> QED BY <1>1, <3>1
  <2> HIDE DEF CheckNext
  <2> QED BY <2>7, <2>9, <2>11
<1>4. CASE UNCHANGED rumorTable
  <2>1. \A p \in Node : \A g \in handlers[p] : CheckNext(p, g)
    BY <1>1, <1>4
  <2>2. CASE UNCHANGED handlers
    BY <2>1, <2>2
  <2>3. ASSUME NEW n \in Node, NEW pkt \in network, Receive(n, pkt)
        PROVE  \A p \in Node : \A g \in handlers'[p] : CheckNext(p, g)
    <3>1. PICK g : /\ handlers' = [handlers EXCEPT ![n] = @ \cup {g}]
                   /\ g.pc \in {"check", "status", "panicked"}
      BY <2>3, ReceiveStarts DEF Receive
    <3>2. CheckNext(n, g)
      BY <3>1
    <3> HIDE DEF CheckNext
    <3> QED BY <2>1, <3>1, <3>2 DEF TypeOK
  <2>4. ASSUME NEW n \in Node, NEW h \in handlers[n], Callback(n, h)
        PROVE  \A p \in Node : \A g \in handlers'[p] : CheckNext(p, g)
    <3>1. CASE Return(n, h)
      <4> HIDE DEF CheckNext
      <4> QED BY <2>1, <3>1 DEF Return, TypeOK
    <3>2. ASSUME NEW g, Become(n, h, g), CheckNext(n, g)
          PROVE  \A p \in Node : \A f \in handlers'[p] : CheckNext(p, f)
      <4> HIDE DEF CheckNext
      <4> QED BY <2>1, <3>2 DEF Become, TypeOK
    <3>3. h \in Handler
      BY DEF TypeOK
    <3>4. h.pc \in {"check", "store", "deliver"} => CheckNext(n, NextRumor(h))
      BY <3>3, NextRumorInRange DEF WellFormed, HandlersFull
    <3>5. CASE CheckRumor(n, h)
      <4> DEFINE g == [h EXCEPT !.pc = "store", !.found = TRUE]
      <4>1. h.pc = "check" /\ h.pkt.rumors[h.i].origin \in Node
        BY <3>3, <3>5, RumorOfHandler DEF CheckRumor, WellFormed, HandlersFull, Rumor
      <4>2. CASE Become(n, h, g) /\ Expected(n, h.pkt.rumors[h.i])
        <5>1. g.pc = "store" /\ g.i = h.i /\ g.pkt = h.pkt
          BY <3>3 DEF Handler
        <5>2. h.pkt.rumors[h.i].seq = Len(rumorTable[n][h.pkt.rumors[h.i].origin]) + 1
          BY <4>1, <4>2, LastIsLen DEF Expected, Sequential
        <5>3. CheckNext(n, g)
          BY <1>4, <5>1, <5>2
        <5> HIDE DEF CheckNext, g
        <5> QED BY <3>2, <4>2, <5>3
      <4>3. CASE Become(n, h, NextRumor(h))
        <5> HIDE DEF CheckNext
        <5> QED BY <3>2, <3>4, <4>1, <4>3
      <4> QED BY <3>5, <4>2, <4>3 DEF CheckRumor
    <3>6. CASE DeliverRumor(n, h)
      <4>1. h.pc = "deliver" /\ (Become(n, h, NextRumor(h)) \/ Return(n, h))
        BY <3>6 DEF DeliverRumor
      <4> HIDE DEF CheckNext
      <4> QED BY <3>1, <3>2, <3>4, <4>1
    <3>7. CASE ReplyToRumors(n, h) \/ ForwardStatus(n, h) \/ Reconcile(n, h) \/ Recover(n, h)
      BY <3>1, <3>7 DEF ReplyToRumors, ForwardStatus, Reconcile, Recover
    <3>8. CASE StoreRumor(n, h)
      BY <1>3, <3>8
    <3> QED BY <2>4, <3>5, <3>6, <3>7, <3>8 DEF Callback
  <2> HIDE DEF CheckNext
  <2> QED BY <2>2, <2>3, <2>4, HandlerSteps
<1> HIDE DEF CheckNext
<1> QED BY <1>2, <1>3, <1>4, TableSteps

\* What a callback delivers is the rumor after those delivered before.
LEMMA DeliversNext ==
  ASSUME InOrder, NEW n \in Node, NEW h \in handlers[n], DeliverRumor(n, h)
  PROVE  LET o == h.pkt.rumors[h.i].origin
         IN  /\ o \in Node \ {n}
             /\ delivered[n][o] \in Seq(Nat)
             /\ Len(rumorTable[n][o]) = Len(delivered[n][o]) + 1
             /\ Len(delivered[n][o]) + 1 <= Len(rumorTable[o][o])
             /\ delivered' = [delivered EXCEPT ![n][o] = Append(@, Len(delivered[n][o]) + 1)]
<1> DEFINE rumor == h.pkt.rumors[h.i]
           o == rumor.origin
<1>1. h.pc = "deliver"
  BY DEF DeliverRumor
<1>2. o \in Node \ {n}
  BY <1>1, RumorOfOther
<1>3. Delivering(n, o)
  BY <1>1 DEF Delivering
<1>4. Len(rumorTable[n][o]) = Len(delivered[n][o]) + 1
  BY <1>2, <1>3 DEF InOrder, Sequential, DeliveredInOrder
<1>5. rumor.seq = Len(rumorTable[n][o])
  BY <1>1 DEF InOrder, Sequential, ChecksHold
<1>6. Len(rumorTable[n][o]) <= Len(rumorTable[o][o])
  BY <1>2 DEF InOrder, Sequential, Gapless
<1>7. delivered[n][o] \in Seq(Nat)
  <2> HIDE DEF o
  <2> QED BY <1>2 DEF InOrder, TypeOK
<1>8. delivered' = [delivered EXCEPT ![n][o] = Append(@, rumor.seq)]
  BY DEF DeliverRumor
<1> HIDE DEF o
<1>9. delivered' = [delivered EXCEPT ![n][o] = Append(@, Len(delivered[n][o]) + 1)]
  BY <1>4, <1>5, <1>8
<1> QED BY <1>2, <1>4, <1>6, <1>7, <1>9, Zenon DEF o

\* Deliveries are in order and keep up with the table.
LEMMA DeliveredStep ==
  ASSUME InOrder, OneWorker, [Next]_vars
  PROVE  DeliveredInOrder'
<1> USE DEF InOrder
<1> DEFINE DeliveringNext(p, o) ==
             \E g \in handlers'[p] : g.pc = "deliver" /\ g.pkt.rumors[g.i].origin = o
           Good(p, o) ==
             /\ \A i \in DOMAIN delivered'[p][o] : delivered'[p][o][i] = i
             /\ Len(rumorTable'[p][o]) = IF DeliveringNext(p, o) THEN Len(delivered'[p][o]) + 1
                                                                ELSE Len(delivered'[p][o])
<1> SUFFICES \A p \in Node : \A o \in Node \ {p} : Good(p, o)
  BY DEF DeliveredInOrder, Delivering
\* Nothing the invariant speaks of has changed.
<1>1. ASSUME NEW p \in Node, NEW o \in Node \ {p},
             delivered'[p][o] = delivered[p][o], rumorTable'[p][o] = rumorTable[p][o],
             DeliveringNext(p, o) <=> Delivering(p, o)
      PROVE  Good(p, o)
  <2>1. \A i \in DOMAIN delivered[p][o] : delivered[p][o][i] = i
    BY DEF Sequential, DeliveredInOrder
  <2>2. Len(rumorTable[p][o]) = IF Delivering(p, o) THEN Len(delivered[p][o]) + 1
                                                    ELSE Len(delivered[p][o])
    BY DEF Sequential, DeliveredInOrder
  <2> HIDE DEF DeliveringNext
  <2> QED BY <1>1, <2>1, <2>2
<1>2. ASSUME NEW n \in Node, Broadcast(n), NEW p \in Node, NEW o \in Node \ {p}
      PROVE  Good(p, o)
  <2>1. delivered' = delivered /\ handlers' = handlers
    BY <1>2 DEF Broadcast
  <2>2. rumorTable'[p][o] = rumorTable[p][o]
    BY <1>2 DEF Broadcast, TypeOK
  <2>3. DeliveringNext(p, o) <=> Delivering(p, o)
    BY <2>1 DEF Delivering
  <2> HIDE DEF Good, DeliveringNext
  <2> QED BY <1>1, <2>1, <2>2, <2>3
<1>3. ASSUME NEW n \in Node, NEW h \in handlers[n], StoreRumor(n, h),
             NEW p \in Node, NEW o \in Node \ {p}
      PROVE  Good(p, o)
  <2> DEFINE rumor == h.pkt.rumors[h.i]
             new == [h EXCEPT !.pc = "deliver"]
  <2>1. /\ rumor.origin \in Node \ {n} /\ rumor.seq \in Nat
        /\ rumorTable' = [rumorTable EXCEPT ![n][rumor.origin] = Append(@, rumor.seq)]
        /\ delivered' = delivered /\ h.pc = "store"
    BY <1>3, StoresNext, Zenon DEF StoreRumor, Rumor
  <2>2. h \in Handler
    BY DEF TypeOK
  <2>3. new.pc = "deliver" /\ new.i = h.i /\ new.pkt = h.pkt
    BY <2>2 DEF Handler
  <2>4. handlers' = [handlers EXCEPT ![n] = (@ \ {h}) \cup {new}]
    BY <1>3, <2>1 DEF StoreRumor, Become
  <2> HIDE DEF new
  <2>5. handlers'[n] = {new} /\ handlers[n] = {h} /\ (p # n => handlers'[p] = handlers[p])
    <3>1. handlers[n] = {h}
      BY DEF Sequential, OneCallback
    <3> QED BY <2>4, <3>1 DEF TypeOK
  <2>6. CASE p = n /\ o = rumor.origin
    <3>1. ~Delivering(n, o) /\ DeliveringNext(n, o)
      BY <2>1, <2>3, <2>5, <2>6 DEF Delivering
    <3>2. /\ Len(rumorTable[n][o]) = Len(delivered[n][o])
          /\ \A i \in DOMAIN delivered[n][o] : delivered[n][o][i] = i
      BY <2>6, <3>1 DEF Sequential, DeliveredInOrder
    <3> HIDE DEF rumor
    <3>3. rumorTable[n][o] \in Seq(Nat)
      BY DEF TypeOK
    <3>4. rumorTable'[n][o] = Append(rumorTable[n][o], rumor.seq)
      BY <2>1, <2>6 DEF TypeOK
    <3>5. Len(Append(rumorTable[n][o], rumor.seq)) = Len(rumorTable[n][o]) + 1
      BY <2>1, <3>3, AppendProperties
    <3> HIDE DEF DeliveringNext
    <3> QED BY <2>1, <2>6, <3>1, <3>2, <3>4, <3>5
  <2>7. CASE ~(p = n /\ o = rumor.origin)
    <3>1. DeliveringNext(p, o) <=> Delivering(p, o)
      BY <2>1, <2>3, <2>5, <2>7 DEF Delivering
    <3>2. rumorTable'[p][o] = rumorTable[p][o]
      BY <2>1, <2>7 DEF TypeOK
    <3> HIDE DEF Good, DeliveringNext
    <3> QED BY <1>1, <2>1, <3>1, <3>2
  <2> QED BY <2>6, <2>7
<1>4. ASSUME NEW n \in Node, NEW h \in handlers[n], DeliverRumor(n, h),
             NEW p \in Node, NEW o \in Node \ {p}
      PROVE  Good(p, o)
  <2> DEFINE origin == h.pkt.rumors[h.i].origin
             old == delivered[n][origin]
             new == Append(old, Len(old) + 1)
  <2>1. /\ origin \in Node \ {n} /\ old \in Seq(Nat)
        /\ Len(rumorTable[n][origin]) = Len(old) + 1
        /\ delivered' = [delivered EXCEPT ![n][origin] = Append(@, Len(old) + 1)]
    BY <1>4, DeliversNext
  <2>2. h \in Handler /\ h.i \in 1 .. Len(h.pkt.rumors) /\ h.pc = "deliver" /\ rumorTable' = rumorTable
    BY <1>4, RumorOfOther DEF DeliverRumor
  <2>3. NextRumor(h).pc # "deliver" /\ (Become(n, h, NextRumor(h)) \/ Return(n, h))
    BY <1>4, <2>2, NextRumorInRange DEF DeliverRumor
  <2>4. /\ \A g \in handlers'[n] : g.pc # "deliver"
        /\ p # n => handlers'[p] = handlers[p]
        /\ handlers[n] = {h}
    <3>1. handlers[n] = {h}
      BY DEF Sequential, OneCallback
    <3>2. \/ handlers' = [handlers EXCEPT ![n] = (@ \ {h}) \cup {NextRumor(h)}]
          \/ handlers' = [handlers EXCEPT ![n] = @ \ {h}]
      BY <2>3 DEF Become, Return
    <3> DEFINE next == NextRumor(h)
    <3>3. next.pc # "deliver"
      BY <2>3
    <3>4. \/ handlers' = [handlers EXCEPT ![n] = (@ \ {h}) \cup {next}]
          \/ handlers' = [handlers EXCEPT ![n] = @ \ {h}]
      BY <3>2
    <3> HIDE DEF next
    <3>5. /\ handlers'[n] \subseteq {next}
          /\ p # n => handlers'[p] = handlers[p]
      BY <3>1, <3>4 DEF TypeOK
    <3> QED BY <3>1, <3>3, <3>5
  <2> HIDE DEF origin
  <2>5. CASE p = n /\ o = origin
    <3>1. ~DeliveringNext(n, o)
      BY <2>4
    <3>2. delivered'[n][o] = new
      BY <2>1, <2>5 DEF TypeOK
    <3>3. /\ new \in Seq(Nat) /\ Len(new) = Len(old) + 1 /\ new[Len(old) + 1] = Len(old) + 1
          /\ \A i \in 1 .. Len(old) : new[i] = old[i]
      BY <2>1, AppendProperties, LenProperties
    <3>4. \A i \in 1 .. Len(old) : old[i] = i
      BY <2>1, <2>5, LenProperties DEF Sequential, DeliveredInOrder
    <3>5. Len(old) \in Nat /\ DOMAIN new = 1 .. Len(old) + 1
      BY <2>1, <3>3, LenProperties
    <3>6. \A k \in Nat : \A i \in 1 .. k + 1 : i \in 1 .. k \/ i = k + 1
      OBVIOUS
    <3>7. \A i \in 1 .. Len(old) + 1 : i \in 1 .. Len(old) \/ i = Len(old) + 1
      BY <3>5, <3>6
    <3> HIDE DEF new, DeliveringNext
    <3>8. \A i \in DOMAIN new : new[i] = i
      BY <3>3, <3>4, <3>5, <3>7
    <3> QED BY <2>1, <2>2, <2>5, <3>1, <3>2, <3>3, <3>8
  <2>6. CASE ~(p = n /\ o = origin)
    <3>1. DeliveringNext(p, o) <=> Delivering(p, o)
      BY <2>4, <2>6 DEF Delivering, origin
    <3>2. delivered'[p][o] = delivered[p][o]
      BY <2>1, <2>6 DEF TypeOK
    <3> HIDE DEF Good, DeliveringNext
    <3> QED BY <1>1, <2>2, <3>1, <3>2
  <2> QED BY <2>5, <2>6
<1>5. ASSUME UNCHANGED <<rumorTable, delivered>>, NEW p \in Node, NEW o \in Node \ {p},
             DeliveringNext(p, o) <=> Delivering(p, o)
      PROVE  Good(p, o)
  <2> HIDE DEF Good, DeliveringNext
  <2> QED BY <1>1, <1>5
<1>6. ASSUME UNCHANGED <<rumorTable, delivered, handlers>>, NEW p \in Node, NEW o \in Node \ {p}
      PROVE  Good(p, o)
  <2>1. DeliveringNext(p, o) <=> Delivering(p, o)
    BY <1>6 DEF Delivering
  <2> HIDE DEF Good, DeliveringNext
  <2> QED BY <1>5, <1>6, <2>1
<1>7. ASSUME NEW n \in Node, NEW pkt \in network, Receive(n, pkt),
             NEW p \in Node, NEW o \in Node \ {p}
      PROVE  Good(p, o)
  <2>1. UNCHANGED <<rumorTable, delivered>>
    BY <1>7 DEF Receive, ReceiveRumors, ReceiveStatus, ReceiveAck
  <2>2. PICK g : handlers' = [handlers EXCEPT ![n] = @ \cup {g}] /\ g.pc # "deliver"
    BY <1>7, ReceiveStarts DEF Receive
  <2>3. DeliveringNext(p, o) <=> Delivering(p, o)
    BY <2>2 DEF Delivering, TypeOK
  <2> HIDE DEF Good, DeliveringNext
  <2> QED BY <1>5, <2>1, <2>3
<1>8. ASSUME NEW n \in Node, NEW h \in handlers[n], Callback(n, h),
             ~StoreRumor(n, h), ~DeliverRumor(n, h), NEW p \in Node, NEW o \in Node \ {p}
      PROVE  Good(p, o)
  <2>1. h.pc # "deliver" /\ UNCHANGED <<rumorTable, delivered>>
    BY <1>8 DEF Callback, CheckRumor, ReplyToRumors, ForwardStatus, Reconcile,
                StatusUnchanged, Recover
  <2>2. \/ Return(n, h)
        \/ \E g : Become(n, h, g) /\ g.pc # "deliver"
    <3>1. CASE CheckRumor(n, h)
      <4>1. h \in Handler /\ h.i \in 1 .. Len(h.pkt.rumors)
        BY <3>1 DEF CheckRumor, TypeOK, WellFormed, HandlersFull
      <4>2. NextRumor(h).pc # "deliver" /\ [h EXCEPT !.pc = "store", !.found = TRUE].pc # "deliver"
        BY <4>1, NextRumorInRange DEF Handler
      <4> QED BY <3>1, <4>2 DEF CheckRumor
    <3> QED BY <1>8, <3>1 DEF Callback, ReplyToRumors, ForwardStatus, Reconcile, Recover
  <2>3. DeliveringNext(p, o) <=> Delivering(p, o)
    <3>1. CASE Return(n, h)
      BY <2>1, <3>1 DEF Return, Delivering, TypeOK
    <3>2. ASSUME NEW g, Become(n, h, g), g.pc # "deliver"
          PROVE  DeliveringNext(p, o) <=> Delivering(p, o)
      <4>1. handlers' = [handlers EXCEPT ![n] = (@ \ {h}) \cup {g}]
        BY <3>2 DEF Become
      <4>2. p # n => handlers'[p] = handlers[p]
        BY <4>1 DEF TypeOK
      <4>3. handlers'[n] = (handlers[n] \ {h}) \cup {g}
        BY <4>1 DEF TypeOK
      <4>4. CASE p # n
        BY <4>2, <4>4 DEF Delivering
      <4>5. CASE p = n
        BY <2>1, <3>2, <4>3, <4>5 DEF Delivering
      <4> QED BY <4>4, <4>5
    <3> QED BY <2>2, <3>1, <3>2
  <2> HIDE DEF Good, DeliveringNext
  <2> QED BY <1>5, <2>1, <2>3
<1>9. ASSUME NEW n \in Node,
             \/ \E id \in DOMAIN monger[n] : Monger(n, id)
             \/ \E seq \in unprocessed[n] : ProcessOwn(n, seq)
             \/ \E a \in Node : AddPeer(n, a) \/ AntiEntropy(n, a)
      PROVE  UNCHANGED <<rumorTable, delivered, handlers>>
  BY <1>9, Zenon DEF Monger, MongerSend, MongerSendFails, MongerGiveUp, MongerAcked, MongerTimeout,
              MongerUnchanged, ProcessOwn, AddPeer, AntiEntropy
<1>10. CASE UNCHANGED vars \/ \E pkt \in network : Lose(pkt)
  BY <1>10, <1>6 DEF vars, Lose
<1> HIDE DEF Good
<1> QED BY <1>2, <1>3, <1>4, <1>6, <1>7, <1>8, <1>9, <1>10 DEF Next, Callback

\* Empty tables are in order.
LEMMA InOrderInit ==
  ASSUME Init
  PROVE  InOrder
<1>1. TypeOK /\ WellFormed
  BY TypeInit
<1>2. DOMAIN <<>> = {} /\ Len(<<>>) = 0
  BY EmptySeq
<1>3. \A n, o \in Node : ~Delivering(n, o)
  BY DEF Init, Delivering
<1>4. Sequential
  BY <1>2, <1>3 DEF Init, Sequential, RumorsExist, Exists, Gapless, OneCallback, ChecksHold,
                    DeliveredInOrder
<1> QED BY <1>1, <1>4 DEF InOrder

\* With one callback at a time every step keeps the tables in order.
LEMMA InOrderStep ==
  ASSUME OneWorker, InOrder, [Next]_vars
  PROVE  InOrder'
<1>1. TypeOK' /\ WellFormed'
  BY WellFormedStep DEF InOrder
<1>2. OneCallback'
  BY OneCallbackStep DEF InOrder, Sequential
<1> QED BY <1>1, <1>2, RumorsExistStep, GaplessStep, ChecksHoldStep, DeliveredStep
        DEF InOrder, Sequential

\* With one worker the inductive invariant holds for every number of nodes,
\* every topology, every number of rumors and every mixture of faults.
THEOREM InOrderInvariant ==
  ASSUME OneWorker
  PROVE  Spec => []InOrder
<1>1. Init => InOrder
  BY InOrderInit
<1>2. InOrder /\ [Next]_vars => InOrder'
  BY InOrderStep
<1> QED BY <1>1, <1>2, PTL DEF Spec

\* A status gives the last Sequence of every origin, so that comparing two
\* statuses compares what was received.
THEOREM StatusCorrect ==
  ASSUME OneWorker
  PROVE  Spec => []StatusIsLastSequence
<1>1. InOrder => StatusIsLastSequence
  BY LastIsLen DEF InOrder, Sequential, StatusIsLastSequence, StatusOf
<1> QED BY <1>1, InOrderInvariant, PTL

\* Nodes with equal statuses have equal tables: anti-entropy may stop there.
THEOREM EqualTables ==
  ASSUME OneWorker
  PROVE  Spec => []EqualStatusEqualTables
<1>1. InOrder => EqualStatusEqualTables
  <2> SUFFICES ASSUME InOrder, NEW n \in Node, NEW m \in Node, StatusOf(n) = StatusOf(m)
               PROVE  rumorTable[n] = rumorTable[m]
    BY DEF EqualStatusEqualTables
  <2>1. ASSUME NEW o \in Node PROVE rumorTable[n][o] = rumorTable[m][o]
    <3>1. rumorTable[n][o] \in Seq(Nat) /\ rumorTable[m][o] \in Seq(Nat)
      BY DEF InOrder, TypeOK
    <3>2. Len(rumorTable[n][o]) = Len(rumorTable[m][o])
      <4>1. StatusOf(n)[o] = StatusOf(m)[o]
        OBVIOUS
      <4> QED BY <4>1 DEF StatusOf
    <3>3. \A i \in 1 .. Len(rumorTable[n][o]) : rumorTable[n][o][i] = rumorTable[m][o][i]
      BY <3>1, <3>2, LenProperties DEF InOrder, Sequential, Gapless
    <3> QED BY <3>1, <3>2, <3>3, SeqEqual
  <2> QED BY <2>1 DEF InOrder, TypeOK
<1> QED BY <1>1, InOrderInvariant, PTL

\* The embedded messages of an origin are handled in order and once each.
THEOREM InOrderDelivery ==
  ASSUME OneWorker
  PROVE  Spec => []DeliveredInOrder
<1>1. InOrder => DeliveredInOrder
  BY DEF InOrder, Sequential
<1> QED BY <1>1, InOrderInvariant, PTL

-----------------------------------------------------------------------------
(* Refinement. *)

\* Nothing is broadcast and nothing delivered at the start.
LEMMA BroadcastInit ==
  ASSUME Init
  PROVE  Promise!Init
<1>1. Len(<<>>) = 0
  BY EmptySeq
<1> QED BY <1>1 DEF Init, Promise!Init

\* Broadcast is a Publish, DeliverRumor an Accept, and nothing else changes
\* what was sent or what was received.
LEMMA BroadcastStep ==
  ASSUME InOrder, [Next]_vars
  PROVE  [Promise!Next]_(Promise!vars)
<1> USE DEF InOrder
<1> DEFINE sent == [o \in Node |-> Len(rumorTable[o][o])]
           sentNext == [o \in Node |-> Len(rumorTable'[o][o])]
<1>1. CASE sentNext = sent /\ delivered' = delivered
  BY <1>1 DEF Promise!vars
<1>2. ASSUME NEW n \in Node, Broadcast(n)
      PROVE  [Promise!Next]_(Promise!vars)
  <2> DEFINE old == rumorTable[n][n]
             new == Append(old, Len(old) + 1)
  <2>1. rumorTable' = [rumorTable EXCEPT ![n][n] = Append(@, Len(old) + 1)] /\ delivered' = delivered
    BY <1>2 DEF Broadcast
  <2>2. old \in Seq(Nat) /\ Len(old) + 1 \in Nat
    BY LenProperties DEF TypeOK
  <2>3. Len(new) = Len(old) + 1
    BY <2>2, AppendProperties
  <2>4. rumorTable'[n][n] = new /\ \A o \in Node \ {n} : rumorTable'[o][o] = rumorTable[o][o]
    BY <2>1 DEF TypeOK
  <2> HIDE DEF new
  <2>5. sentNext = [sent EXCEPT ![n] = @ + 1]
    BY <2>3, <2>4
  <2>6. Promise!Publish(n)
    BY <2>1, <2>5 DEF Promise!Publish
  <2> QED BY <2>6 DEF Promise!Next
<1>3. ASSUME NEW n \in Node, NEW h \in handlers[n], StoreRumor(n, h)
      PROVE  sentNext = sent /\ delivered' = delivered
  <2> DEFINE rumor == h.pkt.rumors[h.i]
  <2>1. rumor.origin \in Node \ {n}
    BY <1>3, StoresNext DEF Rumor
  <2>2. /\ rumorTable' = [rumorTable EXCEPT ![n][rumor.origin] = Append(@, rumor.seq)]
        /\ delivered' = delivered
    BY <1>3 DEF StoreRumor
  <2> DEFINE origin == rumor.origin
             seq == rumor.seq
  <2>3. origin \in Node \ {n} /\ rumorTable' = [rumorTable EXCEPT ![n][origin] = Append(@, seq)]
    BY <2>1, <2>2
  <2> HIDE DEF origin, seq
  <2>4. \A o \in Node : rumorTable'[o][o] = rumorTable[o][o]
    BY <2>3 DEF TypeOK
  <2>5. delivered' = delivered
    BY <2>2
  <2> HIDE DEF rumor
  <2> QED BY <2>4, <2>5
<1>4. ASSUME NEW n \in Node, NEW h \in handlers[n], DeliverRumor(n, h)
      PROVE  [Promise!Next]_(Promise!vars)
  <2> DEFINE o == h.pkt.rumors[h.i].origin
  <2>1. /\ o \in Node \ {n} /\ delivered[n][o] \in Seq(Nat)
        /\ Len(delivered[n][o]) + 1 <= Len(rumorTable[o][o])
        /\ delivered' = [delivered EXCEPT ![n][o] = Append(@, Len(delivered[n][o]) + 1)]
    BY <1>4, DeliversNext
  <2>2. rumorTable' = rumorTable
    BY <1>4 DEF DeliverRumor
  <2> HIDE DEF o
  <2>3. Len(delivered[n][o]) \in Nat /\ Len(rumorTable[o][o]) \in Nat
    BY <2>1, LenProperties DEF TypeOK
  <2>4. Len(delivered[n][o]) < sent[o]
    BY <2>1, <2>3
  <2>5. delivered' = [delivered EXCEPT ![n][o] = Append(@, Len(@) + 1)]
    BY <2>1 DEF TypeOK
  <2>6. Promise!Accept(n, o)
    BY <2>1, <2>2, <2>4, <2>5 DEF Promise!Accept
  <2> QED BY <2>1, <2>6 DEF Promise!Next
<1>5. ASSUME NEW n \in Node, NEW h \in handlers[n], Callback(n, h),
             ~StoreRumor(n, h), ~DeliverRumor(n, h)
      PROVE  UNCHANGED <<rumorTable, delivered>>
  BY <1>5 DEF Callback, CheckRumor, ReplyToRumors, ForwardStatus, Reconcile,
              StatusUnchanged, Recover
<1>6. ASSUME NEW n \in Node, NEW pkt \in network, Receive(n, pkt)
      PROVE  UNCHANGED <<rumorTable, delivered>>
  BY <1>6 DEF Receive, ReceiveRumors, ReceiveStatus, ReceiveAck
<1>7. ASSUME NEW n \in Node,
             \/ \E id \in DOMAIN monger[n] : Monger(n, id)
             \/ \E seq \in unprocessed[n] : ProcessOwn(n, seq)
             \/ \E a \in Node : AddPeer(n, a) \/ AntiEntropy(n, a)
      PROVE  UNCHANGED <<rumorTable, delivered>>
  BY <1>7, Zenon DEF Monger, MongerSend, MongerSendFails, MongerGiveUp, MongerAcked, MongerTimeout,
              MongerUnchanged, ProcessOwn, AddPeer, AntiEntropy
<1>8. UNCHANGED vars \/ (\E pkt \in network : Lose(pkt)) => UNCHANGED <<rumorTable, delivered>>
  BY DEF vars, Lose
<1>9. UNCHANGED <<rumorTable, delivered>> => [Promise!Next]_(Promise!vars)
  BY DEF Promise!vars
<1> QED BY <1>1, <1>2, <1>3, <1>4, <1>5, <1>6, <1>7, <1>8, <1>9 DEF Next

\* The gossip implements first-in first-out, exactly-once broadcast: whatever
\* is lost, doubled, late or unreachable, no handler sees a message out of the
\* order of its origin, twice, or before it was broadcast.
THEOREM GossipImplementsBroadcast ==
  ASSUME OneWorker
  PROVE  Spec => ImplementsBroadcast
<1>1. Init => Promise!Init
  BY BroadcastInit
<1>2. InOrder /\ [Next]_vars => [Promise!Next]_(Promise!vars)
  BY BroadcastStep
<1> QED BY <1>1, <1>2, InOrderInvariant, PTL DEF Spec, ImplementsBroadcast, Promise!Spec

-----------------------------------------------------------------------------
(* What a callback takes from a packet, and what answers a status. *)

\* The steps that change the goroutines.
LEMMA GoroutineSteps ==
  ASSUME [Next]_vars
  PROVE  \/ UNCHANGED monger
         \/ \E n \in Node : \E id \in DOMAIN monger[n] : Monger(n, id)
         \/ \E n \in Node : Broadcast(n) \/ \E h \in handlers[n] : ReplyToRumors(n, h)
<1>1. ASSUME NEW n \in Node, NEW pkt \in network, Receive(n, pkt)
      PROVE  UNCHANGED monger
  BY <1>1 DEF Receive, ReceiveRumors, ReceiveStatus, ReceiveAck
<1>2. ASSUME NEW n \in Node, NEW h \in handlers[n], Callback(n, h)
      PROVE  UNCHANGED monger \/ ReplyToRumors(n, h)
  BY <1>2, Zenon DEF Callback, CheckRumor, StoreRumor, DeliverRumor, ForwardStatus, Reconcile,
              StatusUnchanged, Recover
<1>3. ASSUME NEW n \in Node,
             \/ \E seq \in unprocessed[n] : ProcessOwn(n, seq)
             \/ \E a \in Node : AddPeer(n, a) \/ AntiEntropy(n, a)
      PROVE  UNCHANGED monger
  BY <1>3 DEF ProcessOwn, AddPeer, AntiEntropy
<1>4. CASE UNCHANGED vars \/ \E pkt \in network : Lose(pkt)
  BY <1>4 DEF vars, Lose
<1> QED BY <1>1, <1>2, <1>3, <1>4 DEF Next

\* The rumors that go round stay within G if what comes in does: a rumor that is
\* broadcast, and the answers to a status.
LEMMA RumorsFlow ==
  ASSUME TypeOK, WellFormed, [Next]_vars, NEW G,
         <<>> \in G,
         \A pkt \in network : pkt.rumors \in G,
         \A n \in Node : \A id \in DOMAIN monger[n] : monger[n][id].rumors \in G,
         \A n \in Node : \A h \in handlers[n] : h.pkt.rumors \in G,
         \A n \in Node : Broadcast(n) =>
           <<[origin |-> n, seq |-> Len(rumorTable[n][n]) + 1]>> \in G,
         \A n \in Node : \A h \in handlers[n] : Reconcile(n, h) =>
           \A rumors \in Sortings(n, Missing(n, h.local, h.pkt.status)) : rumors \in G
  PROVE  /\ \A pkt \in network' : pkt.rumors \in G
         /\ \A n \in Node : \A id \in DOMAIN monger'[n] : monger'[n][id].rumors \in G
         /\ \A n \in Node : \A h \in handlers'[n] : h.pkt.rumors \in G
<1>1. \A pkt \in network' : pkt.rumors \in G
  <2>1. ASSUME NEW n \in Node, NEW m \in Node, NEW id \in DOMAIN monger[n], MongerSend(n, id, m)
        PROVE  \A pkt \in network' : pkt.rumors \in G
    BY <2>1 DEF MongerSend, RumorsPacket
  <2>2. ASSUME NEW n \in Node, NEW m \in Node, AntiEntropy(n, m)
        PROVE  \A pkt \in network' : pkt.rumors \in G
    BY <2>2 DEF AntiEntropy, StatusPacket
  <2>3. ASSUME NEW n \in Node, NEW h \in handlers[n], ReplyToRumors(n, h) \/ ForwardStatus(n, h)
        PROVE  \A pkt \in network' : pkt.rumors \in G
    BY <2>3 DEF ReplyToRumors, ForwardStatus, AckPacket, StatusPacket
  <2>4. ASSUME NEW n \in Node, NEW h \in handlers[n], Reconcile(n, h)
        PROVE  \A pkt \in network' : pkt.rumors \in G
    BY <2>4 DEF Reconcile, RumorsPacket, StatusPacket
  <2> QED BY <2>1, <2>2, <2>3, <2>4, SendingSteps
<1>2. ASSUME NEW p \in Node, NEW k \in DOMAIN monger'[p]
      PROVE  monger'[p][k].rumors \in G
  <2>1. CASE UNCHANGED monger
    BY <2>1
  <2>2. ASSUME NEW n \in Node, NEW rumors \in Seq(Rumor), NEW exclude \in SUBSET Node,
               StartMongering(n, rumors, exclude), rumors \in G
        PROVE  monger'[p][k].rumors \in G
    <3>1. NewMongerer(rumors, exclude).rumors = rumors
      BY DEF NewMongerer
    <3> QED BY <2>2, <3>1, AppendedMongerer
  <2>3. ASSUME NEW n \in Node, Broadcast(n)
        PROVE  monger'[p][k].rumors \in G
    <3> DEFINE rumors == <<[origin |-> n, seq |-> Len(rumorTable[n][n]) + 1]>>
    <3>1. rumors \in Seq(Rumor)
      BY LenProperties DEF TypeOK, Rumor
    <3>2. StartMongering(n, rumors, {}) /\ {} \in SUBSET Node /\ rumors \in G
      BY <2>3 DEF Broadcast
    <3> HIDE DEF rumors
    <3> QED BY <2>2, <3>1, <3>2
  <2>4. ASSUME NEW n \in Node, NEW h \in handlers[n], ReplyToRumors(n, h)
        PROVE  monger'[p][k].rumors \in G
    <3> h \in Handler
      BY DEF TypeOK
    <3>1. h.pkt.rumors \in Seq(Rumor) /\ {h.pkt.from} \in SUBSET Node
      BY DEF Handler, Packet
    <3>2. CASE h.found
      BY <2>2, <2>4, <3>1, <3>2 DEF ReplyToRumors
    <3>3. CASE ~h.found
      BY <2>1, <2>4, <3>3 DEF ReplyToRumors
    <3> QED BY <3>2, <3>3
  <2>5. ASSUME NEW n \in Node, NEW id \in DOMAIN monger[n], Monger(n, id)
        PROVE  monger'[p][k].rumors \in G
    <3>1. PICK u : /\ monger' = [monger EXCEPT ![n][id] = u]
                   /\ u.rumors = <<>> \/ u.rumors = monger[n][id].rumors
      BY <2>5, MongererSteps
    <3> QED BY <3>1, ReplacedMongerer
  <2> QED BY <2>1, <2>3, <2>4, <2>5, GoroutineSteps
<1>3. \A n \in Node : \A h \in handlers'[n] : h.pkt.rumors \in G
  <2>1. ASSUME NEW n \in Node, NEW pkt \in network, Receive(n, pkt)
        PROVE  \A p \in Node : \A g \in handlers'[p] : g.pkt.rumors \in G
    <3>1. PICK g : handlers' = [handlers EXCEPT ![n] = @ \cup {g}] /\ g.pkt = pkt
      BY <2>1, ReceiveStarts DEF Receive
    <3> QED BY <3>1 DEF TypeOK
  <2>2. ASSUME NEW n \in Node, NEW h \in handlers[n], Callback(n, h)
        PROVE  \A p \in Node : \A g \in handlers'[p] : g.pkt.rumors \in G
    <3>1. CASE Return(n, h)
      BY <3>1 DEF Return, TypeOK
    <3>2. ASSUME NEW g, Become(n, h, g), g.pkt = h.pkt
          PROVE  \A p \in Node : \A f \in handlers'[p] : f.pkt.rumors \in G
      BY <3>2 DEF Become, TypeOK
    <3> QED BY <2>2, <3>1, <3>2, CallbackSuccessor
  <2> QED BY <2>1, <2>2, HandlerSteps
<1> QED BY <1>1, <1>2, <1>3

\* What getMissingRumors sends is taken from the table: the origin and the index.
LEMMA MissingRumor ==
  ASSUME TypeOK, Gapless, NEW n \in Node, NEW one \in Status, NEW other \in Status,
         NEW p \in Missing(n, one, other)
  PROVE  /\ p[1] \in Node /\ p = <<p[1], p[2]>>
         /\ p[2] \in other[p[1]] + 1 .. Len(rumorTable[n][p[1]])
         /\ RumorAt(n, p) = [origin |-> p[1], seq |-> p[2]]
<1>1. PICK o \in Node : p \in {o} \X (other[o] + 1 .. Len(rumorTable[n][o]))
  BY DEF Missing
<1>2. p[1] = o /\ p[2] \in other[o] + 1 .. Len(rumorTable[n][o]) /\ p = <<p[1], p[2]>>
  BY <1>1
<1>3. other[o] \in Nat /\ rumorTable[n][o] \in Seq(Nat)
  BY DEF Status, TypeOK
<1>4. Len(rumorTable[n][o]) \in Nat /\ DOMAIN rumorTable[n][o] = 1 .. Len(rumorTable[n][o])
  BY <1>3, LenProperties
<1>5. p[2] \in DOMAIN rumorTable[n][o]
  BY <1>2, <1>3, <1>4
<1>6. rumorTable[n][o][p[2]] = p[2]
  BY <1>5 DEF Gapless
<1> QED BY <1>2, <1>6 DEF RumorAt

\* The rumors of one origin come in the order of their numbers, each of them once.
Rising(rumors) ==
  \A i, j \in DOMAIN rumors :
    i < j /\ rumors[i].origin = rumors[j].origin => rumors[i].seq < rumors[j].seq

AllRising == /\ \A pkt \in network : Rising(pkt.rumors)
             /\ \A n \in Node : \A id \in DOMAIN monger[n] : Rising(monger[n][id].rumors)
             /\ \A n \in Node : \A h \in handlers[n] : Rising(h.pkt.rumors)

\* With the tables T, n would not take this rumor.
Refused(T, n, rumor) == rumor.seq # Len(T[n][rumor.origin]) + 1

\* None of the rumors that a callback has behind it is one that n would take.
Behind(T, n, h) == \A j \in DOMAIN h.pkt.rumors :
  \/ h.pc \in {"check", "store", "deliver"} /\ j < h.i
  \/ h.pc = "reply"
  => Refused(T, n, h.pkt.rumors[j])

NoneMissed == \A n \in Node : \A h \in handlers[n] : Behind(rumorTable, n, h)

TakenInv == InOrder /\ AllRising /\ NoneMissed

\* Positions of a table in the order of Sequence: of one origin each is later than
\* the one before.
LEMMA SortingsRising ==
  ASSUME TypeOK, Gapless, NEW n \in Node, NEW one \in Status, NEW other \in Status,
         NEW rumors \in Sortings(n, Missing(n, one, other))
  PROVE  Rising(rumors)
<1> DEFINE positions == Missing(n, one, other)
           size == Cardinality(positions)
<1>1. PICK f \in [1 .. size -> positions] :
        /\ rumors = [i \in 1 .. size |-> RumorAt(n, f[i])]
        /\ \A i, j \in 1 .. size : f[i] = f[j] => i = j
        /\ \A i, j \in 1 .. size : i < j => RumorAt(n, f[i]).seq <= RumorAt(n, f[j]).seq
  BY DEF Sortings
<1>2. ASSUME NEW p \in positions
      PROVE  /\ p = <<p[1], p[2]>> /\ p[2] \in Int
             /\ RumorAt(n, p) = [origin |-> p[1], seq |-> p[2]]
  <2>1. /\ p = <<p[1], p[2]>> /\ p[2] \in other[p[1]] + 1 .. Len(rumorTable[n][p[1]])
        /\ RumorAt(n, p) = [origin |-> p[1], seq |-> p[2]] /\ p[1] \in Node
    BY MissingRumor
  <2>2. other[p[1]] \in Nat /\ Len(rumorTable[n][p[1]]) \in Nat
    BY <2>1, LenProperties DEF Status, TypeOK
  <2> QED BY <2>1, <2>2
<1>3. DOMAIN rumors = 1 .. size
  BY <1>1
<1> SUFFICES ASSUME NEW i \in 1 .. size, NEW j \in 1 .. size, i < j,
                    rumors[i].origin = rumors[j].origin
             PROVE  rumors[i].seq < rumors[j].seq
  BY <1>3 DEF Rising
<1> HIDE DEF positions
<1>4. f[i] \in positions /\ f[j] \in positions
  BY <1>1
<1>5. /\ rumors[i] = [origin |-> f[i][1], seq |-> f[i][2]]
      /\ rumors[j] = [origin |-> f[j][1], seq |-> f[j][2]]
  BY <1>1, <1>2, <1>4
<1>6. f[i][2] <= f[j][2]
  BY <1>1, <1>2, <1>4
<1>7. f[i][2] # f[j][2]
  <2>1. f[i][1] = f[j][1]
    BY <1>5
  <2>2. f[i] # f[j]
    BY <1>1
  <2>3. f[i] = <<f[i][1], f[i][2]>> /\ f[j] = <<f[j][1], f[j][2]>>
    BY <1>2, <1>4
  <2> QED BY <2>1, <2>2, <2>3
<1>8. f[i][2] \in Int /\ f[j][2] \in Int
  BY <1>2, <1>4
<1> QED BY <1>5, <1>6, <1>7, <1>8

\* A rumor on its own is in order, and so is what answers a status.
LEMMA AllRisingStep ==
  ASSUME InOrder, AllRising, [Next]_vars
  PROVE  AllRising'
<1> DEFINE G == {rumors \in Seq(Rumor) : Rising(rumors)}
<1> TypeOK /\ WellFormed
  BY DEF InOrder
<1>1. ASSUME NEW n \in Node, NEW h \in handlers[n]
      PROVE  h.pkt.rumors \in Seq(Rumor) /\ h.local \in Status /\ h.pkt.status \in Status
  <2>1. h \in Handler
    BY DEF TypeOK
  <2> QED BY <2>1 DEF Handler, Packet
<1>2. ASSUME NEW n \in Node, NEW id \in DOMAIN monger[n]
      PROVE  monger[n][id].rumors \in G
  <2>1. monger[n][id] \in Mongerer
    BY LenProperties, ElementOfSeq DEF TypeOK
  <2> QED BY <2>1 DEF Mongerer, AllRising
<1>3. \A pkt \in network : pkt.rumors \in G
  BY DEF TypeOK, Packet, AllRising
<1>4. \A n \in Node : \A h \in handlers[n] : h.pkt.rumors \in G
  BY <1>1 DEF AllRising
<1>5. <<>> \in G
  <2>1. Rising(<<>>) /\ <<>> \in Seq(Rumor)
    BY DEF Rising
  <2> QED BY <2>1
<1>6. ASSUME NEW n \in Node, Broadcast(n)
      PROVE  <<[origin |-> n, seq |-> Len(rumorTable[n][n]) + 1]>> \in G
  <2> DEFINE rumors == <<[origin |-> n, seq |-> Len(rumorTable[n][n]) + 1]>>
  <2>1. rumors \in Seq(Rumor)
    BY LenProperties DEF TypeOK, Rumor
  <2>2. Rising(rumors)
    BY DEF Rising
  <2> QED BY <2>1, <2>2
<1>7. ASSUME NEW n \in Node, NEW h \in handlers[n],
             NEW rumors \in Sortings(n, Missing(n, h.local, h.pkt.status))
      PROVE  rumors \in G
  <2>1. rumors \in Seq(Rumor)
    BY <1>1, SortingsType
  <2>2. Rising(rumors)
    BY <1>1, SortingsRising DEF InOrder, Sequential
  <2> QED BY <2>1, <2>2
<1>8. \A rumors \in G : Rising(rumors)
  OBVIOUS
<1> HIDE DEF G
<1>9. /\ \A pkt \in network' : pkt.rumors \in G
      /\ \A n \in Node : \A id \in DOMAIN monger'[n] : monger'[n][id].rumors \in G
      /\ \A n \in Node : \A h \in handlers'[n] : h.pkt.rumors \in G
  BY <1>2, <1>3, <1>4, <1>5, <1>6, <1>7, RumorsFlow
<1> QED BY <1>8, <1>9 DEF AllRising

\* What a callback has passed stays behind it: a rumor it stores is after those of
\* its origin before it in the packet, and an own rumor is older than a new one.
LEMMA NoneMissedStep ==
  ASSUME OneWorker, TakenInv, [Next]_vars
  PROVE  NoneMissed'
<1> USE DEF TakenInv
<1> TypeOK /\ WellFormed /\ Gapless
  BY DEF InOrder, Sequential
<1> DEFINE Good(n, h) == Behind(rumorTable', n, h)
           AllGood == \A n \in Node : \A h \in handlers'[n] : Good(n, h)
<1>1. ASSUME NEW n \in Node, NEW h \in handlers[n]
      PROVE  /\ h \in Handler /\ h.pkt.rumors \in Seq(Rumor) /\ Rising(h.pkt.rumors)
             /\ DOMAIN h.pkt.rumors = 1 .. Len(h.pkt.rumors) /\ Len(h.pkt.rumors) \in Nat
             /\ \A j \in DOMAIN h.pkt.rumors : /\ h.pkt.rumors[j].seq \in Nat
                                               /\ h.pkt.rumors[j].origin \in Node
  <2>1. h \in Handler
    BY DEF TypeOK
  <2>2. h.pkt.rumors \in Seq(Rumor)
    BY <2>1 DEF Handler, Packet
  <2>3. \A j \in DOMAIN h.pkt.rumors : h.pkt.rumors[j] \in Rumor
    BY <2>2, LenProperties, ElementOfSeq
  <2> QED BY <2>1, <2>2, <2>3, LenProperties DEF AllRising, Rumor
<1>2. ASSUME NEW n \in Node, NEW h \in handlers[n], rumorTable'[n] = rumorTable[n]
      PROVE  Good(n, h)
  BY <1>2 DEF NoneMissed, Behind, Refused
<1> SUFFICES AllGood
  BY DEF AllGood, NoneMissed
<1>3. ASSUME NEW n \in Node, Broadcast(n)
      PROVE  AllGood
  <2> DEFINE size == Len(rumorTable[n][n])
  <2>1. /\ UNCHANGED handlers /\ rumorTable' = [rumorTable EXCEPT ![n][n] = Append(@, size + 1)]
    BY <1>3 DEF Broadcast
  <2>2. rumorTable[n][n] \in Seq(Nat) /\ size \in Nat
    BY LenProperties DEF TypeOK
  <2>3. Len(Append(rumorTable[n][n], size + 1)) = size + 1
    BY <2>2, AppendProperties
  <2>4. Len(rumorTable'[n][n]) = size + 1
    BY <2>1, <2>3 DEF TypeOK
  <2>5. \A m, o \in Node : m # n \/ o # n => rumorTable'[m][o] = rumorTable[m][o]
    BY <2>1 DEF TypeOK
  <2>6. \A m \in Node \ {n} : rumorTable'[m] = rumorTable[m]
    BY <2>1 DEF TypeOK
  <2>7. ASSUME NEW h \in handlers[n]
        PROVE  Good(n, h)
    <3> SUFFICES ASSUME NEW j \in DOMAIN h.pkt.rumors, Refused(rumorTable, n, h.pkt.rumors[j])
                 PROVE  Refused(rumorTable', n, h.pkt.rumors[j])
      BY DEF Behind, NoneMissed
    <3> DEFINE rumor == h.pkt.rumors[j]
    <3>1. rumor.seq \in Nat /\ rumor.origin \in Node
      BY <1>1
    <3>2. rumor.seq <= Len(rumorTable[rumor.origin][rumor.origin])
      BY DEF InOrder, Sequential, RumorsExist, Exists
    <3>3. Refused(rumorTable, n, rumor)
      OBVIOUS
    <3> SUFFICES Refused(rumorTable', n, rumor)
      OBVIOUS
    <3> HIDE DEF rumor, size
    <3>4. CASE rumor.origin = n
      <4>1. rumor.seq <= size
        BY <3>2, <3>4 DEF size
      <4>2. rumor.seq # size + 1 + 1
        BY <2>2, <3>1, <4>1
      <4> QED BY <2>4, <3>4, <4>2, Zenon DEF Refused
    <3>5. CASE rumor.origin # n
      <4>1. rumorTable'[n][rumor.origin] = rumorTable[n][rumor.origin]
        BY <2>5, <3>1, <3>5
      <4> QED BY <3>3, <4>1, Zenon DEF Refused
    <3> QED BY <3>4, <3>5
  <2> HIDE DEF Good
  <2> QED BY <1>2, <2>1, <2>6, <2>7
<1>4. ASSUME NEW n \in Node, NEW h \in handlers[n], StoreRumor(n, h)
      PROVE  AllGood
  <2> DEFINE rumor == h.pkt.rumors[h.i]
             o == rumor.origin
             size == Len(rumorTable[n][o])
             g == [h EXCEPT !.pc = "deliver"]
  <2>1. rumor \in Rumor /\ o # n /\ rumor.seq = size + 1
    BY <1>4, StoresNext
  <2>2. /\ rumorTable' = [rumorTable EXCEPT ![n][o] = Append(@, rumor.seq)]
        /\ Become(n, h, g) /\ h.pc = "store"
    BY <1>4, <2>1 DEF StoreRumor
  <2>3. o \in Node /\ rumor.seq \in Nat
    BY <2>1 DEF Rumor
  <2>4. h \in Handler /\ h.i \in 1 .. Len(h.pkt.rumors)
    BY <2>2 DEF TypeOK, WellFormed, HandlersFull
  <2>5. g.pkt = h.pkt /\ g.i = h.i /\ g.pc = "deliver"
    BY <2>4 DEF Handler
  <2> DEFINE seq == rumor.seq
  <2>6. seq = size + 1 /\ seq \in Nat /\ rumorTable' = [rumorTable EXCEPT ![n][o] = Append(@, seq)]
    BY <2>1, <2>2, <2>3
  <2>7. h.i \in DOMAIN h.pkt.rumors /\ h.pkt.rumors[h.i].origin = o /\ h.pkt.rumors[h.i].seq = seq
    BY <1>1, <2>4
  <2> HIDE DEF g, seq, o, rumor
  <2>8. rumorTable[n][o] \in Seq(Nat) /\ size \in Nat
    BY <2>3, LenProperties DEF TypeOK
  <2>9. Len(rumorTable'[n][o]) = size + 1
    <3>1. Len(Append(rumorTable[n][o], seq)) = size + 1
      BY <2>6, <2>8, AppendProperties
    <3> QED BY <2>3, <2>6, <3>1 DEF TypeOK
  <2>10. \A p \in Node : p # o => rumorTable'[n][p] = rumorTable[n][p]
    BY <2>3, <2>6 DEF TypeOK
  <2>11. \A m \in Node \ {n} : rumorTable'[m] = rumorTable[m]
    BY <2>6 DEF TypeOK
  <2>12. Good(n, g)
    <3> SUFFICES ASSUME NEW j \in DOMAIN h.pkt.rumors, j < h.i
                 PROVE  Refused(rumorTable', n, h.pkt.rumors[j])
      BY <2>5 DEF Behind
    <3> DEFINE other == h.pkt.rumors[j]
    <3>1. other.seq \in Nat /\ other.origin \in Node
      BY <1>1
    <3>2. Refused(rumorTable, n, other)
      BY <2>2 DEF NoneMissed, Behind
    <3>3. other.origin = o => other.seq < seq
      BY <1>1, <2>7 DEF Rising
    <3> SUFFICES Refused(rumorTable', n, other)
      OBVIOUS
    <3> HIDE DEF other, size
    <3>4. CASE other.origin = o
      <4>1. other.seq # size + 1 + 1
        BY <2>6, <2>8, <3>1, <3>3, <3>4
      <4> QED BY <2>9, <3>4, <4>1, Zenon DEF Refused
    <3>5. CASE other.origin # o
      <4>1. rumorTable'[n][other.origin] = rumorTable[n][other.origin]
        BY <2>10, <3>1, <3>5
      <4> QED BY <3>2, <4>1, Zenon DEF Refused
    <3> QED BY <3>4, <3>5
  <2>13. handlers[n] = {h}
    BY DEF InOrder, Sequential, OneCallback
  <2>14. handlers'[n] = {g} /\ \A m \in Node \ {n} : handlers'[m] = handlers[m]
    BY <2>2, <2>13 DEF Become, TypeOK
  <2> HIDE DEF Good
  <2> QED BY <1>2, <2>11, <2>12, <2>14
<1>5. ASSUME NEW n \in Node, NEW h \in handlers[n], NEW g, Become(n, h, g), UNCHANGED rumorTable,
             Behind(rumorTable, n, g)
      PROVE  AllGood
  <2>1. Good(n, g)
    BY <1>5
  <2> HIDE DEF Good
  <2> QED BY <1>2, <1>5, <2>1 DEF Become, TypeOK
<1>6. ASSUME NEW n \in Node, NEW h \in handlers[n], Return(n, h), UNCHANGED rumorTable
      PROVE  AllGood
  <2> HIDE DEF Good
  <2> QED BY <1>2, <1>6 DEF Return, TypeOK
\* The next rumor, if the one at h is passed over or delivered.
<1>7. ASSUME NEW n \in Node, NEW h \in handlers[n], h.pc \in {"check", "deliver"},
             Refused(rumorTable, n, h.pkt.rumors[h.i])
      PROVE  Behind(rumorTable, n, NextRumor(h))
  <2> DEFINE g == NextRumor(h)
  <2>1. h.i \in 1 .. Len(h.pkt.rumors) /\ h \in Handler
    BY <1>7 DEF WellFormed, HandlersFull, TypeOK
  <2>2. /\ g.pkt = h.pkt /\ g.i = h.i + 1
        /\ g.pc = "check" \/ (g.pc = "reply" /\ ~(h.i < Len(h.pkt.rumors)))
    BY <2>1 DEF NextRumor, Handler
  <2> HIDE DEF g
  <2>3. ASSUME NEW j \in DOMAIN h.pkt.rumors, j <= h.i
        PROVE  Refused(rumorTable, n, h.pkt.rumors[j])
    <3>1. j \in Nat /\ h.i \in Nat
      BY <1>1, <2>1
    <3>2. CASE j = h.i
      BY <1>7, <3>2
    <3>3. CASE j < h.i
      BY <1>7, <3>3 DEF NoneMissed, Behind
    <3> QED BY <2>3, <3>1, <3>2, <3>3
  <2>4. ASSUME NEW j \in DOMAIN g.pkt.rumors, \/ g.pc = "check" /\ j < g.i
                                              \/ g.pc = "reply"
        PROVE  Refused(rumorTable, n, g.pkt.rumors[j])
    <3>1. j \in 1 .. Len(h.pkt.rumors) /\ Len(h.pkt.rumors) \in Nat
      BY <1>1, <2>2
    <3>2. j <= h.i
      BY <2>1, <2>2, <2>4, <3>1
    <3> QED BY <2>2, <2>3, <3>2
  <2>5. g.pc \notin {"store", "deliver"}
    BY <2>2
  <2> QED BY <2>4, <2>5 DEF Behind, g
<1>8. ASSUME NEW n \in Node, NEW h \in handlers[n], CheckRumor(n, h)
      PROVE  AllGood
  <2> DEFINE rumor == h.pkt.rumors[h.i]
  <2>1. h.pc = "check" /\ h.i \in 1 .. Len(h.pkt.rumors) /\ h \in Handler /\ UNCHANGED rumorTable
    BY <1>8 DEF CheckRumor, WellFormed, HandlersFull, TypeOK
  <2>2. CASE Expected(n, rumor)
    <3> DEFINE g == [h EXCEPT !.pc = "store", !.found = TRUE]
    <3>1. Become(n, h, g) /\ g.pc = "store" /\ g.pkt = h.pkt /\ g.i = h.i
      BY <1>8, <2>1, <2>2 DEF CheckRumor, Handler
    <3> HIDE DEF g
    <3>2. Behind(rumorTable, n, g)
      BY <2>1, <3>1 DEF NoneMissed, Behind
    <3> HIDE DEF AllGood
    <3> QED BY <1>5, <2>1, <3>1, <3>2
  <2>3. CASE ~Expected(n, rumor)
    <3>1. Become(n, h, NextRumor(h))
      BY <1>8, <2>3 DEF CheckRumor
    <3>2. h.i \in DOMAIN h.pkt.rumors
      BY <1>1, <2>1
    <3>3. rumor.origin \in Node
      BY <1>1, <3>2
    <3>4. Refused(rumorTable, n, rumor)
      BY <2>3, <3>3, LastIsLen DEF Expected, Refused
    <3> HIDE DEF AllGood
    <3> QED BY <1>5, <1>7, <2>1, <3>1, <3>4
  <2> QED BY <2>2, <2>3
<1>9. ASSUME NEW n \in Node, NEW h \in handlers[n], DeliverRumor(n, h)
      PROVE  AllGood
  <2> DEFINE rumor == h.pkt.rumors[h.i]
  <2>1. h.pc = "deliver" /\ h.i \in 1 .. Len(h.pkt.rumors) /\ h \in Handler /\ UNCHANGED rumorTable
    BY <1>9 DEF DeliverRumor, WellFormed, HandlersFull, TypeOK
  <2>2. Return(n, h) \/ Become(n, h, NextRumor(h))
    BY <1>9 DEF DeliverRumor
  <2>3. h.i \in DOMAIN h.pkt.rumors
    BY <1>1, <2>1
  <2>4. rumor.origin \in Node /\ rumor.seq \in Nat
    BY <1>1, <2>3
  <2>5. rumor.seq = Len(rumorTable[n][rumor.origin])
    BY <2>1 DEF InOrder, Sequential, ChecksHold
  <2> DEFINE seq == rumor.seq
             size == Len(rumorTable[n][rumor.origin])
  <2>6. seq # size + 1
    <3>1. seq \in Nat /\ seq = size
      BY <2>4, <2>5
    <3> HIDE DEF seq, size
    <3> QED BY <3>1
  <2>7. Refused(rumorTable, n, rumor)
    BY <2>6, Zenon DEF Refused
  <2> HIDE DEF AllGood
  <2> QED BY <1>5, <1>6, <1>7, <2>1, <2>2, <2>7
<1>10. ASSUME NEW n \in Node, NEW h \in handlers[n], Callback(n, h), UNCHANGED rumorTable
       PROVE  AllGood
  <2>1. \/ CheckRumor(n, h) \/ StoreRumor(n, h) \/ DeliverRumor(n, h) \/ Return(n, h)
    BY <1>10 DEF Callback, ReplyToRumors, ForwardStatus, Reconcile, Recover
  <2> HIDE DEF AllGood
  <2> QED BY <1>4, <1>6, <1>8, <1>9, <1>10, <2>1
<1>11. ASSUME NEW n \in Node, NEW pkt \in network, Receive(n, pkt), UNCHANGED rumorTable
       PROVE  AllGood
  <2>1. PICK w \in Worker, pc \in {"check", "status", "panicked"} : Start(n, w, pkt, pc)
    BY <1>11 DEF Receive, ReceiveRumors, ReceiveStatus, ReceiveAck
  <2> DEFINE g == [worker |-> w, pc |-> pc, pkt |-> pkt, i |-> 1, found |-> FALSE,
                   neighbors |-> IF pc = "check" THEN Neighbors(n) ELSE {},
                   local |-> IF pc = "status" THEN StatusOf(n) ELSE NoStatus]
  <2>2. handlers' = [handlers EXCEPT ![n] = @ \cup {g}] /\ g.pc # "reply" /\ g.i = 1 /\ g.pkt = pkt
    BY <2>1 DEF Start
  <2>3. pkt.rumors \in Seq(Rumor)
    BY DEF TypeOK, Packet
  <2>4. \A j \in DOMAIN pkt.rumors : ~(j < 1)
    BY <2>3, LenProperties
  <2> HIDE DEF g
  <2>5. Good(n, g)
    BY <2>2, <2>4 DEF Behind
  <2> HIDE DEF Good
  <2> QED BY <1>2, <1>11, <2>2, <2>5 DEF TypeOK
<1>12. CASE UNCHANGED <<handlers, rumorTable>>
  <2> HIDE DEF Good
  <2> QED BY <1>2, <1>12
<1> HIDE DEF AllGood
<1> QED BY <1>3, <1>4, <1>10, <1>11, <1>12, HandlerSteps, TableSteps

\* With one callback at a time, who acknowledges a packet has taken whatever it could
\* take from it, in one pass: packets come in order, and the node's table is changed
\* meanwhile only by its own broadcasts.
THEOREM AcksMeanTaken ==
  ASSUME OneWorker
  PROVE  Spec => []AckMeansTaken
<1>1. Init => TakenInv
  BY InOrderInit DEF Init, TakenInv, AllRising, NoneMissed
<1>2. TakenInv /\ [Next]_vars => TakenInv'
  BY InOrderStep, AllRisingStep, NoneMissedStep DEF TakenInv
<1>3. TakenInv => AckMeansTaken
  <2> SUFFICES ASSUME TakenInv, NEW n \in Node, NEW h \in handlers[n], h.pc = "reply",
                      NEW i \in DOMAIN h.pkt.rumors
               PROVE  h.pkt.rumors[i].seq # LastSeqno(n, h.pkt.rumors[i].origin) + 1
    BY DEF AckMeansTaken
  <2>1. Refused(rumorTable, n, h.pkt.rumors[i])
    BY DEF TakenInv, NoneMissed, Behind
  <2>2. h \in Handler /\ TypeOK /\ Gapless
    BY DEF TakenInv, InOrder, Sequential, TypeOK
  <2>3. h.pkt.rumors \in Seq(Rumor)
    BY <2>2 DEF Handler, Packet
  <2>4. h.pkt.rumors[i] \in Rumor
    BY <2>3, LenProperties, ElementOfSeq
  <2>5. LastSeqno(n, h.pkt.rumors[i].origin) = Len(rumorTable[n][h.pkt.rumors[i].origin])
    BY <2>2, <2>4, LastIsLen DEF Rumor
  <2> QED BY <2>1, <2>5, Zenon DEF Refused
<1> QED BY <1>1, <1>2, <1>3, PTL DEF Spec

\* No status is ahead of the tables T of the node that sent it.
NotAhead(T, pkt) == \A o \in Node : pkt.status[o] <= Len(T[pkt.from][o])

StatusesPast == /\ \A pkt \in network : NotAhead(rumorTable, pkt)
                /\ \A n \in Node : \A h \in handlers[n] : NotAhead(rumorTable, h.pkt)

\* Each rumor is the next one of its origin at most, where its receiver has size[o] of
\* o's rumors, or comes after its predecessor.
Joined(rumors, size) == \A i \in DOMAIN rumors :
  \/ rumors[i].seq <= size[rumors[i].origin] + 1
  \/ \E j \in 1 .. i - 1 : rumors[j] = [rumors[i] EXCEPT !.seq = @ - 1]

Lengths(T, n) == [o \in Node |-> Len(T[n][o])]

AnswersJoined == \A pkt \in network : pkt.type = "rumors" /\ pkt.id = NoId =>
                   Joined(pkt.rumors, Lengths(rumorTable, pkt.to))

AnswerInv == InOrder /\ StatusesPast /\ AnswersJoined

\* The positions missed are all of a table from the one after the status on, so in the
\* order of Sequence each comes after its predecessor.
LEMMA SortingsJoined ==
  ASSUME TypeOK, Gapless, NEW n \in Node, NEW one \in Status, NEW other \in Status,
         NEW rumors \in Sortings(n, Missing(n, one, other))
  PROVE  Joined(rumors, other)
<1> DEFINE positions == Missing(n, one, other)
           size == Cardinality(positions)
<1>1. IsFiniteSet(positions) /\ size \in Nat
  BY MissingFinite, FS_CardinalityType
<1>2. PICK f \in [1 .. size -> positions] :
        /\ rumors = [i \in 1 .. size |-> RumorAt(n, f[i])]
        /\ \A i, j \in 1 .. size : f[i] = f[j] => i = j
        /\ \A i, j \in 1 .. size : i < j => RumorAt(n, f[i]).seq <= RumorAt(n, f[j]).seq
  BY DEF Sortings
<1>3. f \in Surjection(1 .. size, positions)
  <2>1. f \in Injection(1 .. size, positions)
    BY <1>2 DEF Injection, IsInjective
  <2>2. Cardinality(1 .. size) = size
    BY <1>1, FS_Interval
  <2> HIDE DEF positions
  <2>3. Cardinality(1 .. size) = Cardinality(positions) <=> f \in Surjection(1 .. size, positions)
    BY <1>1, <2>1, FS_Injection
  <2> QED BY <2>2, <2>3
<1>4. DOMAIN rumors = 1 .. size
  BY <1>2
<1> SUFFICES ASSUME NEW i \in 1 .. size, ~(rumors[i].seq <= other[rumors[i].origin] + 1)
             PROVE  \E j \in 1 .. i - 1 : rumors[j] = [rumors[i] EXCEPT !.seq = @ - 1]
  BY <1>4 DEF Joined
<1> DEFINE o == f[i][1]
           k == f[i][2]
<1>5. f[i] \in positions
  BY <1>2
<1>6. /\ o \in Node /\ f[i] = <<o, k>>
      /\ k \in other[o] + 1 .. Len(rumorTable[n][o])
      /\ RumorAt(n, f[i]) = [origin |-> o, seq |-> k]
  BY <1>5, MissingRumor
<1>7. rumors[i] = [origin |-> o, seq |-> k]
  BY <1>2, <1>6
<1>8. other[o] \in Nat /\ Len(rumorTable[n][o]) \in Nat
  BY <1>6, LenProperties DEF Status, TypeOK
<1>9. k - 1 \in other[o] + 1 .. Len(rumorTable[n][o])
  BY <1>6, <1>7, <1>8
<1>10. <<o, k - 1>> \in positions
  <2>1. PICK q \in {p \in Node : one[p] > other[p]} :
          f[i] \in {q} \X (other[q] + 1 .. Len(rumorTable[n][q]))
    BY <1>5 DEF Missing
  <2>2. q = o
    BY <2>1
  <2> QED BY <1>9, <2>1, <2>2 DEF Missing
<1>11. PICK j \in 1 .. size : f[j] = <<o, k - 1>>
  BY <1>3, <1>10 DEF Surjection
<1>12. RumorAt(n, f[j]) = [origin |-> o, seq |-> k - 1]
  <2> HIDE DEF o, k
  <2>1. /\ f[j] \in positions
        /\ RumorAt(n, f[j]) = [origin |-> f[j][1], seq |-> f[j][2]]
    BY <1>10, <1>11, MissingRumor
  <2>2. f[j][1] = o /\ f[j][2] = k - 1
    BY <1>11
  <2> QED BY <2>1, <2>2
<1>13. rumors[j] = [rumors[i] EXCEPT !.seq = @ - 1]
  <2>1. rumors[j] = [origin |-> o, seq |-> k - 1]
    BY <1>2, <1>12
  <2> HIDE DEF o, k
  <2> QED BY <1>7, <2>1
<1>14. j < i
  <2>1. k \in Int
    BY <1>6, <1>8
  <2>2. ~(i < j)
    <3>1. i < j => RumorAt(n, f[i]).seq <= RumorAt(n, f[j]).seq
      BY <1>2
    <3> HIDE DEF k, o
    <3>2. RumorAt(n, f[i]).seq = k /\ RumorAt(n, f[j]).seq = k - 1
      BY <1>6, <1>12
    <3> QED BY <2>1, <3>1, <3>2
  <2>3. i # j
    <3> HIDE DEF k, o
    <3>1. k # k - 1
      BY <2>1
    <3>2. f[i] # f[j]
      BY <1>6, <1>11, <3>1
    <3> QED BY <3>2
  <2> QED BY <2>2, <2>3
<1>15. j \in 1 .. i - 1
  BY <1>1, <1>14
<1> QED BY <1>13, <1>15

\* What joins on goes on doing so, as tables only grow.
LEMMA JoinedLater ==
  ASSUME NEW rumors \in Seq(Rumor), NEW one \in Status, NEW other \in Status,
         \A o \in Node : one[o] <= other[o], Joined(rumors, one)
  PROVE  Joined(rumors, other)
<1> SUFFICES ASSUME NEW i \in DOMAIN rumors,
                    rumors[i].seq <= one[rumors[i].origin] + 1
             PROVE  rumors[i].seq <= other[rumors[i].origin] + 1
  BY DEF Joined
<1>1. rumors[i] \in Rumor
  BY LenProperties, ElementOfSeq
<1> DEFINE o == rumors[i].origin
           seq == rumors[i].seq
<1>2. o \in Node /\ seq \in Nat /\ seq <= one[o] + 1
  BY <1>1 DEF Rumor
<1> HIDE DEF o, seq
<1>3. one[o] \in Nat /\ other[o] \in Nat /\ one[o] <= other[o]
  BY <1>2 DEF Status
<1>4. seq <= other[o] + 1
  BY <1>2, <1>3
<1> QED BY <1>4 DEF o, seq

\* The lengths of a node's tables are a status, and grow.
LEMMA LengthsGrow ==
  ASSUME TypeOK, WellFormed, [Next]_vars, NEW n \in Node
  PROVE  /\ Lengths(rumorTable, n) \in Status /\ Lengths(rumorTable', n) \in Status
         /\ \A o \in Node : Lengths(rumorTable, n)[o] <= Lengths(rumorTable', n)[o]
<1>1. TypeOK'
  BY TypeStep
<1>2. \A o \in Node : rumorTable[n][o] \in Seq(Nat) /\ rumorTable'[n][o] \in Seq(Nat)
  BY <1>1 DEF TypeOK
<1>3. \A o \in Node : Len(rumorTable[n][o]) \in Nat /\ Len(rumorTable'[n][o]) \in Nat
  BY <1>2, LenProperties
<1>4. \A o \in Node : Len(rumorTable[n][o]) <= Len(rumorTable'[n][o])
  BY TablesGrow
<1> QED BY <1>3, <1>4 DEF Lengths, Status

\* A status tells of tables as they were, and they only grow.
LEMMA StatusesPastStep ==
  ASSUME TypeOK, WellFormed, StatusesPast, [Next]_vars
  PROVE  StatusesPast'
<1>1. TypeOK'
  BY TypeStep
<1>2. ASSUME NEW pkt \in Packet, NotAhead(rumorTable, pkt)
      PROVE  NotAhead(rumorTable', pkt)
  <2> SUFFICES ASSUME NEW o \in Node
               PROVE  pkt.status[o] <= Len(rumorTable'[pkt.from][o])
    BY DEF NotAhead
  <2>1. pkt.from \in Node /\ pkt.status[o] \in Nat
    BY DEF Packet, Status
  <2>2. pkt.status[o] <= Len(rumorTable[pkt.from][o])
    BY <1>2 DEF NotAhead
  <2>3. Len(rumorTable[pkt.from][o]) <= Len(rumorTable'[pkt.from][o])
    BY <2>1, TablesGrow
  <2>4. rumorTable[pkt.from][o] \in Seq(Nat) /\ rumorTable'[pkt.from][o] \in Seq(Nat)
    BY <1>1, <2>1 DEF TypeOK
  <2>5. Len(rumorTable[pkt.from][o]) \in Nat /\ Len(rumorTable'[pkt.from][o]) \in Nat
    BY <2>4, LenProperties
  <2> QED BY <2>1, <2>2, <2>3, <2>5
<1>3. \A n, o \in Node : Len(rumorTable[n][o]) \in Nat
  BY LenProperties DEF TypeOK
\* What is sent: no status, the status now, or one read earlier.
<1>4. \A n, m \in Node : \A id, rumors : NotAhead(rumorTable, RumorsPacket(n, m, id, rumors))
  BY <1>3 DEF NotAhead, RumorsPacket, NoStatus
<1>5. \A n, m \in Node : \A id : /\ NotAhead(rumorTable, StatusPacket(n, m, StatusOf(n)))
                                 /\ NotAhead(rumorTable, AckPacket(n, m, id, StatusOf(n)))
  BY <1>3 DEF NotAhead, StatusPacket, AckPacket, StatusOf
<1>6. \A n, m \in Node : \A h \in handlers[n] : NotAhead(rumorTable, StatusPacket(n, m, h.local))
  BY DEF NotAhead, StatusPacket, WellFormed, LocalIsPast
<1>7. ASSUME NEW n \in Node, NEW h \in handlers[n]
      PROVE  h.pkt \in Packet /\ h.pkt.from \in Node /\ NotAhead(rumorTable, h.pkt)
  <2>1. h \in Handler
    BY DEF TypeOK
  <2> QED BY <2>1 DEF Handler, Packet, StatusesPast
<1>8. ASSUME NEW pkt \in network'
      PROVE  NotAhead(rumorTable, pkt)
  <2>1. ASSUME NEW n \in Node, NEW m \in Node, NEW id \in DOMAIN monger[n], MongerSend(n, id, m)
        PROVE  NotAhead(rumorTable, pkt)
    BY <1>4, <2>1 DEF MongerSend, StatusesPast
  <2>2. ASSUME NEW n \in Node, NEW m \in Node, AntiEntropy(n, m)
        PROVE  NotAhead(rumorTable, pkt)
    BY <1>5, <2>2 DEF AntiEntropy, StatusesPast
  <2>3. ASSUME NEW n \in Node, NEW h \in handlers[n], ReplyToRumors(n, h)
        PROVE  NotAhead(rumorTable, pkt)
    BY <1>5, <1>7, <2>3 DEF ReplyToRumors, StatusesPast
  <2>4. ASSUME NEW n \in Node, NEW h \in handlers[n], ForwardStatus(n, h)
        PROVE  NotAhead(rumorTable, pkt)
    <3>1. \A m \in Neighbors(n) : m \in Node
      BY DEF Neighbors
    <3> QED BY <1>6, <2>4, <3>1 DEF ForwardStatus, StatusesPast
  <2>5. ASSUME NEW n \in Node, NEW h \in handlers[n], Reconcile(n, h)
        PROVE  NotAhead(rumorTable, pkt)
    <3>1. \/ pkt \in network
          \/ pkt = StatusPacket(n, h.pkt.from, h.local)
          \/ \E rumors : pkt = RumorsPacket(n, h.pkt.from, NoId, rumors)
      BY <2>5 DEF Reconcile
    <3> QED BY <1>4, <1>6, <1>7, <3>1 DEF StatusesPast
  <2> QED BY <2>1, <2>2, <2>3, <2>4, <2>5, SendingSteps DEF StatusesPast
<1>9. \A pkt \in network' : NotAhead(rumorTable', pkt)
  BY <1>1, <1>2, <1>8 DEF TypeOK
<1>10. \A n \in Node : \A h \in handlers'[n] : NotAhead(rumorTable', h.pkt)
  <2> DEFINE Good(pkt) == NotAhead(rumorTable', pkt)
  <2>1. \A n \in Node : \A h \in handlers[n] : Good(h.pkt)
    BY <1>2, <1>7
  <2>2. \A pkt \in network : Good(pkt)
    BY <1>2 DEF StatusesPast, TypeOK
  <2> HIDE DEF Good
  <2>3. ASSUME NEW n \in Node, NEW pkt \in network, Receive(n, pkt)
        PROVE  \A p \in Node : \A g \in handlers'[p] : Good(g.pkt)
    <3>1. PICK g : handlers' = [handlers EXCEPT ![n] = @ \cup {g}] /\ g.pkt = pkt
      BY <2>3, ReceiveStarts DEF Receive
    <3> QED BY <2>1, <2>2, <3>1 DEF TypeOK
  <2>4. ASSUME NEW n \in Node, NEW h \in handlers[n], Callback(n, h)
        PROVE  \A p \in Node : \A g \in handlers'[p] : Good(g.pkt)
    <3>1. CASE Return(n, h)
      BY <2>1, <3>1 DEF Return, TypeOK
    <3>2. ASSUME NEW g, Become(n, h, g), g.pkt = h.pkt
          PROVE  \A p \in Node : \A f \in handlers'[p] : Good(f.pkt)
      BY <2>1, <3>2 DEF Become, TypeOK
    <3> QED BY <2>4, <3>1, <3>2, CallbackSuccessor
  <2>5. \A n \in Node : \A h \in handlers'[n] : Good(h.pkt)
    BY <2>1, <2>3, <2>4, HandlerSteps
  <2> QED BY <2>5 DEF Good
<1> QED BY <1>9, <1>10 DEF StatusesPast

\* An answer joins on to the status it answers, and that is not ahead of its receiver.
LEMMA AnswersJoinedStep ==
  ASSUME InOrder, StatusesPast, AnswersJoined, [Next]_vars
  PROVE  AnswersJoined'
<1> TypeOK /\ WellFormed /\ Gapless
  BY DEF InOrder, Sequential
<1> SUFFICES ASSUME NEW pkt \in network', pkt.type = "rumors", pkt.id = NoId
             PROVE  Joined(pkt.rumors, Lengths(rumorTable', pkt.to))
  BY DEF AnswersJoined, Lengths
<1>1. TypeOK'
  BY TypeStep
<1>2. pkt \in Packet
  BY <1>1 DEF TypeOK
<1>3. pkt.to \in Node /\ pkt.rumors \in Seq(Rumor)
  BY <1>2 DEF Packet
<1>4. CASE pkt \in network
  <2>1. Joined(pkt.rumors, Lengths(rumorTable, pkt.to))
    BY <1>4 DEF AnswersJoined
  <2> QED BY <1>3, <2>1, LengthsGrow, JoinedLater
<1>5. CASE pkt \notin network
  <2>1. ASSUME NEW n \in Node, NEW m \in Node, NEW id \in DOMAIN monger[n], MongerSend(n, id, m)
        PROVE  FALSE
    <3>1. pkt = RumorsPacket(n, m, id, monger[n][id].rumors)
      BY <1>5, <2>1 DEF MongerSend
    <3>2. monger[n] \in Seq(Mongerer)
      BY DEF TypeOK
    <3>3. id \in 1 .. Len(monger[n])
      BY <3>2, LenProperties
    <3> QED BY <3>1, <3>3 DEF RumorsPacket, NoId
  <2>2. ASSUME NEW n \in Node, NEW m \in Node, AntiEntropy(n, m)
        PROVE  FALSE
    BY <1>5, <2>2 DEF AntiEntropy, StatusPacket
  <2>3. ASSUME NEW n \in Node, NEW h \in handlers[n], ReplyToRumors(n, h) \/ ForwardStatus(n, h)
        PROVE  FALSE
    BY <1>5, <2>3 DEF ReplyToRumors, ForwardStatus, AckPacket, StatusPacket
  <2>4. ASSUME NEW n \in Node, NEW h \in handlers[n], Reconcile(n, h)
        PROVE  Joined(pkt.rumors, Lengths(rumorTable', pkt.to))
    <3>1. h \in Handler
      BY DEF TypeOK
    <3>2. h.local \in Status /\ h.pkt.status \in Status /\ h.pkt.from \in Node
      BY <3>1 DEF Handler, Packet
    <3>3. PICK rumors \in Sortings(n, Missing(n, h.local, h.pkt.status)) :
            pkt = RumorsPacket(n, h.pkt.from, NoId, rumors)
      BY <1>5, <2>4 DEF Reconcile, StatusPacket
    <3>4. pkt.rumors = rumors /\ pkt.to = h.pkt.from
      BY <3>3 DEF RumorsPacket
    <3>5. Joined(rumors, h.pkt.status)
      BY <3>2, SortingsJoined
    <3>6. \A o \in Node : h.pkt.status[o] <= Lengths(rumorTable, pkt.to)[o]
      BY <3>4 DEF StatusesPast, NotAhead, Lengths
    <3>7. Joined(rumors, Lengths(rumorTable, pkt.to))
      BY <1>3, <3>2, <3>4, <3>5, <3>6, LengthsGrow, JoinedLater
    <3> QED BY <1>3, <3>4, <3>7, LengthsGrow, JoinedLater
  <2> QED BY <1>5, <2>1, <2>2, <2>3, <2>4, SendingSteps
<1> QED BY <1>4, <1>5

\* With one callback at a time an answer of anti-entropy fits on to what its receiver
\* has: its status is not ahead of it, nothing is left out of what follows the status,
\* and whatever happens meanwhile only adds to what it has.
THEOREM AnswersDoFit ==
  ASSUME OneWorker
  PROVE  Spec => []AnswersFit
<1>1. Init => AnswerInv
  BY InOrderInit DEF Init, AnswerInv, StatusesPast, AnswersJoined
<1>2. AnswerInv /\ [Next]_vars => AnswerInv'
  <2> SUFFICES ASSUME AnswerInv, [Next]_vars PROVE AnswerInv'
    OBVIOUS
  <2>1. TypeOK /\ WellFormed
    BY DEF AnswerInv, InOrder
  <2> QED BY <2>1, InOrderStep, StatusesPastStep, AnswersJoinedStep DEF AnswerInv
<1>3. AnswerInv => AnswersFit
  <2> SUFFICES ASSUME AnswerInv, NEW pkt \in network, pkt.type = "rumors", pkt.id = NoId,
                      NEW i \in DOMAIN pkt.rumors
               PROVE  \/ pkt.rumors[i].seq <= LastSeqno(pkt.to, pkt.rumors[i].origin) + 1
                      \/ \E j \in 1 .. i - 1 : pkt.rumors[j] = [pkt.rumors[i] EXCEPT !.seq = @ - 1]
    BY DEF AnswersFit
  <2>1. TypeOK /\ Gapless /\ Joined(pkt.rumors, Lengths(rumorTable, pkt.to))
    BY DEF AnswerInv, InOrder, Sequential, AnswersJoined
  <2>2. pkt.to \in Node /\ pkt.rumors \in Seq(Rumor)
    BY <2>1 DEF TypeOK, Packet
  <2>3. pkt.rumors[i] \in Rumor
    BY <2>2, LenProperties, ElementOfSeq
  <2>4. LastSeqno(pkt.to, pkt.rumors[i].origin) = Lengths(rumorTable, pkt.to)[pkt.rumors[i].origin]
    BY <2>1, <2>2, <2>3, LastIsLen DEF Rumor, Lengths
  <2> QED BY <2>1, <2>4, Zenon DEF Joined
<1> QED BY <1>1, <1>2, <1>3, PTL DEF Spec

-----------------------------------------------------------------------------
(* The neighbors a goroutine tries, for any number of workers. *)

\* Of what a goroutine excludes, one peer at most is not among its neighbors: the
\* sender that it forwards for.  Whom it waits for is one of them.
OneStranger(t) == \E x \in Node : /\ t.pc = "new" => t.exclude \subseteq {x}
                                  /\ t.pc \in {"loop", "wait"} => t.exclude \ t.neighbors \subseteq {x}
                                  /\ t.pc = "wait" => t.dest \in t.neighbors

AtMostOneStranger == \A n \in Node : \A id \in DOMAIN monger[n] : OneStranger(monger[n][id])

\* Every destination a goroutine tries, and then excludes, is a neighbor.
LEMMA OneStrangerStep ==
  ASSUME TypeOK, AtMostOneStranger, [Next]_vars
  PROVE  AtMostOneStranger'
<1>1. CASE UNCHANGED monger
  BY <1>1 DEF AtMostOneStranger
<1>2. ASSUME NEW n \in Node, NEW id \in DOMAIN monger[n], NEW u, OneStranger(u),
             monger' = [monger EXCEPT ![n][id] = u]
      PROVE  AtMostOneStranger'
  <2> SUFFICES ASSUME NEW p \in Node, NEW k \in DOMAIN monger'[p]
               PROVE  OneStranger(monger'[p][k])
    BY DEF AtMostOneStranger, OneStranger
  <2>1. k \in DOMAIN monger[p] /\ (monger'[p][k] = monger[p][k] \/ monger'[p][k] = u)
    BY <1>2, ReplacedMongerer
  <2> QED BY <1>2, <2>1 DEF AtMostOneStranger
<1>3. ASSUME NEW n \in Node, NEW rumors \in Seq(Rumor), NEW exclude \in SUBSET Node,
             \E x \in Node : exclude \subseteq {x}, StartMongering(n, rumors, exclude)
      PROVE  AtMostOneStranger'
  <2> SUFFICES ASSUME NEW p \in Node, NEW k \in DOMAIN monger'[p]
               PROVE  OneStranger(monger'[p][k])
    BY DEF AtMostOneStranger, OneStranger
  <2>1. \/ k \in DOMAIN monger[p] /\ monger'[p][k] = monger[p][k]
        \/ monger'[p][k] = NewMongerer(rumors, exclude)
    BY <1>3, AppendedMongerer
  <2>2. OneStranger(NewMongerer(rumors, exclude))
    BY <1>3 DEF OneStranger, NewMongerer
  <2> QED BY <2>1, <2>2 DEF AtMostOneStranger
<1>4. ASSUME NEW n \in Node, NEW id \in DOMAIN monger[n], Monger(n, id)
      PROVE  AtMostOneStranger'
  <2> DEFINE t == monger[n][id]
  <2>1. t \in Mongerer
    BY ElementOfSeq, LenProperties DEF TypeOK
  <2>2. PICK x \in Node : /\ t.pc = "new" => t.exclude \subseteq {x}
                          /\ t.pc \in {"loop", "wait"} => t.exclude \ t.neighbors \subseteq {x}
                          /\ t.pc = "wait" => t.dest \in t.neighbors
    BY DEF AtMostOneStranger, OneStranger
  <2>3. t.pc \in {"new", "loop", "wait"} => t.exclude \ Known(n, id) \subseteq {x}
    BY <2>2 DEF Known
  <2>4. OneStranger(Finished)
    BY DEF OneStranger, Finished
  <2>5. ASSUME NEW m \in Known(n, id), t.pc \in {"new", "loop", "wait"},
               monger' = [monger EXCEPT ![n][id] = Excluding(n, id, m)]
        PROVE  AtMostOneStranger'
    <3>1. OneStranger(Excluding(n, id, m))
      BY <2>1, <2>3, <2>5 DEF OneStranger, Excluding, Mongerer
    <3> QED BY <1>2, <2>5, <3>1
  <2>6. ASSUME NEW m \in Node, MongerSend(n, id, m)
        PROVE  AtMostOneStranger'
    <3> DEFINE u == [t EXCEPT !.neighbors = Known(n, id), !.dest = m, !.pc = "wait"]
    <3>1. /\ t.pc \in {"new", "loop"} /\ m \in Known(n, id)
          /\ monger' = [monger EXCEPT ![n][id] = u] \/ monger' = [monger EXCEPT ![n][id] = Finished]
      BY <2>6 DEF MongerSend, MayTry
    <3>2. OneStranger(u)
      BY <2>1, <2>3, <3>1 DEF OneStranger, Mongerer
    <3> HIDE DEF u
    <3> QED BY <1>2, <2>4, <3>1, <3>2
  <2>7. CASE \E m \in Node : MongerSendFails(n, id, m)
    BY <2>5, <2>7 DEF MongerSendFails, MayTry
  <2>8. CASE MongerGiveUp(n, id) \/ MongerAcked(n, id)
    BY <1>2, <2>4, <2>8 DEF MongerGiveUp, MongerAcked
  <2>9. CASE MongerTimeout(n, id)
    <3>1. t.pc = "wait" /\ t.dest \in Known(n, id)
      BY <2>2, <2>9 DEF MongerTimeout, Known
    <3> QED BY <2>5, <2>9, <3>1 DEF MongerTimeout
  <2> QED BY <1>4, <2>6, <2>7, <2>8, <2>9 DEF Monger
<1>5. ASSUME NEW n \in Node, Broadcast(n)
      PROVE  AtMostOneStranger'
  <2> DEFINE rumors == <<[origin |-> n, seq |-> Len(rumorTable[n][n]) + 1]>>
  <2>1. rumors \in Seq(Rumor)
    BY LenProperties DEF TypeOK, Rumor
  <2>2. StartMongering(n, rumors, {})
    BY <1>5 DEF Broadcast
  <2>3. {} \in SUBSET Node /\ {} \subseteq {n}
    OBVIOUS
  <2> HIDE DEF rumors
  <2> QED BY <1>3, <2>1, <2>2, <2>3
<1>6. ASSUME NEW n \in Node, NEW h \in handlers[n], ReplyToRumors(n, h)
      PROVE  AtMostOneStranger'
  <2> h \in Handler
    BY DEF TypeOK
  <2>1. h.pkt.rumors \in Seq(Rumor) /\ h.pkt.from \in Node
    BY DEF Handler, Packet
  <2>2. CASE h.found
    <3>1. StartMongering(n, h.pkt.rumors, {h.pkt.from})
      BY <1>6, <2>2 DEF ReplyToRumors
    <3> QED BY <1>3, <2>1, <3>1
  <2>3. CASE ~h.found
    BY <1>1, <1>6, <2>3 DEF ReplyToRumors
  <2> QED BY <2>2, <2>3
<1> QED BY <1>1, <1>4, <1>5, <1>6, GoroutineSteps

\* Sets that differ in one element of the one and are no larger than the other.
LEMMA OneLeft ==
  ASSUME NEW S, NEW T, IsFiniteSet(S), IsFiniteSet(T), Cardinality(S) <= Cardinality(T),
         NEW x, T \ S \subseteq {x}
  PROVE  Cardinality(S \ T) <= 1
<1>1. /\ IsFiniteSet(S \ T) /\ IsFiniteSet(T \ S) /\ IsFiniteSet(S \cap T)
      /\ Cardinality(S \ T) = Cardinality(S) - Cardinality(S \cap T)
      /\ Cardinality(T \ S) = Cardinality(T) - Cardinality(T \cap S)
  BY FS_Difference, FS_Intersection
<1>2. IsFiniteSet({x}) /\ Cardinality({x}) = 1
  BY FS_Singleton
<1>3. Cardinality(T \ S) <= 1
  BY <1>2, FS_Subset
<1>4. S \cap T = T \cap S
  OBVIOUS
<1>5. \A U : IsFiniteSet(U) => Cardinality(U) \in Nat
  BY FS_CardinalityType
<1> QED BY <1>1, <1>3, <1>4, <1>5

\* Only a goroutine that gives up ends without an ack, and then it has excluded as
\* many peers as it has neighbors.
LEMMA GivesUpLast ==
  ASSUME TypeOK, AckTimeout, AtMostOneStranger, [Next]_vars,
         NEW n \in Node, NEW id \in DOMAIN monger[n], GivesUp(n, id)
  PROVE  Cardinality(Known(n, id) \ monger[n][id].exclude) <= 1
<1> DEFINE t == monger[n][id]
<1>1. t \in Mongerer /\ OneStranger(t)
  BY ElementOfSeq, LenProperties DEF TypeOK, AtMostOneStranger
<1>2. CASE MongerGiveUp(n, id)
  <2>1. t.pc \in {"new", "loop"} /\ Known(n, id) \in SUBSET Node /\ t.exclude \in SUBSET Node
    BY <1>1, <1>2 DEF MongerGiveUp, Known, Neighbors, Mongerer
  <2>2. IsFiniteSet(Known(n, id)) /\ IsFiniteSet(t.exclude)
    BY <2>1, NodeAssumption, FS_Subset
  <2>3. CASE MayTry(n, id)
    <3>1. Known(n, id) \ t.exclude = {}
      BY <1>2, <2>3 DEF MongerGiveUp
    <3> QED BY <3>1, FS_EmptySet
  <2>4. CASE ~MayTry(n, id)
    <3>1. ~(Cardinality(Known(n, id)) > Cardinality(t.exclude))
      BY <2>1, <2>4 DEF MayTry
    <3>2. Cardinality(t.exclude) \in Nat /\ Cardinality(Known(n, id)) \in Nat
      BY <2>2, FS_CardinalityType
    <3>3. Cardinality(Known(n, id)) <= Cardinality(t.exclude)
      BY <3>1, <3>2
    <3>4. \E x \in Node : t.exclude \ Known(n, id) \subseteq {x}
      BY <1>1, <2>1 DEF OneStranger, Known
    <3> QED BY <2>2, <3>3, <3>4, OneLeft
  <2> QED BY <2>3, <2>4
<1>3. CASE MongerAcked(n, id)
  BY <1>3 DEF MongerAcked, GivesUp
<1>4. CASE MongerTimeout(n, id) \/ \E m \in Node : MongerSend(n, id, m) \/ MongerSendFails(n, id, m)
  <2>1. ASSUME NEW u, u.pc # "done", monger' = [monger EXCEPT ![n][id] = u]
        PROVE  FALSE
    <3>1. monger'[n][id] = u
      BY <2>1 DEF TypeOK
    <3> QED BY <2>1, <3>1 DEF GivesUp
  <2>2. ASSUME NEW m
        PROVE  Excluding(n, id, m).pc = "loop"
    BY <1>1 DEF Excluding, Mongerer
  <2>3. CASE MongerTimeout(n, id)
    BY <2>1, <2>2, <2>3 DEF MongerTimeout
  <2>4. ASSUME NEW m \in Node, MongerSendFails(n, id, m)
        PROVE  FALSE
    BY <2>1, <2>2, <2>4 DEF MongerSendFails
  <2>5. ASSUME NEW m \in Node, MongerSend(n, id, m)
        PROVE  FALSE
    <3> DEFINE u == [t EXCEPT !.neighbors = Known(n, id), !.dest = m, !.pc = "wait"]
    <3>1. monger' = [monger EXCEPT ![n][id] = u]
      BY <2>5, AckTimeout DEF MongerSend
    <3>2. u.pc = "wait"
      BY <1>1 DEF Mongerer
    <3> QED BY <2>1, <3>1, <3>2
  <2> QED BY <1>4, <2>3, <2>4, <2>5
<1>5. monger'[n][id] # monger[n][id]
  BY DEF GivesUp
<1>6. ASSUME NEW p \in Node, NEW k \in DOMAIN monger[p], Monger(p, k)
      PROVE  n = p /\ id = k
  <2>1. PICK u : monger' = [monger EXCEPT ![p][k] = u]
    BY <1>6, MongererSteps
  <2>2. id \in DOMAIN monger'[n]
    BY <2>1 DEF TypeOK
  <2> QED BY <1>5, <2>1, <2>2, ReplacedMongerer
<1>7. ASSUME NEW p \in Node, NEW rumors, NEW exclude, StartMongering(p, rumors, exclude)
      PROVE  FALSE
  <2>1. monger' = [monger EXCEPT ![p] = Append(@, NewMongerer(rumors, exclude))]
    BY <1>7 DEF StartMongering
  <2>2. p = n
    BY <1>5, <2>1 DEF TypeOK
  <2>3. monger[n] \in Seq(Mongerer) /\ monger'[n] = Append(monger[n], NewMongerer(rumors, exclude))
    BY <2>1, <2>2 DEF TypeOK
  <2>4. id \in 1 .. Len(monger[n])
    BY <2>3, LenProperties
  <2> QED BY <1>5, <2>3, <2>4
<1>8. ASSUME NEW p \in Node, Broadcast(p) \/ \E h \in handlers[p] : ReplyToRumors(p, h)
      PROVE  UNCHANGED monger \/ \E rumors, exclude : StartMongering(p, rumors, exclude)
  BY <1>8 DEF Broadcast, ReplyToRumors
<1> QED BY <1>2, <1>3, <1>4, <1>5, <1>6, <1>7, <1>8, GoroutineSteps DEF Monger

\* A goroutine that waits for acks and ends without one has tried every neighbor but
\* one at most, however the peers are linked, whatever is lost, late, doubled or fails,
\* and however many callbacks run at a time.
THEOREM OneNeighborLeft ==
  ASSUME AckTimeout
  PROVE  Spec => LeavesOneAtMost
<1>1. Init => AtMostOneStranger
  BY DEF Init, AtMostOneStranger
<1>2. TypeOK /\ AtMostOneStranger /\ [Next]_vars => AtMostOneStranger'
  BY OneStrangerStep
<1> DEFINE Step == \A n \in Node : \A id \in DOMAIN monger[n] :
             GivesUp(n, id) => Cardinality(Known(n, id) \ monger[n][id].exclude) <= 1
<1>3. TypeOK /\ AtMostOneStranger /\ [Next]_vars => [Step]_vars
  BY GivesUpLast
<1>4. [][Step]_vars => LeavesOneAtMost
  BY DEF LeavesOneAtMost
<1> HIDE DEF Step
<1> QED BY <1>1, <1>2, <1>3, <1>4, TypeCorrect, PTL DEF Spec
=============================================================================
