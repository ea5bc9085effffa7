----------------------------- MODULE PacketFeed -----------------------------
(***************************************************************************)
(* How packets get from the registry of a peer into the web pages that     *)
(* watch it.  ProcessPacket (registry/standard/standard.go) runs a         *)
(* packet's callback and then, in a goroutine that holds the lock of the   *)
(* notifications, every handler that was registered.  Each request to      *)
(* pktNotifyGet (gui/httpnode/controller/registry.go) registers one that   *)
(* puts the packet into a channel; the request writes what it takes out of *)
(* the channel into its connection, and Packets (main.js) appends what the *)
(* browser's EventSource reads to the panel.                               *)
(*                                                                         *)
(* A handler is never taken off the list, and a full channel makes it      *)
(* wait: also when the page has left and nobody empties the channel.       *)
(***************************************************************************)
EXTENDS Integers, Sequences

CONSTANTS
    Thread,        \* who calls ProcessPacket: the receive loop, HTTP handlers
    Page,          \* the browser's pages
    Capacity,      \* of a request's channel, 100 in the code
    MaxPackets,    \* bound: packets processed
    MaxRequests    \* bound: requests to pktNotifyGet, reconnections included

ASSUME CapacityAssumption == Capacity \in Nat \ {0}
ASSUME BoundAssumption == MaxPackets \in Nat /\ MaxRequests \in Nat
ASSUME PageAssumption == "none" \notin Page

Packet == 1 .. MaxPackets
Request == 1 .. MaxRequests
Nobody == 0

VARIABLES
    count,      \* packets that ProcessPacket has been called with
    thread,     \* thread[t]: the packet that t waits for, or Nobody
    exec,       \* exec[p]: where the goroutine of ExecAll for packet p is
    holder,     \* the packet whose goroutine has the lock, or Nobody
    turn,       \* the index of the handler that it calls next
    notified,   \* history: the packets in the order they got the lock
    handlers,   \* notifications.h: the requests, in order of registration
    request,    \* request[r]: a call of pktNotifyGet, with its connection
    watching    \* watching[g]: the request page g reads from, Nobody before
                \* it connects and while it reconnects, -1 once it is closed

vars == <<count, thread, exec, holder, turn, notified, handlers, request, watching>>

\* gone: the client has left.  channel: pkts.  stream: what is written and not
\* read yet.  shown: what page has appended.  since: how many packets had been
\* notified when the handler was registered.
RequestRecord ==
    [at : {"unused", "registering", "open", "returned"}, page : Page \cup {"none"},
     gone : BOOLEAN, channel : Seq(Packet), stream : Seq(Packet), shown : Seq(Packet),
     since : Nat]

TypeOK ==
    /\ count \in 0 .. MaxPackets
    /\ thread \in [Thread -> Packet \cup {Nobody}]
    /\ exec \in [Packet -> {"none", "waiting", "running", "done", "failed"}]
    /\ holder \in Packet \cup {Nobody}
    /\ turn \in Nat \ {0}
    /\ notified \in Seq(Packet)
    /\ handlers \in Seq(Request)
    /\ request \in [Request -> RequestRecord]
    /\ watching \in [Page -> Request \cup {Nobody, -1}]
    /\ \A r \in Request : Len(request[r].channel) <= Capacity

-----------------------------------------------------------------------------
Init ==
    /\ count = 0
    /\ thread = [t \in Thread |-> Nobody]
    /\ exec = [p \in Packet |-> "none"]
    /\ holder = Nobody
    /\ turn = 1
    /\ notified = <<>>
    /\ handlers = <<>>
    /\ request = [r \in Request |->
                    [at |-> "unused", page |-> "none", gone |-> FALSE,
                     channel |-> <<>>, stream |-> <<>>, shown |-> <<>>, since |-> 0]]
    /\ watching = [g \in Page |-> Nobody]

\* ProcessPacket: the callback succeeds and ExecAll starts its goroutine, or
\* it fails and nobody is notified.
ProcessPacket(t) ==
    /\ thread[t] = Nobody /\ count < MaxPackets
    /\ count' = count + 1
    /\ \/ /\ exec' = [exec EXCEPT ![count + 1] = "waiting"]
          /\ thread' = [thread EXCEPT ![t] = count + 1]
       \/ /\ exec' = [exec EXCEPT ![count + 1] = "failed"]
          /\ UNCHANGED thread
    /\ UNCHANGED <<holder, turn, notified, handlers, request, watching>>

\* ProcessPacket returns when the handlers are done, or after 20 s.
Return(t) ==
    /\ thread[t] # Nobody
    /\ thread' = [thread EXCEPT ![t] = Nobody]
    /\ UNCHANGED <<count, exec, holder, turn, notified, handlers, request, watching>>
Done(t) == thread[t] # Nobody /\ exec[thread[t]] = "done" /\ Return(t)
Timeout(t) == thread[t] # Nobody /\ exec[thread[t]] # "done" /\ Return(t)

\* ExecAll: the goroutine gets the lock.
Lock(p) ==
    /\ exec[p] = "waiting" /\ holder = Nobody
    /\ holder' = p
    /\ turn' = 1
    /\ exec' = [exec EXCEPT ![p] = "running"]
    /\ notified' = Append(notified, p)
    /\ UNCHANGED <<count, thread, handlers, request, watching>>

\* Variants: a full channel drops the packet; a channel has no bound.
NotifyOrDrop ==
    /\ holder # Nobody /\ turn <= Len(handlers)
    /\ LET r == handlers[turn] IN
       request' = [request EXCEPT ![r].channel =
                     IF Len(@) < Capacity THEN Append(@, holder) ELSE @]
    /\ turn' = turn + 1
    /\ UNCHANGED <<count, thread, exec, holder, notified, handlers, watching>>
NotifyUnbounded ==
    /\ holder # Nobody /\ turn <= Len(handlers)
    /\ request' = [request EXCEPT ![handlers[turn]].channel = Append(@, holder)]
    /\ turn' = turn + 1
    /\ UNCHANGED <<count, thread, exec, holder, notified, handlers, watching>>

\* The next handler: pkts <- p, which waits while the channel is full.
Notify ==
    /\ holder # Nobody /\ turn <= Len(handlers)
    /\ Len(request[handlers[turn]].channel) < Capacity
    /\ request' = [request EXCEPT ![handlers[turn]].channel = Append(@, holder)]
    /\ turn' = turn + 1
    /\ UNCHANGED <<count, thread, exec, holder, notified, handlers, watching>>

\* Variant: the Unlock is forgotten.
KeepLock ==
    /\ holder # Nobody /\ turn > Len(handlers) /\ exec[holder] # "done"
    /\ exec' = [exec EXCEPT ![holder] = "done"]
    /\ UNCHANGED <<count, thread, holder, turn, notified, handlers, request, watching>>

\* All handlers have run: close(done) and the deferred Unlock.
Unlock ==
    /\ holder # Nobody /\ turn > Len(handlers)
    /\ exec' = [exec EXCEPT ![holder] = "done"]
    /\ holder' = Nobody
    /\ UNCHANGED <<count, thread, turn, notified, handlers, request, watching>>

-----------------------------------------------------------------------------
\* Packets.initialize, and the EventSource when it connects again.
Connect(r, g) ==
    /\ request[r].at = "unused" /\ \A q \in 1 .. r - 1 : request[q].at # "unused"
    /\ watching[g] = Nobody
    /\ request' = [request EXCEPT ![r].at = "registering", ![r].page = g]
    /\ watching' = [watching EXCEPT ![g] = r]
    /\ UNCHANGED <<count, thread, exec, holder, turn, notified, handlers>>

\* pktNotifyGet: RegisterNotify, under the same lock.
RegisterNotify(r) ==
    /\ request[r].at = "registering" /\ holder = Nobody
    /\ handlers' = Append(handlers, r)
    /\ request' = [request EXCEPT ![r].at = "open", ![r].since = Len(notified)]
    /\ UNCHANGED <<count, thread, exec, holder, turn, notified, watching>>

\* Variant: what a request had not written goes to the page's next request.
WriteToPage(r) ==
    /\ request[r].at = "open" /\ request[r].channel # <<>>
    /\ LET g == request[r].page
           to == IF watching[g] \in Request THEN watching[g] ELSE r
       IN  request' = [q \in Request |->
              [request[q] EXCEPT
                 !.channel = IF q = r THEN Tail(@) ELSE @,
                 !.stream = IF q = to THEN Append(@, Head(request[r].channel)) ELSE @]]
    /\ UNCHANGED <<count, thread, exec, holder, turn, notified, handlers, watching>>

\* The loop of pktNotifyGet: a packet is written.  What is written after the
\* client has left is lost.
Write(r) ==
    /\ request[r].at = "open" /\ request[r].channel # <<>>
    /\ request' = [request EXCEPT
          ![r].channel = Tail(@),
          ![r].stream = IF request[r].gone THEN @ ELSE Append(@, Head(request[r].channel))]
    /\ UNCHANGED <<count, thread, exec, holder, turn, notified, handlers, watching>>

\* The request's context is done: pktNotifyGet returns.  Its handler stays.
ContextDone(r) ==
    /\ request[r].at = "open" /\ request[r].gone
    /\ request' = [request EXCEPT ![r].at = "returned"]
    /\ UNCHANGED <<count, thread, exec, holder, turn, notified, handlers, watching>>

\* Packets.packetMessage: the packet is appended to the panel.
PacketMessage(r) ==
    /\ request[r].stream # <<>>
    /\ request' = [request EXCEPT ![r].shown = Append(@, Head(request[r].stream)),
                                  ![r].stream = Tail(@)]
    /\ UNCHANGED <<count, thread, exec, holder, turn, notified, handlers, watching>>

Hangup(r) == request' = [request EXCEPT ![r].gone = TRUE, ![r].stream = <<>>]

\* The connection breaks: Packets.packetError prints a flash, and the
\* EventSource connects again, whatever the flash says.
PacketError(g) ==
    /\ watching[g] \in Request
    /\ Hangup(watching[g])
    /\ watching' = [watching EXCEPT ![g] = Nobody]
    /\ UNCHANGED <<count, thread, exec, holder, turn, notified, handlers>>

\* The page is closed.
Close(g) ==
    /\ watching[g] \in Request
    /\ Hangup(watching[g])
    /\ watching' = [watching EXCEPT ![g] = -1]
    /\ UNCHANGED <<count, thread, exec, holder, turn, notified, handlers>>

Next ==
    \/ \E t \in Thread : ProcessPacket(t) \/ Done(t) \/ Timeout(t)
    \/ \E p \in Packet : Lock(p)
    \/ Notify \/ Unlock
    \/ \E r \in Request, g \in Page : Connect(r, g)
    \/ \E r \in Request : RegisterNotify(r) \/ Write(r) \/ ContextDone(r) \/ PacketMessage(r)
    \/ \E g \in Page : PacketError(g) \/ Close(g)

\* Goroutines go on, a sync.Mutex lets everyone in who keeps waiting, and the
\* browser reads what arrives.  Nobody is made to send, connect or leave.
Fairness ==
    /\ \A p \in Packet : SF_vars(Lock(p))
    /\ WF_vars(Notify) /\ WF_vars(Unlock)
    /\ \A r \in Request :
         /\ SF_vars(RegisterNotify(r)) /\ WF_vars(Write(r))
         /\ WF_vars(ContextDone(r)) /\ WF_vars(PacketMessage(r))

Spec == Init /\ [][Next]_vars /\ Fairness

-----------------------------------------------------------------------------
\* What has come to request r, in order: shown, on the way, in the channel.
Arrived(r) == request[r].shown \o request[r].stream \o request[r].channel

\* The packets put into a request's channel are those notified since its
\* registration, in that order, without a gap; what a client has left behind
\* is lost at the end only.
Registered(r) == \E i \in 1 .. Len(handlers) : handlers[i] = r
Reached(r) ==
    IF holder # Nobody /\ \E i \in turn .. Len(handlers) : handlers[i] = r
    THEN Len(notified) - 1 ELSE Len(notified)
Gapless ==
    \A r \in Request :
        /\ Registered(r) /\ ~request[r].gone =>
              Arrived(r) = SubSeq(notified, request[r].since + 1, Reached(r))
        /\ Registered(r) /\ request[r].gone =>
              \E n \in request[r].since .. Len(notified) :
                 request[r].shown = SubSeq(notified, request[r].since + 1, n)
        /\ ~Registered(r) => Arrived(r) = <<>>

\* A page that loses its connection and gets another one is never shown a
\* packet again, nor an earlier one.
Position(p) == CHOOSE i \in 1 .. Len(notified) : notified[i] = p
NothingTwice ==
    \A q, r \in Request : q < r /\ request[q].page = request[r].page =>
        \A i \in 1 .. Len(request[q].shown), j \in 1 .. Len(request[r].shown) :
            Position(request[q].shown[i]) < Position(request[r].shown[j])

Listening(r) == request[r].at = "open" /\ ~request[r].gone
IsShown(p, r) == \E i \in 1 .. Len(request[r].shown) : request[r].shown[i] = p

\* pktNotifyGet's comment: packets are sent as they are processed.  So what is
\* processed while a page listens is shown there, if it does not leave.
PacketsSent ==
    \A p \in Packet, r \in Request :
        (exec[p] = "waiting" /\ Listening(r)) ~> (IsShown(p, r) \/ ~Listening(r))

\* That holds until the channel of a page that has left is full: a page that
\* listens gets to see all again and again.
Clogged == \E r \in Request : request[r].at = "returned" /\ Len(request[r].channel) = Capacity
CaughtUp(r) ==
    /\ \A p \in Packet : exec[p] \notin {"waiting", "running"}
    /\ Len(request[r].shown) = Len(notified) - request[r].since
SentUnlessClogged == \A r \in Request : []<>(Listening(r) => CaughtUp(r) \/ Clogged)
=============================================================================
