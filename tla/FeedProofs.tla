----------------------------- MODULE FeedProofs -----------------------------
(***************************************************************************)
(* Proofs about PacketFeed, for any number of threads, pages, packets and  *)
(* requests and any capacity: the type invariant, that a request gets the  *)
(* packets since its registration without a gap, and that a page that      *)
(* reconnects is never shown a packet again.                               *)
(***************************************************************************)
EXTENDS PacketFeed, SequenceTheorems, TLAPS

-----------------------------------------------------------------------------
\* Sequences.
LEMMA AppendIs ==
    ASSUME NEW S, NEW s \in Seq(S), NEW x \in S
    PROVE  /\ Append(s, x) \in Seq(S)
           /\ Len(Append(s, x)) = Len(s) + 1
           /\ \A i \in 1 .. Len(s) : Append(s, x)[i] = s[i]
           /\ Append(s, x)[Len(s) + 1] = x
OBVIOUS

LEMMA SubSeqIs ==
    ASSUME NEW S, NEW s \in Seq(S), NEW a \in Nat, NEW n \in a .. Len(s)
    PROVE  /\ SubSeq(s, a + 1, n) \in Seq(S)
           /\ Len(SubSeq(s, a + 1, n)) = n - a
           /\ \A i \in 1 .. n - a : SubSeq(s, a + 1, n)[i] = s[a + i]
<1>1. \A i \in a + 1 .. n : s[i] \in S
  BY ElementOfSeq
<1>2. n \in Int /\ a + 1 \in Int /\ Len(s) \in Nat
  BY LenProperties
<1> QED
  BY <1>1, <1>2, SubSeqProperties

\* What is a part of s is the same part of a longer s.
LEMMA PartStays ==
    ASSUME NEW S, NEW s \in Seq(S), NEW x \in S, NEW a \in Nat, NEW n \in a .. Len(s)
    PROVE  SubSeq(Append(s, x), a + 1, n) = SubSeq(s, a + 1, n)
<1> DEFINE t == Append(s, x)
<1>1. t \in Seq(S) /\ Len(t) = Len(s) + 1 /\ \A i \in 1 .. Len(s) : t[i] = s[i]
  BY AppendIs
<1>2. Len(s) \in Nat
  BY LenProperties
<1> HIDE DEF t
<1>3. n \in a .. Len(t)
  BY <1>1, <1>2
<1>4. /\ SubSeq(t, a + 1, n) \in Seq(S)
      /\ Len(SubSeq(t, a + 1, n)) = n - a
      /\ \A i \in 1 .. n - a : SubSeq(t, a + 1, n)[i] = t[a + i]
  BY <1>1, <1>3, SubSeqIs
<1>5. /\ SubSeq(s, a + 1, n) \in Seq(S)
      /\ Len(SubSeq(s, a + 1, n)) = n - a
      /\ \A i \in 1 .. n - a : SubSeq(s, a + 1, n)[i] = s[a + i]
  BY SubSeqIs
<1>6. \A i \in 1 .. n - a : t[a + i] = s[a + i]
  BY <1>1, <1>2
<1>7. SubSeq(t, a + 1, n) = SubSeq(s, a + 1, n)
  BY <1>4, <1>5, <1>6, SeqEqual
<1> QED
  BY <1>7 DEF t

\* A part that ends before the last element, with that element.
LEMMA PartGrows ==
    ASSUME NEW S, NEW s \in Seq(S), NEW a \in Nat, a < Len(s)
    PROVE  Append(SubSeq(s, a + 1, Len(s) - 1), s[Len(s)]) = SubSeq(s, a + 1, Len(s))
<1> DEFINE n == Len(s)
           p == SubSeq(s, a + 1, n - 1)
           q == SubSeq(s, a + 1, n)
<1>1. n \in Nat /\ a < n /\ s[n] \in S
  BY LenProperties, ElementOfSeq
<1>2. p \in Seq(S) /\ Len(p) = n - 1 - a /\ \A i \in 1 .. n - 1 - a : p[i] = s[a + i]
  BY <1>1, SubSeqIs, n - 1 \in a .. Len(s)
<1>3. q \in Seq(S) /\ Len(q) = n - a /\ \A i \in 1 .. n - a : q[i] = s[a + i]
  BY <1>1, SubSeqIs, n \in a .. Len(s)
<1> HIDE DEF n, p, q
<1>4. /\ Append(p, s[n]) \in Seq(S)
      /\ Len(Append(p, s[n])) = n - a
      /\ \A i \in 1 .. n - 1 - a : Append(p, s[n])[i] = p[i]
      /\ Append(p, s[n])[n - a] = s[n]
  <2>1. (n - 1 - a) + 1 = n - a
    BY <1>1
  <2> QED
    BY <1>1, <1>2, <2>1, AppendIs
<1>5. ASSUME NEW i \in 1 .. n - a
      PROVE  Append(p, s[n])[i] = q[i]
  <2>1. CASE i = n - a
    BY <1>1, <1>3, <1>4, <2>1
  <2>2. CASE i # n - a
    <3>1. i \in 1 .. n - 1 - a
      BY <1>1, <2>2
    <3> QED
      BY <1>2, <1>3, <1>4, <3>1
  <2> QED
    BY <2>1, <2>2
<1>6. Append(p, s[n]) = q
  BY <1>3, <1>4, <1>5, SeqEqual
<1> QED
  BY <1>6 DEF p, q, n

\* The head of a sequence passes to the sequence before it.
LEMMA HeadPasses ==
    ASSUME NEW S, NEW s \in Seq(S), NEW t \in Seq(S), t # <<>>
    PROVE  Append(s, Head(t)) \o Tail(t) = s \o t
<1> DEFINE u == Append(s, Head(t))
<1>1. Head(t) \in S /\ Tail(t) \in Seq(S) /\ Len(Tail(t)) = Len(t) - 1
      /\ \A i \in 1 .. Len(Tail(t)) : Tail(t)[i] = t[i + 1]
  BY HeadTailProperties
<1>2. Head(t) = t[1]
  OBVIOUS
<1>3. u \in Seq(S) /\ Len(u) = Len(s) + 1 /\ (\A i \in 1 .. Len(s) : u[i] = s[i]) /\ u[Len(s) + 1] = t[1]
  BY <1>1, <1>2, AppendIs
<1> HIDE DEF u
<1>4. Len(s) \in Nat /\ Len(t) \in Nat
  BY LenProperties
<1>5. /\ u \o Tail(t) \in Seq(S)
      /\ Len(u \o Tail(t)) = Len(s) + Len(t)
      /\ \A i \in 1 .. Len(s) + Len(t) :
           (u \o Tail(t))[i] = IF i <= Len(s) + 1 THEN u[i] ELSE Tail(t)[i - (Len(s) + 1)]
  <2>1. Len(u) + Len(Tail(t)) = Len(s) + Len(t)
    BY <1>1, <1>3, <1>4
  <2>2. u \in Seq(S) /\ Tail(t) \in Seq(S)
    BY <1>1, <1>3
  <2>3. /\ u \o Tail(t) \in Seq(S)
        /\ Len(u \o Tail(t)) = Len(u) + Len(Tail(t))
        /\ \A i \in 1 .. Len(u) + Len(Tail(t)) :
             (u \o Tail(t))[i] = IF i <= Len(u) THEN u[i] ELSE Tail(t)[i - Len(u)]
    BY <2>2, ConcatProperties
  <2> QED
    BY <1>3, <2>1, <2>3
<1>6. /\ s \o t \in Seq(S)
      /\ Len(s \o t) = Len(s) + Len(t)
      /\ \A i \in 1 .. Len(s) + Len(t) : (s \o t)[i] = IF i <= Len(s) THEN s[i] ELSE t[i - Len(s)]
  BY ConcatProperties
<1>7. ASSUME NEW i \in 1 .. Len(s) + Len(t)
      PROVE  (u \o Tail(t))[i] = (s \o t)[i]
  <2>1. CASE i <= Len(s)
    <3>1. i \in 1 .. Len(s) /\ i <= Len(s) + 1
      BY <1>4, <2>1
    <3> QED
      BY <1>3, <1>5, <1>6, <2>1, <3>1
  <2>2. CASE i = Len(s) + 1
    <3>1. i <= Len(s) + 1 /\ ~(i <= Len(s)) /\ i - Len(s) = 1
      BY <1>4, <2>2
    <3> QED
      BY <1>3, <1>5, <1>6, <2>2, <3>1
  <2>3. CASE i > Len(s) + 1
    <3>1. /\ ~(i <= Len(s) + 1) /\ ~(i <= Len(s))
          /\ i - (Len(s) + 1) \in 1 .. Len(Tail(t))
          /\ (i - (Len(s) + 1)) + 1 = i - Len(s)
      BY <1>1, <1>4, <2>3
    <3>2. Tail(t)[i - (Len(s) + 1)] = t[i - Len(s)]
      BY <1>1, <3>1
    <3> QED
      BY <1>5, <1>6, <3>1, <3>2
  <2>4. i <= Len(s) \/ i = Len(s) + 1 \/ i > Len(s) + 1
    BY <1>4
  <2> QED
    BY <2>1, <2>2, <2>3, <2>4
<1>8. u \o Tail(t) = s \o t
  BY <1>5, <1>6, <1>7, SeqEqual
<1> QED
  BY <1>8 DEF u

LEMMA ConcatAppend ==
    ASSUME NEW S, NEW s \in Seq(S), NEW t \in Seq(S), NEW x \in S
    PROVE  s \o Append(t, x) = Append(s \o t, x)
<1>1. \A u \in Seq(S) : Append(u, x) = u \o <<x>>
  OBVIOUS
<1>2. s \o t \in Seq(S) /\ <<x>> \in Seq(S)
  BY ConcatProperties
<1> QED
  BY <1>1, <1>2, ConcatAssociative

\* The first of two sequences that make up a part is the part's beginning.
LEMMA PartBegins ==
    ASSUME NEW S, NEW s \in Seq(S), NEW t \in Seq(S), NEW u \in Seq(S),
           NEW a \in Nat, NEW n \in a .. Len(s), t \o u = SubSeq(s, a + 1, n)
    PROVE  a + Len(t) \in a .. n /\ t = SubSeq(s, a + 1, a + Len(t))
<1>1. /\ Len(t \o u) = Len(t) + Len(u)
      /\ \A i \in 1 .. Len(t) + Len(u) : (t \o u)[i] = IF i <= Len(t) THEN t[i] ELSE u[i - Len(t)]
  BY ConcatProperties
<1>2. Len(t \o u) = n - a /\ \A i \in 1 .. n - a : (t \o u)[i] = s[a + i]
  BY SubSeqIs
<1>3. Len(s) \in Nat /\ Len(t) \in Nat /\ Len(u) \in Nat
  BY LenProperties
<1>4. a + Len(t) \in a .. n /\ a + Len(t) \in a .. Len(s) /\ (a + Len(t)) - a = Len(t)
  BY <1>1, <1>2, <1>3
<1>5. /\ SubSeq(s, a + 1, a + Len(t)) \in Seq(S)
      /\ Len(SubSeq(s, a + 1, a + Len(t))) = Len(t)
      /\ \A i \in 1 .. Len(t) : SubSeq(s, a + 1, a + Len(t))[i] = s[a + i]
  <2> DEFINE k == a + Len(t)
  <2>1. k \in a .. Len(s) /\ k - a = Len(t)
    BY <1>4
  <2> HIDE DEF k
  <2>2. /\ SubSeq(s, a + 1, k) \in Seq(S)
        /\ Len(SubSeq(s, a + 1, k)) = k - a
        /\ \A i \in 1 .. k - a : SubSeq(s, a + 1, k)[i] = s[a + i]
    BY <2>1, SubSeqIs
  <2>3. /\ SubSeq(s, a + 1, k) \in Seq(S) /\ Len(SubSeq(s, a + 1, k)) = Len(t)
        /\ \A i \in 1 .. Len(t) : SubSeq(s, a + 1, k)[i] = s[a + i]
    BY <2>1, <2>2
  <2> QED
    BY Zenon, <2>3 DEF k
<1>6. \A i \in 1 .. Len(t) : t[i] = s[a + i]
  BY <1>1, <1>2, <1>3
<1>7. t = SubSeq(s, a + 1, a + Len(t))
  BY <1>5, <1>6, SeqEqual
<1> QED
  BY <1>4, <1>7

-----------------------------------------------------------------------------
\* Types.
LEMMA RequestType ==
    ASSUME TypeOK, NEW r \in Request
    PROVE  /\ request[r] \in RequestRecord
           /\ request[r].channel \in Seq(Packet) /\ Len(request[r].channel) \in Nat
           /\ request[r].stream \in Seq(Packet)
           /\ request[r].shown \in Seq(Packet)
           /\ request[r].since \in Nat
<1>1. request[r] \in RequestRecord
  BY DEF TypeOK
<1> QED
  BY <1>1, LenProperties DEF RequestRecord

LEMMA InitType == Init => TypeOK
<1> SUFFICES ASSUME Init PROVE TypeOK
  OBVIOUS
<1>1. /\ count \in 0 .. MaxPackets
      /\ thread \in [Thread -> Packet \cup {Nobody}]
      /\ exec \in [Packet -> {"none", "waiting", "running", "done", "failed"}]
      /\ holder \in Packet \cup {Nobody}
      /\ turn \in Nat \ {0}
      /\ watching \in [Page -> Request \cup {Nobody, -1}]
  BY BoundAssumption DEF Init, Nobody
<1>2. \A S : <<>> \in Seq(S)
  BY EmptySeq
<1>3. request \in [Request -> RequestRecord]
  BY <1>2 DEF Init, RequestRecord
<1>4. \A r \in Request : Len(request[r].channel) <= Capacity
  <2>1. Len(<<>>) = 0
    OBVIOUS
  <2> QED
    BY <2>1, CapacityAssumption DEF Init
<1> QED
  BY <1>1, <1>2, <1>3, <1>4 DEF TypeOK, Init

\* One request becomes x.
LEMMA OneRequestType ==
    ASSUME TypeOK, NEW r \in Request, NEW x \in RequestRecord, Len(x.channel) <= Capacity,
           request' = [request EXCEPT ![r] = x]
    PROVE  /\ request' \in [Request -> RequestRecord]
           /\ \A q \in Request : Len(request'[q].channel) <= Capacity
BY DEF TypeOK

LEMMA ProcessPacketType ==
    ASSUME TypeOK, NEW t \in Thread, ProcessPacket(t)
    PROVE  TypeOK'
<1>1. count + 1 \in Packet /\ count + 1 \in 0 .. MaxPackets
  BY BoundAssumption DEF TypeOK, ProcessPacket, Packet
<1> QED
  BY <1>1 DEF TypeOK, ProcessPacket

LEMMA LockType ==
    ASSUME TypeOK, NEW p \in Packet, Lock(p)
    PROVE  TypeOK'
<1>1. notified' \in Seq(Packet)
  BY AppendIs DEF TypeOK, Lock
<1> QED
  BY <1>1 DEF TypeOK, Lock

LEMMA NotifyType ==
    ASSUME TypeOK, Notify
    PROVE  TypeOK'
<1> DEFINE r == handlers[turn]
           x == [request[r] EXCEPT !.channel = Append(@, holder)]
<1>1. turn \in 1 .. Len(handlers) /\ handlers \in Seq(Request)
  BY LenProperties DEF TypeOK, Notify
<1>2. r \in Request
  BY <1>1, ElementOfSeq
<1>3. holder \in Packet
  BY DEF TypeOK, Notify
<1>4. /\ request[r] \in RequestRecord
      /\ request[r].channel \in Seq(Packet) /\ Len(request[r].channel) \in Nat
  BY <1>2, RequestType
<1>5. Append(request[r].channel, holder) \in Seq(Packet)
      /\ Len(Append(request[r].channel, holder)) = Len(request[r].channel) + 1
  BY <1>3, <1>4, AppendIs
<1>6. Len(request[r].channel) < Capacity
  BY DEF Notify
<1>7. request' = [request EXCEPT ![r] = x]
  BY DEF Notify
<1> HIDE DEF r
<1>8. x \in RequestRecord /\ Len(x.channel) <= Capacity
  <2> DEFINE c == Append(request[r].channel, holder)
  <2>1. c \in Seq(Packet) /\ Len(c) <= Capacity
    BY <1>4, <1>5, <1>6, CapacityAssumption
  <2> HIDE DEF c
  <2>2. [request[r] EXCEPT !.channel = c] \in RequestRecord /\ [request[r] EXCEPT !.channel = c].channel = c
    BY <1>4, <2>1 DEF RequestRecord
  <2> QED
    BY <2>1, <2>2 DEF c
<1> HIDE DEF x
<1>9. /\ request' \in [Request -> RequestRecord]
      /\ \A q \in Request : Len(request'[q].channel) <= Capacity
  BY <1>2, <1>7, <1>8, OneRequestType
<1> QED
  BY <1>9 DEF TypeOK, Notify

LEMMA RegisterNotifyType ==
    ASSUME TypeOK, NEW r \in Request, RegisterNotify(r)
    PROVE  TypeOK'
<1> DEFINE x == [request[r] EXCEPT !.at = "open", !.since = Len(notified)]
<1>1. handlers' \in Seq(Request)
  BY AppendIs DEF TypeOK, RegisterNotify
<1>2. Len(notified) \in Nat
  BY LenProperties DEF TypeOK
<1>3. x \in RequestRecord /\ Len(x.channel) <= Capacity
  BY <1>2, RequestType DEF TypeOK, RequestRecord
<1>4. request' = [request EXCEPT ![r] = x]
  BY DEF RegisterNotify, TypeOK
<1> HIDE DEF x
<1>5. /\ request' \in [Request -> RequestRecord]
      /\ \A q \in Request : Len(request'[q].channel) <= Capacity
  BY <1>3, <1>4, OneRequestType
<1> QED
  BY <1>1, <1>5 DEF TypeOK, RegisterNotify

LEMMA ConnectType ==
    ASSUME TypeOK, NEW r \in Request, NEW g \in Page, Connect(r, g)
    PROVE  TypeOK'
<1> DEFINE x == [request[r] EXCEPT !.at = "registering", !.page = g]
<1>1. x \in RequestRecord /\ Len(x.channel) <= Capacity
  <2>1. request[r] \in RequestRecord /\ Len(request[r].channel) <= Capacity
    BY DEF TypeOK
  <2>2. x.channel = request[r].channel
    BY <2>1 DEF RequestRecord
  <2>3. x \in RequestRecord
    BY <2>1 DEF RequestRecord
  <2> QED
    BY <2>1, <2>2, <2>3
<1>2. request' = [request EXCEPT ![r] = x]
  BY DEF Connect, TypeOK
<1> HIDE DEF x
<1>3. /\ request' \in [Request -> RequestRecord]
      /\ \A q \in Request : Len(request'[q].channel) <= Capacity
  BY <1>1, <1>2, OneRequestType
<1> QED
  BY <1>3 DEF TypeOK, Connect

LEMMA WriteType ==
    ASSUME TypeOK, NEW r \in Request, Write(r)
    PROVE  TypeOK'
<1> DEFINE s == IF request[r].gone THEN request[r].stream
                ELSE Append(request[r].stream, Head(request[r].channel))
           x == [request[r] EXCEPT !.channel = Tail(request[r].channel), !.stream = s]
<1>1. request[r].channel # <<>>
  BY DEF Write
<1>2. /\ request[r] \in RequestRecord
      /\ request[r].channel \in Seq(Packet) /\ Len(request[r].channel) \in Nat
      /\ request[r].stream \in Seq(Packet)
  BY RequestType
<1>3. /\ Head(request[r].channel) \in Packet /\ Tail(request[r].channel) \in Seq(Packet)
      /\ Len(Tail(request[r].channel)) = Len(request[r].channel) - 1
  BY <1>1, <1>2, HeadTailProperties
<1>4. s \in Seq(Packet)
  BY <1>2, <1>3, AppendIs
<1>5. request' = [request EXCEPT ![r] = x]
  BY DEF Write, TypeOK
<1> HIDE DEF s
<1>6. x \in RequestRecord /\ Len(x.channel) <= Capacity
  <2> DEFINE c == Tail(request[r].channel)
  <2>1. c \in Seq(Packet) /\ Len(c) <= Capacity
    BY <1>2, <1>3, CapacityAssumption DEF TypeOK
  <2> HIDE DEF c
  <2>2. [request[r] EXCEPT !.channel = c, !.stream = s] \in RequestRecord
        /\ [request[r] EXCEPT !.channel = c, !.stream = s].channel = c
    BY <1>2, <1>4, <2>1 DEF RequestRecord
  <2> QED
    BY <2>1, <2>2 DEF c
<1> HIDE DEF x
<1>7. /\ request' \in [Request -> RequestRecord]
      /\ \A q \in Request : Len(request'[q].channel) <= Capacity
  BY <1>5, <1>6, OneRequestType
<1> QED
  BY <1>7 DEF TypeOK, Write

LEMMA ContextDoneType ==
    ASSUME TypeOK, NEW r \in Request, ContextDone(r)
    PROVE  TypeOK'
<1> DEFINE x == [request[r] EXCEPT !.at = "returned"]
<1>1. x \in RequestRecord /\ Len(x.channel) <= Capacity
  BY RequestType DEF TypeOK, RequestRecord
<1>2. request' = [request EXCEPT ![r] = x]
  BY DEF ContextDone, TypeOK
<1> HIDE DEF x
<1>3. /\ request' \in [Request -> RequestRecord]
      /\ \A q \in Request : Len(request'[q].channel) <= Capacity
  BY <1>1, <1>2, OneRequestType
<1> QED
  BY <1>3 DEF TypeOK, ContextDone

LEMMA PacketMessageType ==
    ASSUME TypeOK, NEW r \in Request, PacketMessage(r)
    PROVE  TypeOK'
<1> DEFINE s == Append(request[r].shown, Head(request[r].stream))
           x == [request[r] EXCEPT !.shown = s, !.stream = Tail(request[r].stream)]
<1>1. request[r].stream # <<>>
  BY DEF PacketMessage
<1>2. /\ request[r] \in RequestRecord
      /\ request[r].stream \in Seq(Packet) /\ request[r].shown \in Seq(Packet)
  BY RequestType
<1>3. Head(request[r].stream) \in Packet /\ Tail(request[r].stream) \in Seq(Packet)
  BY <1>1, <1>2, HeadTailProperties
<1>4. s \in Seq(Packet)
  BY <1>2, <1>3, AppendIs
<1>5. request' = [request EXCEPT ![r] = x]
  BY DEF PacketMessage, TypeOK
<1> HIDE DEF s
<1>6. x \in RequestRecord /\ Len(x.channel) <= Capacity
  BY <1>2, <1>3, <1>4 DEF TypeOK, RequestRecord
<1> HIDE DEF x
<1>7. /\ request' \in [Request -> RequestRecord]
      /\ \A q \in Request : Len(request'[q].channel) <= Capacity
  BY <1>5, <1>6, OneRequestType
<1> QED
  BY <1>7 DEF TypeOK, PacketMessage

LEMMA HangupType ==
    ASSUME TypeOK, NEW g \in Page, PacketError(g) \/ Close(g)
    PROVE  TypeOK'
<1> DEFINE r == watching[g]
           x == [request[r] EXCEPT !.gone = TRUE, !.stream = <<>>]
<1>1. r \in Request
  BY DEF PacketError, Close
<1>2. request[r] \in RequestRecord
  BY <1>1, RequestType
<1>3. request' = [request EXCEPT ![r] = x]
  BY DEF PacketError, Close, Hangup, TypeOK
<1>4. watching' \in [Page -> Request \cup {Nobody, -1}]
  BY DEF PacketError, Close, TypeOK
<1> HIDE DEF r
<1>5. x \in RequestRecord /\ Len(x.channel) <= Capacity
  BY <1>1, <1>2, EmptySeq DEF TypeOK, RequestRecord
<1> HIDE DEF x
<1>6. /\ request' \in [Request -> RequestRecord]
      /\ \A q \in Request : Len(request'[q].channel) <= Capacity
  BY <1>1, <1>3, <1>5, OneRequestType
<1> QED
  BY <1>4, <1>6 DEF TypeOK, PacketError, Close

LEMMA StepType == TypeOK /\ [Next]_vars => TypeOK'
<1> SUFFICES ASSUME TypeOK, [Next]_vars PROVE TypeOK'
  OBVIOUS
<1>1. CASE \E t \in Thread : ProcessPacket(t)
  BY <1>1, ProcessPacketType
<1>2. CASE \E t \in Thread : Done(t) \/ Timeout(t)
  BY <1>2 DEF Done, Timeout, Return, TypeOK
<1>3. CASE \E p \in Packet : Lock(p)
  BY <1>3, LockType
<1>4. CASE Notify
  BY <1>4, NotifyType
<1>5. CASE Unlock
  BY <1>5 DEF Unlock, TypeOK
<1>6. CASE \E r \in Request, g \in Page : Connect(r, g)
  BY <1>6, ConnectType
<1>7. CASE \E r \in Request : RegisterNotify(r) \/ Write(r) \/ ContextDone(r) \/ PacketMessage(r)
  BY <1>7, RegisterNotifyType, WriteType, ContextDoneType, PacketMessageType
<1>8. CASE \E g \in Page : PacketError(g) \/ Close(g)
  BY <1>8, HangupType
<1>9. CASE UNCHANGED vars
  BY <1>9 DEF vars, TypeOK
<1> QED
  BY <1>1, <1>2, <1>3, <1>4, <1>5, <1>6, <1>7, <1>8, <1>9 DEF Next

\* The variables of PacketFeed have their types and no channel holds more than
\* its capacity, for any number of pages and packets.
THEOREM FeedTypeCorrect == Spec => []TypeOK
<1>1. Spec => Init /\ [][Next]_vars
  BY DEF Spec
<1> QED
  BY <1>1, InitType, StepType, PTL

-----------------------------------------------------------------------------
\* Why a request gets the packets without a gap: the list of handlers names
\* each request once, those that have registered and no others; the goroutine
\* that has the lock notifies of the last packet, and whoever registers does so
\* between two goroutines; what has gone reads no more.
Entered(r) == request[r].at \in {"open", "returned"}
Handling ==
    /\ \A i, j \in 1 .. Len(handlers) : handlers[i] = handlers[j] => i = j
    /\ \A r \in Request : Registered(r) <=> Entered(r)
    /\ \A r \in Request : request[r].since <= Len(notified)
    /\ \A r \in Request : request[r].gone => request[r].stream = <<>>
    /\ holder # Nobody =>
         /\ Len(notified) > 0 /\ notified[Len(notified)] = holder
         /\ \A r \in Request : Entered(r) => request[r].since < Len(notified)

LEMMA HandlingInit == Init => Handling
<1> SUFFICES ASSUME Init PROVE Handling
  OBVIOUS
<1>1. Len(<<>>) = 0
  OBVIOUS
<1> QED
  BY <1>1 DEF Init, Handling, Registered, Entered

\* Steps that leave the handlers, the lock and the registrations alone.
LEMMA HandlingStays ==
    ASSUME TypeOK, Handling, UNCHANGED <<holder, notified, handlers>>,
           \A r \in Request :
             /\ request'[r].since = request[r].since
             /\ request'[r].at \in {"open", "returned"} <=> Entered(r)
             /\ request'[r].gone => request'[r].stream = <<>>
    PROVE  Handling'
BY DEF Handling, Registered, Entered

LEMMA LockHandling ==
    ASSUME TypeOK, Handling, NEW p \in Packet, Lock(p)
    PROVE  Handling'
<1>1. /\ Len(notified') = Len(notified) + 1 /\ notified'[Len(notified')] = p
      /\ Len(notified) \in Nat
  BY AppendIs, LenProperties DEF TypeOK, Lock
<1>2. \A r \in Request : request[r].since \in Nat
  BY RequestType
<1>3. UNCHANGED <<handlers, request>> /\ holder' = p
  BY DEF Lock
<1> QED
  BY <1>1, <1>2, <1>3 DEF Handling, Registered, Entered

LEMMA RegisterHandling ==
    ASSUME TypeOK, Handling, NEW r \in Request, RegisterNotify(r)
    PROVE  Handling'
<1>1. /\ handlers' = Append(handlers, r) /\ handlers \in Seq(Request)
      /\ holder = Nobody /\ UNCHANGED <<holder, notified>>
      /\ request[r].at = "registering"
  BY DEF RegisterNotify, TypeOK
<1>2. /\ Len(handlers) \in Nat /\ Len(handlers') = Len(handlers) + 1
      /\ \A i \in 1 .. Len(handlers) : handlers'[i] = handlers[i]
      /\ handlers'[Len(handlers) + 1] = r
  BY <1>1, AppendIs, LenProperties
<1>3. ~Registered(r)
  BY <1>1 DEF Handling, Entered
<1>4. \A i, j \in 1 .. Len(handlers') : handlers'[i] = handlers'[j] => i = j
  BY <1>2, <1>3 DEF Handling, Registered
<1>5. \A q \in Request : Registered(q)' <=> Registered(q) \/ q = r
  BY <1>2 DEF Registered
<1>6. \A q \in Request : /\ Entered(q)' <=> Entered(q) \/ q = r
                         /\ q # r => request'[q] = request[q]
  BY DEF RegisterNotify, TypeOK, RequestRecord, Entered
<1>7. /\ request'[r].since = Len(notified) /\ request'[r].gone = request[r].gone
      /\ request'[r].stream = request[r].stream
  BY DEF RegisterNotify, TypeOK, RequestRecord
<1>8. Len(notified) \in Nat
  BY LenProperties DEF TypeOK
<1> QED
  BY <1>1, <1>4, <1>5, <1>6, <1>7, <1>8 DEF Handling

\* A handler puts the packet into the channel of its request and changes no more.
LEMMA NotifyKeeps ==
    ASSUME TypeOK, Notify, NEW r \in Request
    PROVE  /\ request'[r].since = request[r].since /\ request'[r].at = request[r].at
           /\ request'[r].gone = request[r].gone /\ request'[r].stream = request[r].stream
           /\ request'[r].shown = request[r].shown /\ request'[r].page = request[r].page
           /\ r # handlers[turn] => request'[r] = request[r]
           /\ r = handlers[turn] => request'[r].channel = Append(request[r].channel, holder)
<1>1. request[r] \in RequestRecord /\ DOMAIN request = Request
  BY DEF TypeOK
<1>2. CASE r # handlers[turn]
  <2>1. request'[r] = request[r]
    BY <1>1, <1>2 DEF Notify
  <2> QED
    BY <1>2, <2>1
<1>3. CASE r = handlers[turn]
  <2>1. request'[r] = [request[r] EXCEPT !.channel = Append(@, holder)]
    BY <1>1, <1>3 DEF Notify
  <2> QED
    BY <1>1, <1>3, <2>1 DEF RequestRecord
<1> QED
  BY <1>2, <1>3

LEMMA NotifyHandling ==
    ASSUME TypeOK, Handling, Notify
    PROVE  Handling'
<1>1. \A r \in Request : /\ request'[r].since = request[r].since /\ request'[r].at = request[r].at
                         /\ request'[r].gone = request[r].gone /\ request'[r].stream = request[r].stream
  BY NotifyKeeps
<1> QED
  BY <1>1, HandlingStays DEF Notify, Handling, Entered

\* What the steps of one request leave as it is.
LEMMA WriteKeeps ==
    ASSUME TypeOK, NEW r \in Request, Write(r), NEW q \in Request
    PROVE  /\ request'[q].since = request[q].since /\ request'[q].at = request[q].at
           /\ request'[q].gone = request[q].gone /\ request'[q].shown = request[q].shown
           /\ q # r => request'[q] = request[q]
           /\ request[q].gone => request'[q].stream = request[q].stream
<1>1. CASE q = r
  BY <1>1 DEF Write, TypeOK, RequestRecord
<1>2. CASE q # r
  BY <1>2 DEF Write, TypeOK
<1> QED
  BY <1>1, <1>2

LEMMA PacketMessageKeeps ==
    ASSUME TypeOK, NEW r \in Request, PacketMessage(r), NEW q \in Request
    PROVE  /\ request'[q].since = request[q].since /\ request'[q].at = request[q].at
           /\ request'[q].gone = request[q].gone /\ request'[q].channel = request[q].channel
           /\ q # r => request'[q] = request[q]
<1>1. CASE q = r
  BY <1>1 DEF PacketMessage, TypeOK, RequestRecord
<1>2. CASE q # r
  BY <1>2 DEF PacketMessage, TypeOK
<1> QED
  BY <1>1, <1>2

LEMMA HangupKeeps ==
    ASSUME TypeOK, NEW r \in Request, Hangup(r), NEW q \in Request
    PROVE  /\ request'[q].since = request[q].since /\ request'[q].at = request[q].at
           /\ request'[q].shown = request[q].shown /\ request'[q].channel = request[q].channel
           /\ request'[q].page = request[q].page
           /\ q # r => request'[q] = request[q]
           /\ q = r => request'[q].gone /\ request'[q].stream = <<>>
<1>1. CASE q = r
  BY <1>1 DEF Hangup, TypeOK, RequestRecord
<1>2. CASE q # r
  BY <1>2 DEF Hangup, TypeOK
<1> QED
  BY <1>1, <1>2

LEMMA WriteHandling ==
    ASSUME TypeOK, Handling, NEW r \in Request, Write(r)
    PROVE  Handling'
<1>1. \A q \in Request : /\ request'[q].since = request[q].since /\ request'[q].at = request[q].at
                         /\ request'[q].gone = request[q].gone
                         /\ request[q].gone => request'[q].stream = request[q].stream
  BY WriteKeeps
<1>2. \A q \in Request : /\ request'[q].since = request[q].since
                         /\ request'[q].at \in {"open", "returned"} <=> Entered(q)
                         /\ request'[q].gone => request'[q].stream = <<>>
  BY <1>1 DEF Entered, Handling
<1> QED
  BY <1>2, HandlingStays DEF Write

LEMMA ContextDoneHandling ==
    ASSUME TypeOK, Handling, NEW r \in Request, ContextDone(r)
    PROVE  Handling'
<1>1. \A q \in Request : /\ request'[q].since = request[q].since
                         /\ request'[q].at \in {"open", "returned"} <=> Entered(q)
                         /\ request'[q].gone = request[q].gone
                         /\ request'[q].stream = request[q].stream
  BY DEF ContextDone, TypeOK, RequestRecord, Entered
<1> QED
  BY <1>1, HandlingStays DEF ContextDone, Handling

LEMMA PacketMessageHandling ==
    ASSUME TypeOK, Handling, NEW r \in Request, PacketMessage(r)
    PROVE  Handling'
<1>1. ~request[r].gone
  BY DEF PacketMessage, Handling
<1>2. \A q \in Request : /\ request'[q].since = request[q].since /\ request'[q].at = request[q].at
                         /\ request'[q].gone = request[q].gone
                         /\ q # r => request'[q] = request[q]
  BY PacketMessageKeeps
<1>3. \A q \in Request : /\ request'[q].since = request[q].since
                         /\ request'[q].at \in {"open", "returned"} <=> Entered(q)
                         /\ request'[q].gone => request'[q].stream = <<>>
  BY <1>1, <1>2 DEF Entered, Handling
<1> QED
  BY <1>3, HandlingStays DEF PacketMessage

LEMMA ConnectHandling ==
    ASSUME TypeOK, Handling, NEW r \in Request, NEW g \in Page, Connect(r, g)
    PROVE  Handling'
<1>1. \A q \in Request : /\ request'[q].since = request[q].since
                         /\ request'[q].at \in {"open", "returned"} <=> Entered(q)
                         /\ request'[q].gone = request[q].gone
                         /\ request'[q].stream = request[q].stream
  BY DEF Connect, TypeOK, RequestRecord, Entered
<1>2. \A q \in Request : /\ request'[q].since = request[q].since
                         /\ request'[q].at \in {"open", "returned"} <=> Entered(q)
                         /\ request'[q].gone => request'[q].stream = <<>>
  BY <1>1 DEF Handling
<1> QED
  BY <1>2, HandlingStays DEF Connect

LEMMA HangupHandling ==
    ASSUME TypeOK, Handling, NEW g \in Page, PacketError(g) \/ Close(g)
    PROVE  Handling'
<1>1. watching[g] \in Request /\ Hangup(watching[g]) /\ UNCHANGED <<holder, notified, handlers>>
  BY DEF PacketError, Close
<1>2. \A q \in Request : /\ request'[q].since = request[q].since /\ request'[q].at = request[q].at
                         /\ request'[q].gone => request'[q].stream = <<>>
  BY <1>1, HangupKeeps DEF Handling
<1> QED
  BY <1>1, <1>2, HandlingStays DEF Entered

LEMMA StepHandling == TypeOK /\ Handling /\ [Next]_vars => Handling'
<1> SUFFICES ASSUME TypeOK, Handling, [Next]_vars PROVE Handling'
  OBVIOUS
<1>1. CASE \E t \in Thread : ProcessPacket(t) \/ Done(t) \/ Timeout(t)
  BY <1>1 DEF ProcessPacket, Done, Timeout, Return, Handling, Registered, Entered
<1>2. CASE Unlock
  BY <1>2 DEF Unlock, Handling, Registered, Entered
<1>3. CASE UNCHANGED vars
  BY <1>3 DEF vars, Handling, Registered, Entered
<1>4. CASE \E g \in Page : PacketError(g) \/ Close(g)
  BY <1>4, HangupHandling
<1> QED
  BY <1>1, <1>2, <1>3, <1>4, LockHandling, NotifyHandling, RegisterHandling, WriteHandling,
     ContextDoneHandling, PacketMessageHandling, ConnectHandling DEF Next

-----------------------------------------------------------------------------
\* Gapless, for one request.
Whole(r) ==
    /\ Registered(r) /\ ~request[r].gone =>
          Arrived(r) = SubSeq(notified, request[r].since + 1, Reached(r))
    /\ Registered(r) /\ request[r].gone =>
          \E n \in request[r].since .. Len(notified) :
             request[r].shown = SubSeq(notified, request[r].since + 1, n)
    /\ ~Registered(r) => Arrived(r) = <<>>

LEMMA WholeInit == Init => Gapless
<1> SUFFICES ASSUME Init PROVE Gapless
  OBVIOUS
<1>1. Len(<<>>) = 0 /\ <<>> \o <<>> = <<>>
  OBVIOUS
<1>2. \A r \in Request : ~Registered(r) /\ Arrived(r) = <<>>
  BY <1>1 DEF Init, Registered, Arrived
<1> QED
  BY <1>2 DEF Gapless

LEMMA ArrivedType ==
    ASSUME TypeOK, NEW r \in Request
    PROVE  /\ Arrived(r) \in Seq(Packet)
           /\ request[r].shown \o request[r].stream \in Seq(Packet)
           /\ Arrived(r) = request[r].shown \o (request[r].stream \o request[r].channel)
           /\ Arrived(r) = <<>> => /\ request[r].shown = <<>> /\ request[r].stream = <<>>
                                   /\ request[r].channel = <<>>
<1>1. /\ request[r].channel \in Seq(Packet) /\ request[r].stream \in Seq(Packet)
      /\ request[r].shown \in Seq(Packet)
  BY RequestType
<1>2. request[r].shown \o request[r].stream \in Seq(Packet)
  BY <1>1, ConcatProperties
<1>3. Arrived(r) \in Seq(Packet)
  BY <1>1, <1>2, ConcatProperties DEF Arrived
<1>4. Arrived(r) = request[r].shown \o (request[r].stream \o request[r].channel)
  <2>1. \A a, b, c \in Seq(Packet) : (a \o b) \o c = a \o (b \o c)
    BY ConcatAssociative
  <2> QED
    BY <1>1, <2>1 DEF Arrived
<1>5. Arrived(r) = <<>> => request[r].shown \o request[r].stream = <<>> /\ request[r].channel = <<>>
  BY <1>1, <1>2, ConcatEqualIffEmpty DEF Arrived
<1>6. request[r].shown \o request[r].stream = <<>> => request[r].shown = <<>> /\ request[r].stream = <<>>
  BY <1>1, ConcatEqualIffEmpty
<1> QED
  BY <1>2, <1>3, <1>4, <1>5, <1>6

\* How far a request has got is a place in notified from its registration on.
LEMMA ReachedType ==
    ASSUME TypeOK, Handling, NEW r \in Request, Entered(r)
    PROVE  /\ request[r].since \in Nat /\ Len(notified) \in Nat
           /\ Reached(r) \in request[r].since .. Len(notified)
<1>1. request[r].since \in Nat /\ Len(notified) \in Nat
  BY RequestType, LenProperties DEF TypeOK
<1> QED
  BY <1>1 DEF Handling, Reached

\* Nothing happens to request r, its handler or the lock.
LEMMA WholeStays ==
    ASSUME NEW r \in Request, Whole(r), UNCHANGED <<holder, turn, notified, handlers>>,
           request'[r].shown = request[r].shown, request'[r].stream = request[r].stream,
           request'[r].channel = request[r].channel, request'[r].gone = request[r].gone,
           request'[r].since = request[r].since
    PROVE  Whole(r)'
BY DEF Whole, Registered, Reached, Arrived

LEMMA LockWhole ==
    ASSUME TypeOK, Handling, NEW p \in Packet, Lock(p), NEW r \in Request, Whole(r)
    PROVE  Whole(r)'
<1> DEFINE a == request[r].since
<1>1. /\ UNCHANGED <<handlers, request>> /\ holder = Nobody /\ holder' = p /\ p # Nobody
      /\ turn' = 1 /\ notified' = Append(notified, p) /\ notified \in Seq(Packet)
  BY DEF Lock, TypeOK, Packet, Nobody
<1>2. Len(notified') = Len(notified) + 1 /\ Len(notified) \in Nat
  BY <1>1, AppendIs, LenProperties
<1>3. Registered(r)' <=> Registered(r)
  BY <1>1 DEF Registered
<1>4. CASE Registered(r)
  <2>1. a \in Nat /\ a <= Len(notified)
    BY <1>4, ReachedType DEF Handling
  <2>2. Reached(r) = Len(notified) /\ Reached(r)' = Len(notified)
    BY <1>1, <1>2, <1>4 DEF Reached, Registered
  <2>3. \A n \in a .. Len(notified) : SubSeq(notified', a + 1, n) = SubSeq(notified, a + 1, n)
    BY <1>1, <2>1, PartStays
  <2>4. Len(notified) \in a .. Len(notified)
    BY <1>2, <2>1
  <2>5. Arrived(r)' = Arrived(r)
    BY <1>1 DEF Arrived
  <2>6. CASE request[r].gone
    <3>1. PICK n \in a .. Len(notified) : request[r].shown = SubSeq(notified, a + 1, n)
      BY <1>4, <2>6 DEF Whole
    <3>2. n \in a .. Len(notified')
      BY <1>2, <2>1, <3>1
    <3> QED
      BY <1>1, <1>3, <1>4, <2>3, <2>6, <3>1, <3>2 DEF Whole
  <2>7. CASE ~request[r].gone
    BY <1>1, <1>3, <1>4, <2>2, <2>3, <2>4, <2>5, <2>7 DEF Whole
  <2> QED
    BY <2>6, <2>7
<1>5. CASE ~Registered(r)
  BY <1>1, <1>3, <1>5 DEF Whole, Arrived
<1> QED
  BY <1>4, <1>5

LEMMA UnlockWhole ==
    ASSUME TypeOK, Unlock, NEW r \in Request, Whole(r)
    PROVE  Whole(r)'
<1>1. Len(handlers) \in Nat
  BY LenProperties DEF TypeOK
<1>2. Reached(r) = Len(notified) /\ Reached(r)' = Len(notified)
  BY <1>1 DEF Unlock, Reached, TypeOK
<1> QED
  BY <1>2 DEF Unlock, Whole, Registered, Arrived

LEMMA RegisterWhole ==
    ASSUME TypeOK, Handling, NEW q \in Request, RegisterNotify(q), NEW r \in Request, Whole(r)
    PROVE  Whole(r)'
<1>1. /\ handlers' = Append(handlers, q) /\ handlers \in Seq(Request)
      /\ holder = Nobody /\ UNCHANGED <<holder, notified>> /\ notified \in Seq(Packet)
      /\ request[q].at = "registering"
  BY DEF RegisterNotify, TypeOK
<1>2. /\ Len(handlers) \in Nat /\ Len(handlers') = Len(handlers) + 1
      /\ \A i \in 1 .. Len(handlers) : handlers'[i] = handlers[i]
      /\ handlers'[Len(handlers) + 1] = q
  BY <1>1, AppendIs, LenProperties
<1>3. Registered(r)' <=> Registered(r) \/ r = q
  BY <1>2 DEF Registered
<1>4. Reached(r) = Len(notified) /\ Reached(r)' = Len(notified)
  BY <1>1 DEF Reached
<1>5. /\ request'[r].gone = request[r].gone /\ request'[r].shown = request[r].shown
      /\ Arrived(r)' = Arrived(r)
      /\ r # q => request'[r].since = request[r].since
      /\ r = q => request'[r].since = Len(notified)
  BY DEF RegisterNotify, TypeOK, RequestRecord, Arrived
<1>6. CASE r # q
  BY <1>1, <1>3, <1>4, <1>5, <1>6 DEF Whole
<1>7. CASE r = q
  <2>1. ~Registered(r)
    BY <1>1, <1>7 DEF Handling, Entered
  <2>2. Arrived(r) = <<>> /\ request[r].shown = <<>>
    BY <2>1, ArrivedType DEF Whole
  <2>3. Len(notified) \in Nat
    BY <1>1, LenProperties
  <2>4. SubSeq(notified, Len(notified) + 1, Len(notified)) = <<>>
    BY <2>3, SubSeqEmpty
  <2>5. Len(notified) \in Len(notified) .. Len(notified')
    BY <1>1, <2>3
  <2> QED
    BY <1>1, <1>3, <1>4, <1>5, <1>7, <2>2, <2>4, <2>5 DEF Whole
<1> QED
  BY <1>6, <1>7

LEMMA NotifyWhole ==
    ASSUME TypeOK, Handling, Notify, NEW r \in Request, Whole(r)
    PROVE  Whole(r)'
<1> DEFINE q == handlers[turn]
           a == request[r].since
           last == Len(notified)
<1>1. /\ turn \in 1 .. Len(handlers) /\ turn' = turn + 1 /\ holder # Nobody /\ holder \in Packet
      /\ UNCHANGED <<holder, notified, handlers>> /\ Len(handlers) \in Nat
      /\ notified \in Seq(Packet)
  BY LenProperties DEF TypeOK, Notify
<1>2. Registered(r)' <=> Registered(r)
  BY <1>1 DEF Registered
<1>3. CASE r # q
  <2>1. request'[r] = request[r]
    BY <1>3 DEF Notify, TypeOK
  <2>2. (\E i \in turn .. Len(handlers) : handlers[i] = r)
          <=> \E i \in turn + 1 .. Len(handlers) : handlers[i] = r
    BY <1>1, <1>3
  <2>3. Reached(r)' = Reached(r)
    BY <1>1, <2>2 DEF Reached
  <2> QED
    BY <1>1, <1>2, <2>1, <2>3 DEF Whole, Arrived
<1>4. CASE r = q
  <2>1. Registered(r) /\ Entered(r)
    BY <1>1, <1>4 DEF Registered, Handling
  <2>2. Reached(r) = last - 1
    BY <1>1, <1>4 DEF Reached
  <2>3. ~\E i \in turn + 1 .. Len(handlers) : handlers[i] = r
    BY <1>1, <1>4 DEF Handling
  <2>4. Reached(r)' = last
    BY <1>1, <2>3 DEF Reached
  <2>5. /\ request'[r].shown = request[r].shown /\ request'[r].stream = request[r].stream
        /\ request'[r].gone = request[r].gone /\ request'[r].since = a
        /\ request'[r].channel = Append(request[r].channel, holder)
    BY <1>4, NotifyKeeps
  <2>6. CASE request[r].gone
    BY <1>1, <1>2, <2>1, <2>5, <2>6 DEF Whole
  <2>7. CASE ~request[r].gone
    <3>1. Arrived(r)' = Append(Arrived(r), holder)
      <4>1. request[r].shown \o request[r].stream \in Seq(Packet) /\ request[r].channel \in Seq(Packet)
        BY ArrivedType, RequestType
      <4>2. (request[r].shown \o request[r].stream) \o Append(request[r].channel, holder)
              = Append((request[r].shown \o request[r].stream) \o request[r].channel, holder)
        <5>1. \A u, c \in Seq(Packet), x \in Packet : u \o Append(c, x) = Append(u \o c, x)
          BY ConcatAppend
        <5> QED
          BY <1>1, <4>1, <5>1
      <4> QED
        BY <2>5, <4>2 DEF Arrived
    <3>2. a \in Nat /\ a < last /\ notified[last] = holder
      BY <1>1, <2>1, RequestType DEF Handling
    <3>3. Append(SubSeq(notified, a + 1, last - 1), notified[last]) = SubSeq(notified, a + 1, last)
      BY <1>1, <3>2, PartGrows
    <3>4. Arrived(r) = SubSeq(notified, a + 1, last - 1)
      BY <2>1, <2>2, <2>7 DEF Whole
    <3>5. Arrived(r)' = SubSeq(notified, a + 1, last)
      BY <3>1, <3>2, <3>3, <3>4
    <3> QED
      BY <1>1, <1>2, <2>1, <2>4, <2>5, <2>7, <3>5 DEF Whole
  <2> QED
    BY <2>6, <2>7
<1> QED
  BY <1>3, <1>4

LEMMA WriteWhole ==
    ASSUME TypeOK, Handling, NEW q \in Request, Write(q), NEW r \in Request, Whole(r)
    PROVE  Whole(r)'
<1>1. UNCHANGED <<holder, turn, notified, handlers>>
  BY DEF Write
<1>2. CASE r # q
  BY <1>1, <1>2, WriteKeeps, WholeStays
<1>3. CASE r = q
  <2>1. Registered(r) /\ (Registered(r)' <=> Registered(r)) /\ Reached(r)' = Reached(r)
    BY <1>1, <1>3 DEF Write, Handling, Entered, Registered, Reached
  <2>2. CASE request[r].gone
    BY <1>1, <1>3, <2>1, <2>2, WriteKeeps DEF Whole
  <2>3. CASE ~request[r].gone
    <3> DEFINE s == request[r].shown  t == request[r].stream  c == request[r].channel
    <3>1. s \in Seq(Packet) /\ t \in Seq(Packet) /\ c \in Seq(Packet) /\ c # <<>>
      BY <1>3, RequestType DEF Write
    <3>2. Head(c) \in Packet /\ s \o t \in Seq(Packet)
      BY <3>1, HeadTailProperties, ConcatProperties
    <3>3. request'[r].stream = Append(t, Head(c)) /\ request'[r].channel = Tail(c)
      BY <1>3, <2>3 DEF Write, TypeOK, RequestRecord
    <3>4. s \o Append(t, Head(c)) = Append(s \o t, Head(c))
      <4>1. \A u, v \in Seq(Packet), x \in Packet : u \o Append(v, x) = Append(u \o v, x)
        BY ConcatAppend
      <4> QED
        BY <3>1, <3>2, <4>1
    <3>5. Append(s \o t, Head(c)) \o Tail(c) = (s \o t) \o c
      BY <3>1, <3>2, HeadPasses
    <3>6. request'[r].shown = s
      BY <1>3, WriteKeeps
    <3>7. Arrived(r)' = Arrived(r)
      BY <3>3, <3>4, <3>5, <3>6 DEF Arrived
    <3> QED
      BY <1>1, <1>3, <2>1, <2>3, <3>7, WriteKeeps DEF Whole
  <2> QED
    BY <2>2, <2>3
<1> QED
  BY <1>2, <1>3

LEMMA PacketMessageWhole ==
    ASSUME TypeOK, Handling, NEW q \in Request, PacketMessage(q), NEW r \in Request, Whole(r)
    PROVE  Whole(r)'
<1>1. UNCHANGED <<holder, turn, notified, handlers>>
  BY DEF PacketMessage
<1>2. CASE r # q
  BY <1>1, <1>2, PacketMessageKeeps, WholeStays
<1>3. CASE r = q
  <2>1. (Registered(r)' <=> Registered(r)) /\ Reached(r)' = Reached(r)
    BY <1>1 DEF Registered, Reached
  <2> DEFINE s == request[r].shown  t == request[r].stream
  <2>2. s \in Seq(Packet) /\ t \in Seq(Packet) /\ t # <<>>
    BY <1>3, RequestType DEF PacketMessage
  <2>3. ~request[r].gone
    BY <2>2 DEF Handling
  <2>4. request'[r].shown = Append(s, Head(t)) /\ request'[r].stream = Tail(t)
    BY <1>3 DEF PacketMessage, TypeOK, RequestRecord
  <2>5. Append(s, Head(t)) \o Tail(t) = s \o t
    BY <2>2, HeadPasses
  <2>6. Arrived(r)' = Arrived(r)
    BY <1>3, <2>4, <2>5, PacketMessageKeeps DEF Arrived
  <2> QED
    BY <1>1, <1>3, <2>1, <2>3, <2>6, PacketMessageKeeps DEF Whole
<1> QED
  BY <1>2, <1>3

LEMMA HangupWhole ==
    ASSUME TypeOK, Handling, NEW g \in Page, PacketError(g) \/ Close(g), NEW r \in Request, Whole(r)
    PROVE  Whole(r)'
<1> DEFINE q == watching[g]
<1>1. UNCHANGED <<holder, turn, notified, handlers>> /\ q \in Request /\ Hangup(q)
  BY DEF PacketError, Close
<1>2. CASE r # q
  BY <1>1, <1>2, HangupKeeps, WholeStays
<1>3. CASE r = q
  <2>1. Registered(r)' <=> Registered(r)
    BY <1>1 DEF Registered
  <2>2. /\ request'[r].since = request[r].since /\ request'[r].shown = request[r].shown
        /\ request'[r].channel = request[r].channel
        /\ request'[r].gone /\ request'[r].stream = <<>>
    BY <1>1, <1>3, HangupKeeps
  <2>3. CASE ~Registered(r)
    <3>1. request[r].shown = <<>> /\ request[r].channel = <<>>
      BY <2>3, ArrivedType DEF Whole
    <3>2. (<<>> \o <<>>) \o <<>> = <<>>
      OBVIOUS
    <3> QED
      BY <2>1, <2>2, <2>3, <3>1, <3>2 DEF Whole, Arrived
  <2>4. CASE Registered(r) /\ request[r].gone
    BY <1>1, <2>1, <2>2, <2>4 DEF Whole
  <2>5. CASE Registered(r) /\ ~request[r].gone
    <3> DEFINE a == request[r].since  s == request[r].shown
               rest == request[r].stream \o request[r].channel
    <3>1. Entered(r)
      BY <2>5 DEF Handling
    <3>2. a \in Nat /\ Len(notified) \in Nat /\ Reached(r) \in a .. Len(notified)
      BY <3>1, ReachedType
    <3>3. s \o rest = SubSeq(notified, a + 1, Reached(r))
      BY <2>5, ArrivedType DEF Whole
    <3>4. s \in Seq(Packet) /\ rest \in Seq(Packet) /\ notified \in Seq(Packet)
      BY RequestType, ConcatProperties DEF TypeOK
    <3> HIDE DEF rest, s, a
    <3>5. a + Len(s) \in a .. Reached(r) /\ s = SubSeq(notified, a + 1, a + Len(s))
      <4> DEFINE n == Reached(r)
      <4>1. n \in a .. Len(notified) /\ s \o rest = SubSeq(notified, a + 1, n)
        BY <3>2, <3>3
      <4> HIDE DEF n
      <4>2. a + Len(s) \in a .. n /\ s = SubSeq(notified, a + 1, a + Len(s))
        <5>1. \A w, u, v \in Seq(Packet), b \in Nat : \A m \in b .. Len(w) :
                u \o v = SubSeq(w, b + 1, m)
                  => b + Len(u) \in b .. m /\ u = SubSeq(w, b + 1, b + Len(u))
          BY PartBegins
        <5>2. \A b \in Nat : \A m \in b .. Len(notified) :
                s \o rest = SubSeq(notified, b + 1, m)
                  => b + Len(s) \in b .. m /\ s = SubSeq(notified, b + 1, b + Len(s))
          BY Zenon, <3>4, <5>1
        <5> QED
          BY Zenon, <3>2, <4>1, <5>2
      <4> QED
        BY <4>2 DEF n
    <3>6. a + Len(s) \in a .. Len(notified)
      BY <3>2, <3>5
    <3> QED
      BY <1>1, <2>1, <2>2, <2>5, <3>5, <3>6 DEF Whole, s, a
  <2> QED
    BY <2>3, <2>4, <2>5
<1> QED
  BY <1>2, <1>3

LEMMA StepWhole == TypeOK /\ Handling /\ Gapless /\ [Next]_vars => Gapless'
<1> SUFFICES ASSUME TypeOK, Handling, Gapless, [Next]_vars, NEW r \in Request
             PROVE  Whole(r)'
  BY DEF Gapless, Whole
<1>1. Whole(r)
  BY DEF Gapless, Whole
<1>2. CASE \E t \in Thread : ProcessPacket(t) \/ Done(t) \/ Timeout(t)
  BY <1>1, <1>2, WholeStays DEF ProcessPacket, Done, Timeout, Return
<1>3. CASE \E q \in Request, g \in Page : Connect(q, g)
  <2>1. PICK q \in Request, g \in Page : Connect(q, g)
    BY <1>3
  <2>2. /\ request'[r].shown = request[r].shown /\ request'[r].stream = request[r].stream
        /\ request'[r].channel = request[r].channel /\ request'[r].gone = request[r].gone
        /\ request'[r].since = request[r].since
    BY <2>1 DEF Connect, TypeOK, RequestRecord
  <2> QED
    BY <1>1, <2>1, <2>2, WholeStays DEF Connect
<1>4. CASE \E q \in Request : ContextDone(q)
  <2>1. PICK q \in Request : ContextDone(q)
    BY <1>4
  <2>2. /\ request'[r].shown = request[r].shown /\ request'[r].stream = request[r].stream
        /\ request'[r].channel = request[r].channel /\ request'[r].gone = request[r].gone
        /\ request'[r].since = request[r].since
    BY <2>1 DEF ContextDone, TypeOK, RequestRecord
  <2> QED
    BY <1>1, <2>1, <2>2, WholeStays DEF ContextDone
<1>5. CASE UNCHANGED vars
  BY <1>1, <1>5, WholeStays DEF vars
<1> QED
  BY <1>1, <1>2, <1>3, <1>4, <1>5, LockWhole, NotifyWhole, UnlockWhole, RegisterWhole, WriteWhole,
     PacketMessageWhole, HangupWhole DEF Next

\* A request gets the packets that are notified from its registration on, in
\* the order in which their goroutines got the lock and without a gap, for any
\* number of pages, packets, threads and time-outs.
THEOREM FeedIsGapless == Spec => []Gapless
<1>1. Spec => Init /\ [][Next]_vars
  BY DEF Spec
<1> QED
  BY <1>1, InitType, StepType, HandlingInit, StepHandling, WholeInit, StepWhole, PTL

-----------------------------------------------------------------------------
\* Why a page is shown nothing twice: each packet is notified once, and of two
\* requests of a page the earlier has gone and ends where the later begins.
OnceEach ==
    /\ \A i, j \in 1 .. Len(notified) : notified[i] = notified[j] => i = j
    /\ \A p \in Packet : p > count => exec[p] = "none"
    /\ \A i \in 1 .. Len(notified) : exec[notified[i]] \in {"running", "done"}

LEMMA OnceInit == Init => OnceEach
<1>1. Len(<<>>) = 0
  OBVIOUS
<1> QED
  BY <1>1 DEF Init, OnceEach

LEMMA StepOnce == TypeOK /\ Handling /\ OnceEach /\ [Next]_vars => OnceEach'
<1> SUFFICES ASSUME TypeOK, Handling, OnceEach, [Next]_vars PROVE OnceEach'
  OBVIOUS
<1> notified \in Seq(Packet) /\ Len(notified) \in Nat /\ count \in Nat
  BY LenProperties, BoundAssumption DEF TypeOK
<1>1. \A i \in 1 .. Len(notified) : notified[i] \in Packet
  BY ElementOfSeq
<1>2. ASSUME NEW t \in Thread, ProcessPacket(t) PROVE OnceEach'
  <2>1. UNCHANGED notified /\ count' = count + 1
    BY <1>2 DEF ProcessPacket
  <2>2. count + 1 \in Packet /\ exec[count + 1] = "none"
    BY <1>2, BoundAssumption DEF ProcessPacket, OnceEach, Packet, TypeOK
  <2>3. \A p \in Packet : p # count + 1 => exec'[p] = exec[p]
    BY <1>2 DEF ProcessPacket, TypeOK
  <2>4. \A p \in Packet : p \in Nat
    BY DEF Packet
  <2> QED
    BY <1>1, <2>1, <2>2, <2>3, <2>4 DEF OnceEach
<1>3. ASSUME NEW p \in Packet, Lock(p) PROVE OnceEach'
  <2>1. /\ notified' = Append(notified, p) /\ exec[p] = "waiting" /\ UNCHANGED count
        /\ exec'[p] = "running" /\ \A q \in Packet : q # p => exec'[q] = exec[q]
    BY <1>3 DEF Lock, TypeOK
  <2>2. /\ Len(notified') = Len(notified) + 1
        /\ \A i \in 1 .. Len(notified) : notified'[i] = notified[i]
        /\ notified'[Len(notified) + 1] = p
    BY <2>1, AppendIs
  <2>3. \A i \in 1 .. Len(notified) : notified[i] # p
    BY <2>1 DEF OnceEach
  <2>4. \A i, j \in 1 .. Len(notified') : notified'[i] = notified'[j] => i = j
    BY <2>2, <2>3 DEF OnceEach
  <2>5. \A i \in 1 .. Len(notified') : exec'[notified'[i]] \in {"running", "done"}
    BY <1>1, <2>1, <2>2, <2>3 DEF OnceEach
  <2>6. \A q \in Packet : q > count' => exec'[q] = "none"
    BY <2>1 DEF OnceEach
  <2> QED
    BY <2>4, <2>5, <2>6 DEF OnceEach
<1>4. ASSUME Unlock PROVE OnceEach'
  <2>1. /\ UNCHANGED <<notified, count>> /\ holder \in Packet /\ exec'[holder] = "done"
        /\ \A q \in Packet : q # holder => exec'[q] = exec[q]
    BY <1>4 DEF Unlock, TypeOK
  <2>2. \A i \in 1 .. Len(notified) : exec'[notified[i]] \in {"running", "done"}
    BY <1>1, <2>1 DEF OnceEach
  <2>3. exec[holder] # "none"
    BY <1>4 DEF Unlock, Handling, OnceEach
  <2> QED
    BY <2>1, <2>2, <2>3 DEF OnceEach
<1>5. CASE UNCHANGED <<notified, count, exec>>
  BY <1>5 DEF OnceEach
<1> QED
  BY <1>2, <1>3, <1>4, <1>5 DEF Next, vars, Done, Timeout, Return, Notify, Connect, RegisterNotify,
     Write, ContextDone, PacketMessage, PacketError, Close

Used(r) == request[r].at # "unused"
Turns ==
    /\ \A q, r \in Request : q < r /\ Used(r) => Used(q)
    /\ \A r \in Request : Used(r) =>
         /\ request[r].page \in Page
         /\ request[r].gone \/ watching[request[r].page] = r
    /\ \A q, r \in Request : q < r /\ Used(r) /\ request[q].page = request[r].page =>
         /\ request[q].gone
         /\ Entered(r) /\ request[q].shown # <<>> =>
              request[q].since + Len(request[q].shown) <= request[r].since

LEMMA TurnsInit == Init => Turns
BY DEF Init, Turns, Used

\* Steps that change neither of what Turns says of a request.
LEMMA TurnsStay ==
    ASSUME Turns, UNCHANGED watching,
           \A r \in Request :
             /\ Used(r)' <=> Used(r)
             /\ Entered(r)' <=> Entered(r)
             /\ request'[r].page = request[r].page /\ request'[r].gone = request[r].gone
             /\ request'[r].since = request[r].since
             /\ request[r].gone => request'[r].shown = request[r].shown
    PROVE  Turns'
BY DEF Turns

\* What a request has shown is what was notified from its registration on.
LEMMA ShownIs ==
    ASSUME TypeOK, Handling, Gapless, NEW r \in Request, request[r].shown # <<>>
    PROVE  /\ Entered(r)
           /\ request[r].since + Len(request[r].shown) <= Len(notified)
           /\ \A i \in 1 .. Len(request[r].shown) :
                 request[r].shown[i] = notified[request[r].since + i]
<1> DEFINE a == request[r].since  s == request[r].shown
           rest == request[r].stream \o request[r].channel
<1>1. Registered(r) /\ Entered(r)
  BY ArrivedType DEF Gapless, Handling
<1>2. /\ a \in Nat /\ Len(notified) \in Nat /\ Reached(r) \in a .. Len(notified)
      /\ s \in Seq(Packet) /\ rest \in Seq(Packet) /\ notified \in Seq(Packet)
  BY <1>1, ReachedType, RequestType, ConcatProperties DEF TypeOK
<1>3. \E n \in a .. Len(notified) : s = SubSeq(notified, a + 1, n)
  <2>1. CASE request[r].gone
    BY <1>1, <2>1 DEF Gapless
  <2>2. CASE ~request[r].gone
    <3> DEFINE m == Reached(r)
    <3>1. s \o rest = SubSeq(notified, a + 1, m)
      BY <1>1, <2>2, ArrivedType DEF Gapless
    <3>2. m \in a .. Len(notified)
      BY <1>2
    <3> HIDE DEF a, s, rest, m
    <3>3. \A w, u, v \in Seq(Packet), b \in Nat : \A n \in b .. Len(w) :
            u \o v = SubSeq(w, b + 1, n)
              => b + Len(u) \in b .. n /\ u = SubSeq(w, b + 1, b + Len(u))
      BY PartBegins
    <3>4. \A b \in Nat : \A n \in b .. Len(notified) :
            s \o rest = SubSeq(notified, b + 1, n)
              => b + Len(s) \in b .. n /\ s = SubSeq(notified, b + 1, b + Len(s))
      BY Zenon, <1>2, <3>3
    <3>5. a + Len(s) \in a .. m /\ s = SubSeq(notified, a + 1, a + Len(s))
      BY Zenon, <1>2, <3>1, <3>2, <3>4
    <3>6. Len(s) \in Nat
      BY <1>2, LenProperties
    <3>7. a + Len(s) \in a .. Len(notified)
      BY <1>2, <3>2, <3>5, <3>6
    <3> QED
      BY <3>5, <3>7
  <2> QED
    BY <2>1, <2>2
<1> HIDE DEF a, s, rest
<1>4. PICK n \in a .. Len(notified) : s = SubSeq(notified, a + 1, n)
  BY <1>3
<1>5. Len(s) = n - a /\ \A i \in 1 .. n - a : s[i] = notified[a + i]
  <2>1. \A w \in Seq(Packet), b \in Nat : \A k \in b .. Len(w) :
          /\ Len(SubSeq(w, b + 1, k)) = k - b
          /\ \A i \in 1 .. k - b : SubSeq(w, b + 1, k)[i] = w[b + i]
    BY SubSeqIs
  <2> QED
    BY <1>2, <1>4, <2>1
<1>6. a + Len(s) <= Len(notified)
  BY <1>2, <1>4, <1>5
<1> QED
  BY <1>1, <1>5, <1>6 DEF a, s

LEMMA RegisterTurns ==
    ASSUME TypeOK, Handling, Gapless, Turns, NEW r \in Request, RegisterNotify(r)
    PROVE  Turns'
<1>1. /\ Used(r) /\ Used(r)' /\ ~Entered(r) /\ UNCHANGED watching
      /\ request'[r].since = Len(notified)
      /\ \A q \in Request : q # r => request'[q] = request[q]
      /\ request'[r].shown = request[r].shown /\ request'[r].page = request[r].page
      /\ request'[r].gone = request[r].gone
  BY DEF RegisterNotify, TypeOK, RequestRecord, Used, Entered
<1>2. request[r].shown = <<>>
  BY <1>1, ShownIs
<1>3. /\ \A q \in Request : q # r => (Used(q)' <=> Used(q)) /\ (Entered(q)' <=> Entered(q))
      /\ \A q \in Request : Used(q)' <=> Used(q)
  BY <1>1 DEF Used, Entered
<1>4. /\ \A p, q \in Request : p < q /\ Used(q)' => Used(p)'
      /\ \A q \in Request : Used(q)' =>
           /\ request'[q].page \in Page
           /\ request'[q].gone \/ watching'[request'[q].page] = q
  BY <1>1, <1>3 DEF Turns
<1>5. ASSUME NEW p \in Request, NEW q \in Request, p < q, Used(q)', request'[p].page = request'[q].page
      PROVE  /\ request'[p].gone
             /\ Entered(q)' /\ request'[p].shown # <<>> =>
                  request'[p].since + Len(request'[p].shown) <= request'[q].since
  <2>1. p # q
    BY <1>5 DEF Request
  <2>2. request[p].page = request[q].page /\ Used(q)
    BY <1>1, <1>3, <1>5
  <2>3. request'[p].gone
    BY <1>1, <1>5, <2>2 DEF Turns
  <2>4. CASE p = r
    BY <1>1, <1>2, <2>3, <2>4
  <2>5. CASE q = r
    BY <1>1, <2>1, <2>3, <2>5, ShownIs
  <2>6. CASE p # r /\ q # r
    BY <1>1, <1>3, <1>5, <2>2, <2>6 DEF Turns
  <2> QED
    BY <2>4, <2>5, <2>6
<1> QED
  BY <1>4, <1>5 DEF Turns

LEMMA ConnectTurns ==
    ASSUME TypeOK, Turns, NEW r \in Request, NEW g \in Page, Connect(r, g)
    PROVE  Turns'
<1>1. /\ ~Used(r) /\ Used(r)' /\ ~Entered(r)' /\ request'[r].page = g
      /\ watching[g] = Nobody /\ watching'[g] = r
      /\ \A q \in Request : q # r => request'[q] = request[q]
      /\ \A h \in Page : h # g => watching'[h] = watching[h]
  BY DEF Connect, TypeOK, RequestRecord, Used, Entered
<1>2. \A q \in Request : q < r => Used(q)
  BY DEF Connect, Used, Request
<1>3. \A q \in Request : q > r => ~Used(q)
  BY <1>1 DEF Turns, Request
<1>4. \A q \in Request : q # r => /\ Used(q)' <=> Used(q)
                                  /\ Entered(q)' <=> Entered(q)
  BY <1>1 DEF Used, Entered
<1>5. \A q \in Request : Used(q) /\ request[q].page = g => request[q].gone
  BY <1>1 DEF Turns, Request, Nobody
<1>6. \A p, q \in Request : p < q /\ Used(q)' => Used(p)'
  BY <1>1, <1>2, <1>3, <1>4 DEF Turns, Request
<1>7. ASSUME NEW q \in Request, Used(q)'
      PROVE  request'[q].page \in Page /\ (request'[q].gone \/ watching'[request'[q].page] = q)
  <2>1. CASE q = r
    BY <1>1, <2>1
  <2>2. CASE q # r
    BY <1>1, <1>4, <1>5, <1>7, <2>2 DEF Turns
  <2> QED
    BY <2>1, <2>2
<1>8. ASSUME NEW p \in Request, NEW q \in Request, p < q, Used(q)', request'[p].page = request'[q].page
      PROVE  /\ request'[p].gone
             /\ Entered(q)' /\ request'[p].shown # <<>> =>
                  request'[p].since + Len(request'[p].shown) <= request'[q].since
  <2>1. p # r
    BY <1>3, <1>4, <1>8 DEF Request
  <2>2. CASE q = r
    BY <1>1, <1>2, <1>5, <1>8, <2>1, <2>2
  <2>3. CASE q # r
    BY <1>1, <1>4, <1>8, <2>1, <2>3 DEF Turns
  <2> QED
    BY <2>2, <2>3
<1> QED
  BY <1>6, <1>7, <1>8 DEF Turns

LEMMA PacketMessageTurns ==
    ASSUME TypeOK, Handling, Turns, NEW r \in Request, PacketMessage(r)
    PROVE  Turns'
<1>1. UNCHANGED watching /\ ~request[r].gone
  BY DEF PacketMessage, Handling
<1>2. \A q \in Request : /\ request'[q].page = request[q].page
                         /\ request[q].gone => request'[q].shown = request[q].shown
  BY <1>1 DEF PacketMessage, TypeOK, RequestRecord
<1> QED
  BY <1>1, <1>2, PacketMessageKeeps, TurnsStay DEF Used, Entered

LEMMA HangupTurns ==
    ASSUME TypeOK, Turns, NEW g \in Page, PacketError(g) \/ Close(g)
    PROVE  Turns'
<1> DEFINE r == watching[g]
<1>1. r \in Request /\ Hangup(r) /\ \A h \in Page : h # g => watching'[h] = watching[h]
  BY DEF PacketError, Close, TypeOK
<1>2. \A q \in Request : /\ Used(q)' <=> Used(q)
                         /\ Entered(q)' <=> Entered(q)
                         /\ request'[q].page = request[q].page
                         /\ request'[q].since = request[q].since
                         /\ request'[q].shown = request[q].shown
                         /\ request[q].gone => request'[q].gone
  BY <1>1, HangupKeeps DEF Used, Entered
<1>3. ASSUME NEW q \in Request, Used(q)
      PROVE  request'[q].gone \/ watching'[request[q].page] = q
  <2>1. CASE q = r
    BY <1>1, <2>1, HangupKeeps
  <2>2. CASE q # r
    BY <1>1, <1>2, <1>3, <2>2 DEF Turns
  <2> QED
    BY <2>1, <2>2
<1> QED
  BY <1>2, <1>3 DEF Turns

LEMMA StepTurns == TypeOK /\ Handling /\ Gapless /\ Turns /\ [Next]_vars => Turns'
<1> SUFFICES ASSUME TypeOK, Handling, Gapless, Turns, [Next]_vars PROVE Turns'
  OBVIOUS
<1>1. CASE UNCHANGED <<request, watching>>
  BY <1>1 DEF Turns, Used, Entered
<1>2. CASE Notify
  <2>1. \A q \in Request : /\ request'[q].at = request[q].at /\ request'[q].page = request[q].page
                           /\ request'[q].gone = request[q].gone /\ request'[q].since = request[q].since
                           /\ request'[q].shown = request[q].shown
    BY <1>2, NotifyKeeps
  <2> QED
    BY <1>2, <2>1, TurnsStay DEF Notify, Used, Entered
<1>3. ASSUME NEW r \in Request, Write(r) PROVE Turns'
  <2>1. \A q \in Request : request'[q].page = request[q].page
    BY <1>3 DEF Write, TypeOK, RequestRecord
  <2> QED
    BY <1>3, <2>1, WriteKeeps, TurnsStay DEF Write, Used, Entered
<1>4. ASSUME NEW r \in Request, ContextDone(r) PROVE Turns'
  <2>1. \A q \in Request : /\ Used(q)' <=> Used(q)
                           /\ Entered(q)' <=> Entered(q)
                           /\ request'[q].page = request[q].page
                           /\ request'[q].gone = request[q].gone /\ request'[q].since = request[q].since
                           /\ request'[q].shown = request[q].shown
    BY <1>4 DEF ContextDone, TypeOK, RequestRecord, Used, Entered
  <2> QED
    BY <1>4, <2>1, TurnsStay DEF ContextDone
<1> QED
  BY <1>1, <1>2, <1>3, <1>4, RegisterTurns, ConnectTurns, PacketMessageTurns, HangupTurns
  DEF Next, vars, ProcessPacket, Done, Timeout, Return, Lock, Unlock

LEMMA TwiceNever ==
    ASSUME TypeOK, Handling, Gapless, OnceEach, Turns
    PROVE  NothingTwice
<1> SUFFICES ASSUME NEW q \in Request, NEW r \in Request, q < r, request[q].page = request[r].page,
                    NEW i \in 1 .. Len(request[q].shown), NEW j \in 1 .. Len(request[r].shown)
             PROVE  Position(request[q].shown[i]) < Position(request[r].shown[j])
  BY DEF NothingTwice
<1>1. \A n \in 1 .. Len(notified) : Position(notified[n]) = n
  BY DEF Position, OnceEach
<1>2. /\ request[q].shown \in Seq(Packet) /\ request[r].shown \in Seq(Packet)
      /\ request[q].since \in Nat /\ request[r].since \in Nat
      /\ Len(notified) \in Nat
  BY RequestType, LenProperties DEF TypeOK
<1>3. Len(request[q].shown) \in Nat /\ Len(request[r].shown) \in Nat
  BY <1>2, LenProperties
<1>4. request[q].shown # <<>> /\ request[r].shown # <<>>
  <2>1. Len(<<>>) = 0
    OBVIOUS
  <2> QED
    BY <1>3, <2>1
<1>5. /\ request[q].since + Len(request[q].shown) <= request[r].since
      /\ request[r].since + Len(request[r].shown) <= Len(notified)
      /\ request[q].shown[i] = notified[request[q].since + i]
      /\ request[r].shown[j] = notified[request[r].since + j]
  BY <1>4, ShownIs DEF Turns, Used, Entered
<1>6. /\ request[q].since + i \in 1 .. Len(notified)
      /\ request[r].since + j \in 1 .. Len(notified)
      /\ request[q].since + i < request[r].since + j
  <2>1. /\ i \in Nat /\ 1 <= i /\ i <= Len(request[q].shown)
        /\ j \in Nat /\ 1 <= j /\ j <= Len(request[r].shown)
    BY <1>3
  <2> DEFINE a == request[q].since  b == request[r].since
             k == Len(request[q].shown)  m == Len(request[r].shown)
             n == Len(notified)
  <2>2. a \in Nat /\ b \in Nat /\ k \in Nat /\ m \in Nat /\ n \in Nat /\ a + k <= b /\ b + m <= n
    BY <1>2, <1>3, <1>5
  <2> HIDE DEF a, b, k, m, n
  <2>3. i <= k /\ j <= m
    BY <2>1 DEF k, m
  <2>4. a + i \in 1 .. n /\ b + j \in 1 .. n /\ a + i < b + j
    BY <2>1, <2>2, <2>3
  <2> QED
    BY <2>4 DEF a, b, n
<1> QED
  BY <1>1, <1>5, <1>6

\* A page is shown no packet twice and none out of order, however often it
\* loses its connection and registers again.
THEOREM FeedRepeatsNothing == Spec => []NothingTwice
<1>1. Spec => Init /\ [][Next]_vars
  BY DEF Spec
<1> QED
  BY <1>1, InitType, StepType, HandlingInit, StepHandling, WholeInit, StepWhole, OnceInit, StepOnce,
     TurnsInit, StepTurns, TwiceNever, PTL
=============================================================================
