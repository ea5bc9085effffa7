-------------------------- MODULE ValidationProofs --------------------------
(***************************************************************************)
(* Proofs about Validation, for any peers, any number of requests and any  *)
(* supply of challenges: types, that only requests of those who have       *)
(* answered are processed, that an open challenge can be answered, and     *)
(* that channels and challenges do not pile up.                            *)
(***************************************************************************)
EXTENDS Validation, TLAPS

\* A goroutine has a peer from the start and a challenge from GenerateChallenge on.
Placed == \A j \in Job :
    /\ Pc(j) # "new" => job[j].peer \in Peer
    /\ Pc(j) \in {"new", "generate"} => job[j].challenge = NoChallenge
    /\ Pc(j) \notin {"new", "generate"} => job[j].challenge \in made

\* A challenge is for one peer.
Owned ==
    /\ \A p \in Peer : challenges[p] # NoChallenge => challenges[p] \in made
    /\ \A p \in Peer : \A q \in Peer :
         challenges[p] # NoChallenge /\ challenges[p] = challenges[q] => p = q
    /\ \A p \in Peer : \A j \in Job :
         challenges[p] # NoChallenge /\ job[j].challenge = challenges[p] => job[j].peer = p
    /\ \A j \in Job : \A k \in Job :
         job[j].challenge # NoChallenge /\ job[j].challenge = job[k].challenge
           => job[j].peer = job[k].peer

\* A new challenge is known to nobody else until it is noted.
Fresh == \A j \in Job : Pc(j) = "note" =>
    /\ job[j].challenge \in generated
    /\ \A p \in Peer : challenges[p] # job[j].challenge
    /\ \A k \in Job \ {j} : job[k].challenge # job[j].challenge

\* A challenge that a goroutine has forgotten stays forgotten.
Forgotten == \A j \in Job : Pc(j) \in {"close", "look", "spend"} =>
    \A p \in Peer : challenges[p] # job[j].challenge

\* A channel belongs to a goroutine that will remove it.
Channels == \A c \in Challenge : channel[c] # Nobody =>
    /\ job[channel[c]].challenge = c
    /\ Pc(channel[c]) \in {"select", "wait", "forget", "close"}

\* An open challenge will be forgotten by a goroutine, unless it could not be sent.
Watched == \A p \in Peer : challenges[p] # NoChallenge =>
    \E j \in Job : /\ job[j].challenge = challenges[p]
                   /\ Pc(j) \in {"send", "add", "select", "wait", "forget", "unsent"}

\* A reply comes in time, and nothing is validated without.
Replied == \A j \in Job :
    /\ job[j].reply => j \in answered
    /\ Pc(j) \in {"look", "spend", "valid"} => job[j].reply

Inv == /\ TypeOK /\ Placed /\ Owned /\ Fresh /\ Forgotten
       /\ OpenMeansUnspent /\ Channels /\ Watched /\ Replied

USE NobodyAssumption, ChallengeAssumption

-----------------------------------------------------------------------------
\* A step that leaves the challenges of the goroutines and all tables, and moves j on.
LEMMA MovesOn ==
    ASSUME Inv, NEW j \in Job, NEW pc \in At, Continue(j, pc),
           Pc(j) \notin {"new", "generate"}, pc \notin {"new", "generate", "note"},
           pc \in {"close", "look", "spend"} => Pc(j) \in {"close", "look", "spend"},
           pc \in {"look", "spend", "valid"} => job[j].reply,
           Pc(j) \in {"select", "wait", "forget", "close"}
             => pc \in {"select", "wait", "forget", "close"}
                \/ \A c \in Challenge : channel[c] # j,
           Pc(j) \in {"send", "add", "select", "wait", "forget"}
             => pc \in {"send", "add", "select", "wait", "forget", "unsent"},
           Pc(j) # "unsent",
           UNCHANGED <<challenges, made, generated, channel, answered>>,
           network' \subseteq Packet
    PROVE  Inv'
<1>1. job' = [job EXCEPT ![j].pc = pc] /\ job \in [Job -> JobRecord]
  BY DEF Continue, Inv, TypeOK
<1>2. /\ \A k \in Job : /\ job'[k].challenge = job[k].challenge
                        /\ job'[k].peer = job[k].peer
                        /\ job'[k].reply = job[k].reply
                        /\ k # j => job'[k].pc = job[k].pc
      /\ job'[j].pc = pc
      /\ job' \in [Job -> JobRecord]
  BY <1>1 DEF JobRecord
<1>3. TypeOK'
  BY <1>2 DEF Inv, TypeOK
<1>4. Placed'
  BY <1>2 DEF Inv, Placed, Pc
<1>5. Owned'
  BY <1>2 DEF Inv, Owned
<1>6. Fresh'
  BY <1>2 DEF Inv, Fresh, Pc
<1>7. Forgotten'
  BY <1>2 DEF Inv, Forgotten, Pc
<1>8. OpenMeansUnspent'
  BY DEF Inv, OpenMeansUnspent
<1>9. Channels'
  BY <1>2 DEF Inv, Channels, Pc, TypeOK
<1>10. Watched'
  BY <1>2 DEF Inv, Watched, Pc
<1>11. Replied'
  BY <1>2 DEF Inv, Replied, Pc
<1> QED
  BY <1>3, <1>4, <1>5, <1>6, <1>7, <1>8, <1>9, <1>10, <1>11 DEF Inv

\* A step of the network alone.
LEMMA Elsewhere ==
    ASSUME Inv, UNCHANGED <<job, challenges, made, generated, channel, answered>>,
           network' \subseteq Packet
    PROVE  Inv'
BY DEF Inv, TypeOK, Placed, Owned, Fresh, Forgotten, OpenMeansUnspent, Channels, Watched,
       Replied, Pc

\* A request is given the open challenge of its sender, which is for nobody else.
LEMMA RequestComes ==
    ASSUME Inv, NEW j \in Job, NEW p \in Peer, ReceiveRequest(j, p)
    PROVE  Inv'
<1>1. /\ Pc(j) = "new"
      /\ job'[j].pc = IF challenges[p] = NoChallenge THEN "generate" ELSE "send"
      /\ job'[j].challenge = challenges[p]
      /\ job'[j].peer = p
      /\ job'[j].reply = job[j].reply
      /\ \A k \in Job : k # j => job'[k] = job[k]
      /\ job' \in [Job -> JobRecord]
  BY DEF ReceiveRequest, Inv, TypeOK, JobRecord, At, Outcome, Pc
<1>2. UNCHANGED <<challenges, made, generated, channel, network, answered>>
  BY DEF ReceiveRequest
<1>3. TypeOK'
  BY <1>1, <1>2 DEF Inv, TypeOK
<1>4. Placed'
  BY <1>1, <1>2 DEF Inv, Placed, Owned, Pc
<1>5. Owned'
  BY <1>1, <1>2 DEF Inv, Owned
<1>6. Fresh'
  BY <1>1, <1>2 DEF Inv, Fresh, Pc
<1>7. Forgotten'
  BY <1>1, <1>2 DEF Inv, Forgotten, Pc
<1>8. OpenMeansUnspent'
  BY <1>2 DEF Inv, OpenMeansUnspent
<1>9. Channels'
  BY <1>1, <1>2 DEF Inv, TypeOK, Channels, Pc
<1>10. Watched'
  BY <1>1, <1>2 DEF Inv, Watched, Pc
<1>11. Replied'
  BY <1>1, <1>2 DEF Inv, Replied, Pc
<1> QED
  BY <1>3, <1>4, <1>5, <1>6, <1>7, <1>8, <1>9, <1>10, <1>11 DEF Inv

\* A new challenge is one that nobody has.
LEMMA ChallengeMade ==
    ASSUME Inv, NEW j \in Job, GenerateChallenge(j)
    PROVE  Inv'
<1>1. PICK c \in Challenge \ made :
         /\ made' = made \cup {c}
         /\ generated' = generated \cup {c}
         /\ job' = [job EXCEPT ![j].challenge = c, ![j].pc = "note"]
  BY DEF GenerateChallenge
<1>2. /\ Pc(j) = "generate"
      /\ job'[j].pc = "note"
      /\ job'[j].challenge = c
      /\ job'[j].peer = job[j].peer
      /\ job'[j].reply = job[j].reply
      /\ \A k \in Job : k # j => job'[k] = job[k]
      /\ job' \in [Job -> JobRecord]
  BY <1>1 DEF GenerateChallenge, Inv, TypeOK, JobRecord, At, Outcome, Pc
<1>3. UNCHANGED <<challenges, channel, network, answered>>
  BY DEF GenerateChallenge
<1>4. /\ \A k \in Job : job[k].challenge # c
      /\ \A p \in Peer : challenges[p] # c
  BY <1>1 DEF Inv, Placed, Owned
<1>5. TypeOK'
  BY <1>1, <1>2, <1>3 DEF Inv, TypeOK
<1>6. Placed'
  BY <1>1, <1>2 DEF Inv, Placed, Pc
<1>7. Owned'
  BY <1>1, <1>2, <1>3, <1>4 DEF Inv, Owned
<1>8. Fresh'
  BY <1>1, <1>2, <1>3, <1>4 DEF Inv, Fresh, Pc
<1>9. Forgotten'
  BY <1>2, <1>3 DEF Inv, Forgotten, Pc
<1>10. OpenMeansUnspent'
  BY <1>1, <1>3 DEF Inv, OpenMeansUnspent
<1>11. Channels'
  BY <1>2, <1>3 DEF Inv, TypeOK, Channels, Pc
<1>12. Watched'
  BY <1>2, <1>3 DEF Inv, Watched, Pc
<1>13. Replied'
  BY <1>2, <1>3 DEF Inv, Replied, Pc
<1> QED
  BY <1>5, <1>6, <1>7, <1>8, <1>9, <1>10, <1>11, <1>12, <1>13 DEF Inv

\* A challenge is noted for the peer of the goroutine that made it.
LEMMA ChallengeNoted ==
    ASSUME Inv, NEW j \in Job, NoteChallenge(j)
    PROVE  Inv'
<1>1. /\ Pc(j) = "note"
      /\ job'[j].pc = "send"
      /\ job'[j].challenge = job[j].challenge
      /\ job'[j].peer = job[j].peer
      /\ job'[j].reply = job[j].reply
      /\ \A k \in Job : k # j => job'[k] = job[k]
      /\ job' \in [Job -> JobRecord]
  BY DEF NoteChallenge, Continue, Inv, TypeOK, JobRecord, At, Outcome, Pc
<1>2. /\ challenges' = [challenges EXCEPT ![job[j].peer] = job[j].challenge]
      /\ UNCHANGED <<made, generated, channel, network, answered>>
  BY DEF NoteChallenge
<1>3. job[j].peer \in Peer /\ job[j].challenge \in generated
  BY <1>1 DEF Inv, Placed, Fresh
<1>4. /\ challenges'[job[j].peer] = job[j].challenge
      /\ \A p \in Peer : p # job[j].peer => challenges'[p] = challenges[p]
      /\ \A k \in Job \ {j} : job[k].challenge # job[j].challenge
      /\ \A p \in Peer : challenges[p] # job[j].challenge
  BY <1>1, <1>2, <1>3 DEF Inv, TypeOK, Fresh
<1>5. TypeOK'
  BY <1>1, <1>2, <1>3 DEF Inv, TypeOK
<1>6. Placed'
  BY <1>1, <1>2 DEF Inv, Placed, Pc
<1>7. Owned'
  BY <1>1, <1>2, <1>3 DEF Inv, TypeOK, Owned
<1>8. Fresh'
  BY <1>1, <1>2 DEF Inv, Fresh, Pc
<1>9. Forgotten'
  BY <1>1, <1>4 DEF Inv, Forgotten, Pc
<1>10. OpenMeansUnspent'
  BY <1>2, <1>3 DEF Inv, OpenMeansUnspent
<1>11. Channels'
  BY <1>1, <1>2 DEF Inv, TypeOK, Channels, Pc
<1>12. Watched'
  BY <1>1, <1>4 DEF Inv, Watched, Pc
<1>13. Replied'
  BY <1>1, <1>2 DEF Inv, Replied, Pc
<1> QED
  BY <1>5, <1>6, <1>7, <1>8, <1>9, <1>10, <1>11, <1>12, <1>13 DEF Inv

\* A goroutine adds a channel, over that of another for the same challenge if there is one.
LEMMA ChannelAdded ==
    ASSUME Inv, NEW j \in Job, AddChannel(j)
    PROVE  Inv'
<1>1. /\ Pc(j) = "add"
      /\ job'[j].pc = "select"
      /\ job'[j].challenge = job[j].challenge
      /\ job'[j].peer = job[j].peer
      /\ job'[j].reply = job[j].reply
      /\ \A k \in Job : k # j => job'[k] = job[k]
      /\ job' \in [Job -> JobRecord]
  BY DEF AddChannel, Continue, Inv, TypeOK, JobRecord, At, Outcome, Pc
<1>2. /\ channel' = [channel EXCEPT ![job[j].challenge] = j]
      /\ UNCHANGED <<challenges, made, generated, network, answered>>
  BY DEF AddChannel
<1>3. job[j].challenge \in made /\ job[j].challenge \in Challenge
  BY <1>1 DEF Inv, Placed, TypeOK
<1>4. /\ channel'[job[j].challenge] = j
      /\ \A c \in Challenge : c # job[j].challenge => channel'[c] = channel[c]
  BY <1>2, <1>3 DEF Inv, TypeOK
<1>5. TypeOK'
  BY <1>1, <1>2 DEF Inv, TypeOK
<1>6. Placed'
  BY <1>1, <1>2 DEF Inv, Placed, Pc
<1>7. Owned'
  BY <1>1, <1>2 DEF Inv, Owned
<1>8. Fresh'
  BY <1>1, <1>2 DEF Inv, Fresh, Pc
<1>9. Forgotten'
  BY <1>1, <1>2 DEF Inv, Forgotten, Pc
<1>10. OpenMeansUnspent'
  BY <1>2 DEF Inv, OpenMeansUnspent
<1>11. Channels'
  BY <1>1, <1>4 DEF Inv, TypeOK, Channels, Pc
<1>12. Watched'
  BY <1>1, <1>2 DEF Inv, Watched, Pc
<1>13. Replied'
  BY <1>1, <1>2 DEF Inv, Replied, Pc
<1> QED
  BY <1>5, <1>6, <1>7, <1>8, <1>9, <1>10, <1>11, <1>12, <1>13 DEF Inv

\* The challenge of a peer is closed, which can only be the one of the goroutine or a newer one.
LEMMA ChallengeForgotten ==
    ASSUME Inv, NEW j \in Job, Forget(j)
    PROVE  Inv'
<1>1. /\ Pc(j) = "forget"
      /\ job'[j].pc = "close"
      /\ job'[j].challenge = job[j].challenge
      /\ job'[j].peer = job[j].peer
      /\ job'[j].reply = job[j].reply
      /\ \A k \in Job : k # j => job'[k] = job[k]
      /\ job' \in [Job -> JobRecord]
  BY DEF Forget, Continue, Inv, TypeOK, JobRecord, At, Outcome, Pc
<1>2. /\ challenges' = [challenges EXCEPT ![job[j].peer] = NoChallenge]
      /\ UNCHANGED <<made, generated, channel, network, answered>>
  BY DEF Forget
<1>3. /\ job[j].peer \in Peer
      /\ job[j].challenge \in made /\ job[j].challenge # NoChallenge
  BY <1>1 DEF Inv, Placed, TypeOK
<1>4. /\ challenges'[job[j].peer] = NoChallenge
      /\ \A p \in Peer : p # job[j].peer => challenges'[p] = challenges[p]
  BY <1>2, <1>3 DEF Inv, TypeOK
<1>5. \A k \in Job : Pc(k) \in {"close", "look", "spend", "note"} => job[k].challenge # NoChallenge
  BY DEF Inv, Placed, TypeOK
<1>6. TypeOK'
  BY <1>1, <1>2 DEF Inv, TypeOK
<1>7. Placed'
  BY <1>1, <1>2 DEF Inv, Placed, Pc
<1>8. Owned'
  BY <1>1, <1>2 DEF Inv, Owned
<1>9. Fresh'
  BY <1>1, <1>2, <1>5 DEF Inv, Fresh, Pc
<1>10. Forgotten'
  BY <1>1, <1>3, <1>4, <1>5 DEF Inv, Owned, Forgotten, Pc
<1>11. OpenMeansUnspent'
  BY <1>2 DEF Inv, OpenMeansUnspent
<1>12. Channels'
  BY <1>1, <1>2 DEF Inv, TypeOK, Channels, Pc
<1>13. Watched'
  BY <1>1, <1>4 DEF Inv, Owned, Watched, Pc
<1>14. Replied'
  BY <1>1, <1>2 DEF Inv, Replied, Pc
<1> QED
  BY <1>6, <1>7, <1>8, <1>9, <1>10, <1>11, <1>12, <1>13, <1>14 DEF Inv

\* The channel of its challenge is removed; a goroutine has no other.
LEMMA ChannelRemoved ==
    ASSUME Inv, NEW j \in Job, RemoveChannel(j)
    PROVE  Inv'
<1>1. /\ Pc(j) = "close"
      /\ job'[j].pc = IF job[j].reply THEN "look" ELSE "refused"
      /\ job'[j].challenge = job[j].challenge
      /\ job'[j].peer = job[j].peer
      /\ job'[j].reply = job[j].reply
      /\ \A k \in Job : k # j => job'[k] = job[k]
      /\ job' \in [Job -> JobRecord]
  BY DEF RemoveChannel, Continue, Inv, TypeOK, JobRecord, At, Outcome, Pc
<1>2. /\ channel' = [channel EXCEPT ![job[j].challenge] = Nobody]
      /\ UNCHANGED <<challenges, made, generated, network, answered>>
  BY DEF RemoveChannel
<1>3. job[j].challenge \in made /\ job[j].challenge \in Challenge
  BY <1>1 DEF Inv, Placed, TypeOK
<1>4. /\ channel'[job[j].challenge] = Nobody
      /\ \A c \in Challenge : c # job[j].challenge => channel'[c] = channel[c]
  BY <1>2, <1>3 DEF Inv, TypeOK
<1>5. TypeOK'
  BY <1>1, <1>2 DEF Inv, TypeOK
<1>6. Placed'
  BY <1>1, <1>2 DEF Inv, Placed, Pc
<1>7. Owned'
  BY <1>1, <1>2 DEF Inv, Owned
<1>8. Fresh'
  BY <1>1, <1>2 DEF Inv, Fresh, Pc
<1>9. Forgotten'
  BY <1>1, <1>2 DEF Inv, Forgotten, Pc
<1>10. OpenMeansUnspent'
  BY <1>2 DEF Inv, OpenMeansUnspent
<1>11. Channels'
  BY <1>1, <1>4 DEF Inv, TypeOK, Channels, Pc
<1>12. Watched'
  BY <1>1, <1>2 DEF Inv, Watched, Pc
<1>13. Replied'
  BY <1>1, <1>2 DEF Inv, Replied, Pc
<1> QED
  BY <1>5, <1>6, <1>7, <1>8, <1>9, <1>10, <1>11, <1>12, <1>13 DEF Inv

\* A challenge is spent only when it is open for nobody.
LEMMA ChallengeSpent ==
    ASSUME Inv, NEW j \in Job, DeleteChallenge(j)
    PROVE  Inv'
<1>1. /\ Pc(j) = "spend"
      /\ job'[j].pc = "valid"
      /\ job'[j].challenge = job[j].challenge
      /\ job'[j].peer = job[j].peer
      /\ job'[j].reply = job[j].reply
      /\ \A k \in Job : k # j => job'[k] = job[k]
      /\ job' \in [Job -> JobRecord]
  BY DEF DeleteChallenge, Continue, Inv, TypeOK, JobRecord, At, Outcome, Pc
<1>2. /\ generated' = generated \ {job[j].challenge}
      /\ UNCHANGED <<challenges, made, channel, network, answered>>
  BY DEF DeleteChallenge
<1>3. \A p \in Peer : challenges[p] # job[j].challenge
  BY <1>1 DEF Inv, Forgotten
<1>4. \A k \in Job : Pc(k) = "note" => job[k].challenge # job[j].challenge
  BY <1>1 DEF Inv, Fresh, Pc
<1>5. \A c \in Challenge : channel[c] # j
  BY <1>1 DEF Inv, Channels, Pc, TypeOK, JobRecord
<1>6. TypeOK'
  BY <1>1, <1>2 DEF Inv, TypeOK
<1>7. Placed'
  BY <1>1, <1>2 DEF Inv, Placed, Pc
<1>8. Owned'
  BY <1>1, <1>2 DEF Inv, Owned
<1>9. Fresh'
  BY <1>1, <1>2 DEF Inv, Fresh, Pc
<1>10. Forgotten'
  BY <1>1, <1>2 DEF Inv, Forgotten, Pc
<1>11. OpenMeansUnspent'
  BY <1>2, <1>3 DEF Inv, OpenMeansUnspent
<1>12. Channels'
  BY <1>1, <1>2 DEF Inv, TypeOK, Channels, Pc
<1>13. Watched'
  BY <1>1, <1>2 DEF Inv, Watched, Pc
<1>14. Replied'
  BY <1>1, <1>2 DEF Inv, Replied, Pc
<1> QED
  BY <1>6, <1>7, <1>8, <1>9, <1>10, <1>11, <1>12, <1>13, <1>14 DEF Inv

\* The answer goes to a goroutine that waits for it.
LEMMA AnswerComes ==
    ASSUME Inv, NEW packet \in network, SendToChan(packet)
    PROVE  Inv'
<1>1. /\ network' \subseteq Packet /\ answered \subseteq answered' /\ answered' \subseteq Job
      /\ UNCHANGED <<challenges, made, generated, channel>>
      /\ packet.challenge \in Challenge
  BY DEF SendToChan, Inv, TypeOK, Packet
<1>2. \A k \in Job :
          /\ job'[k].challenge = job[k].challenge
          /\ job'[k].peer = job[k].peer
          /\ \/ job'[k].pc = job[k].pc /\ job'[k].reply = job[k].reply
             \/ /\ job[k].pc = "wait" /\ job'[k].pc = "forget" /\ job'[k].reply = TRUE
                /\ k = channel[packet.challenge] /\ k # Nobody
  <2>1. CASE channel[packet.challenge] # Nobody /\ Pc(channel[packet.challenge]) = "wait"
    <3>1. channel[packet.challenge] \in Job
      BY <1>1, <2>1 DEF Inv, TypeOK
    <3>2. job' = [job EXCEPT ![channel[packet.challenge]].pc = "forget",
                             ![channel[packet.challenge]].reply = TRUE]
      BY <2>1 DEF SendToChan
    <3>3. \A k \in Job : k # channel[packet.challenge] => job'[k] = job[k]
      BY <3>1, <3>2 DEF Inv, TypeOK
    <3>4. /\ job'[channel[packet.challenge]].challenge = job[channel[packet.challenge]].challenge
          /\ job'[channel[packet.challenge]].peer = job[channel[packet.challenge]].peer
          /\ job'[channel[packet.challenge]].pc = "forget"
          /\ job'[channel[packet.challenge]].reply = TRUE
      BY <3>1, <3>2 DEF Inv, TypeOK, JobRecord
    <3> QED
      BY <2>1, <3>1, <3>3, <3>4 DEF Pc
  <2>2. CASE ~(channel[packet.challenge] # Nobody /\ Pc(channel[packet.challenge]) = "wait")
    BY <2>2 DEF SendToChan
  <2> QED
    BY <2>1, <2>2
<1>3. job' \in [Job -> JobRecord]
  BY <1>1 DEF SendToChan, Inv, TypeOK, JobRecord, At, Pc
<1>4. \A k \in Job : job[k].pc = "wait" /\ k = channel[packet.challenge] /\ k # Nobody => k \in answered'
  BY <1>1 DEF SendToChan, Inv, Channels, Pc
<1>5. TypeOK'
  BY <1>1, <1>3 DEF Inv, TypeOK
<1>6. Placed'
  BY <1>1, <1>2 DEF Inv, Placed, Pc
<1>7. Owned'
  BY <1>1, <1>2 DEF Inv, Owned
<1>8. Fresh'
  BY <1>1, <1>2 DEF Inv, Fresh, Pc
<1>9. Forgotten'
  BY <1>1, <1>2 DEF Inv, Forgotten, Pc
<1>10. OpenMeansUnspent'
  BY <1>1 DEF Inv, OpenMeansUnspent
<1>11. Channels'
  BY <1>1, <1>2 DEF Inv, TypeOK, Channels, Pc
<1>12. Watched'
  BY <1>1, <1>2 DEF Inv, Watched, Pc
<1>13. Replied'
  BY <1>1, <1>2, <1>4 DEF Inv, Replied, Pc
<1> QED
  BY <1>5, <1>6, <1>7, <1>8, <1>9, <1>10, <1>11, <1>12, <1>13 DEF Inv

-----------------------------------------------------------------------------
LEMMA InvInit == Init => Inv
BY DEF Init, Inv, TypeOK, JobRecord, At, Outcome, Placed, Owned, Fresh, Forgotten,
       OpenMeansUnspent, Channels, Watched, Replied, Pc

\* Every action preserves the invariant.
LEMMA InvStep == Inv /\ [Next]_vars => Inv'
<1> SUFFICES ASSUME Inv, [Next]_vars PROVE Inv'
  OBVIOUS
<1>1. ASSUME NEW j \in Job, JobStep(j) PROVE Inv'
  <2>1. CASE \E p \in Peer : ReceiveRequest(j, p)
    BY <2>1, RequestComes
  <2>2. CASE GenerateChallenge(j)
    BY <2>2, ChallengeMade
  <2>3. CASE NoteChallenge(j)
    BY <2>3, ChallengeNoted
  <2>4. CASE SendChallenge(j)
    <3>1. job[j].challenge \in Challenge
      BY <2>4 DEF SendChallenge, Inv, Placed, TypeOK, Pc
    <3>2. network' \subseteq Packet
      BY <2>4, <3>1 DEF SendChallenge, Inv, TypeOK, Packet
    <3>3. \A c \in Challenge : channel[c] # j
      BY <2>4 DEF SendChallenge, Inv, Channels, TypeOK
    <3> QED
      BY <2>4, <3>2, <3>3, MovesOn DEF SendChallenge, At
  <2>5. CASE SendFails(j)
    BY <2>5, MovesOn DEF SendFails, At, Outcome, Inv, TypeOK
  <2>6. CASE AddChannel(j)
    BY <2>6, ChannelAdded
  <2>7. CASE Select(j)
    BY <2>7, MovesOn DEF Select, At, Inv, TypeOK
  <2>8. CASE Timeout(j)
    BY <2>8, MovesOn DEF Timeout, At, Inv, TypeOK
  <2>9. CASE Forget(j)
    BY <2>9, ChallengeForgotten
  <2>10. CASE RemoveChannel(j)
    BY <2>10, ChannelRemoved
  <2>11. CASE LookUpChallenge(j)
    <3> DEFINE pc == IF job[j].challenge \in generated THEN "spend" ELSE "refused"
    <3>1. Continue(j, pc) /\ Pc(j) = "look" /\ job[j].reply
      BY <2>11 DEF LookUpChallenge, Inv, Replied
    <3>2. pc \in {"spend", "refused"} /\ pc \in At
      BY DEF At, Outcome
    <3> HIDE DEF pc
    <3> QED
      BY <2>11, <3>1, <3>2, MovesOn DEF LookUpChallenge, Inv, TypeOK
  <2>12. CASE DeleteChallenge(j)
    BY <2>12, ChallengeSpent
  <2> QED
    BY <1>1, <2>1, <2>2, <2>3, <2>4, <2>5, <2>6, <2>7, <2>8, <2>9, <2>10, <2>11, <2>12
    DEF JobStep
<1>2. ASSUME NEW packet \in network, NetworkStep(packet) PROVE Inv'
  <2>1. CASE SolveChallenge(packet)
    BY <2>1, Elsewhere DEF SolveChallenge, Inv, TypeOK, Packet
  <2>2. CASE SendToChan(packet)
    BY <2>2, AnswerComes
  <2>3. CASE Lose(packet)
    BY <2>3, Elsewhere DEF Lose, Inv, TypeOK
  <2> QED
    BY <1>2, <2>1, <2>2, <2>3 DEF NetworkStep
<1>3. CASE UNCHANGED vars
  BY <1>3, Elsewhere DEF vars, Inv, TypeOK
<1> QED
  BY <1>1, <1>2, <1>3 DEF Next

LEMMA InvAlways == Spec => []Inv
BY InvInit, InvStep, PTL DEF Spec

-----------------------------------------------------------------------------
\* Every variable has its type, in every behaviour of Validation.
THEOREM ValidationTypeCorrect == Spec => []TypeOK
<1>1. Inv => TypeOK
  BY DEF Inv
<1> QED
  BY <1>1, InvAlways, PTL

\* Only a request whose sender has answered a challenge of its own is processed
\* (processPacketWithValidate), whatever goroutines it shares the challenge with.
THEOREM OnlyAnsweredAreValid == Spec => []ValidMeansAnswered
<1>1. Inv => ValidMeansAnswered
  <2> SUFFICES ASSUME Inv, NEW j \in Job, Pc(j) = "valid",
                      NEW k \in Job, job[k].challenge = job[j].challenge
               PROVE  j \in answered /\ job[k].peer = job[j].peer
    BY DEF ValidMeansAnswered, Inv, Replied
  <2>1. job[j].challenge # NoChallenge
    BY DEF Inv, TypeOK, Placed
  <2> QED
    BY <2>1 DEF Inv, Replied, Owned
<1> QED
  BY <1>1, InvAlways, PTL

\* The challenge that validatePeer finds open for a peer is still among the
\* generatedChallenges, so that its answer can be accepted.
THEOREM OpenChallengesUnspent == Spec => []OpenMeansUnspent
<1>1. Inv => OpenMeansUnspent
  BY DEF Inv
<1> QED
  BY <1>1, InvAlways, PTL

\* Goroutines that share a challenge and remove each other's channel leave neither
\* channels nor challenges behind (waitForChallengeReply).
THEOREM NothingIsLeft == Spec => []NothingLeft
<1>1. Inv => NothingLeft
  <2> SUFFICES ASSUME Inv, \A j \in Job : Pc(j) \in Outcome
               PROVE  /\ \A c \in Challenge : channel[c] = Nobody
                      /\ \A p \in Peer : challenges[p] # NoChallenge =>
                           \E j \in Job : job[j].challenge = challenges[p] /\ Pc(j) = "unsent"
    BY DEF NothingLeft
  <2>1. \A c \in Challenge : channel[c] = Nobody
    BY DEF Inv, TypeOK, Channels, Outcome
  <2>2. \A p \in Peer : challenges[p] # NoChallenge =>
          \E j \in Job : job[j].challenge = challenges[p] /\ Pc(j) = "unsent"
    BY DEF Inv, Watched, Outcome
  <2> QED
    BY <2>1, <2>2
<1> QED
  BY <1>1, InvAlways, PTL

-----------------------------------------------------------------------------
\* What has been deleted from the PoSModule has let a request through.
Spent == \A c \in made \ generated : \E k \in Job : job[k].challenge = c /\ Pc(k) = "valid"

\* A goroutine whose request is valid does nothing more.
LEMMA ValidStays ==
    ASSUME Inv, [Next]_vars, NEW k \in Job, Pc(k) = "valid"
    PROVE  Pc(k)' = "valid" /\ job'[k].challenge = job[k].challenge
<1>1. CASE UNCHANGED vars
  BY <1>1 DEF vars, Pc
<1>2. ASSUME NEW j \in Job, JobStep(j) PROVE job'[k] = job[k]
  <2>1. Pc(j) # "valid"
    BY <1>2 DEF JobStep, ReceiveRequest, GenerateChallenge, NoteChallenge, SendChallenge,
       SendFails, AddChannel, Select, Timeout, Forget, RemoveChannel, LookUpChallenge,
       DeleteChallenge
  <2> QED
    BY <1>2, <2>1 DEF JobStep, ReceiveRequest, GenerateChallenge, NoteChallenge, SendChallenge,
       SendFails, AddChannel, Select, Timeout, Forget, RemoveChannel, LookUpChallenge,
       DeleteChallenge, Continue, Inv, TypeOK, Pc
<1>3. ASSUME NEW packet \in network, NetworkStep(packet) PROVE job'[k] = job[k]
  <2>1. CASE SendToChan(packet)
    <3> DEFINE j == channel[packet.challenge]
    <3>1. CASE j # Nobody /\ Pc(j) = "wait"
      <4>1. j # k
        BY <3>1
      <4> QED
        BY <2>1, <3>1, <4>1 DEF SendToChan, Inv, TypeOK
    <3> QED
      BY <2>1, <3>1 DEF SendToChan
  <2> QED
    BY <1>3, <2>1 DEF NetworkStep, SolveChallenge, Lose
<1> QED
  BY <1>1, <1>2, <1>3 DEF Next, Pc

\* Who is refused with an answer has found its challenge deleted.
LEMMA RefusedLate ==
    ASSUME Inv, [Next]_vars, NEW k \in Job, Pc(k)' = "refused", job'[k].reply
    PROVE  /\ job'[k].challenge = job[k].challenge
           /\ \/ Pc(k) = "refused" /\ job[k].reply
              \/ job[k].challenge \in made \ generated
<1>1. CASE UNCHANGED vars
  BY <1>1 DEF vars, Pc
<1>2. ASSUME NEW j \in Job, JobStep(j), j # k PROVE job'[k] = job[k]
  BY <1>2 DEF JobStep, ReceiveRequest, GenerateChallenge, NoteChallenge, SendChallenge,
     SendFails, AddChannel, Select, Timeout, Forget, RemoveChannel, LookUpChallenge,
     DeleteChallenge, Continue, Inv, TypeOK
<1>3. ASSUME JobStep(k)
      PROVE  job'[k].challenge = job[k].challenge /\ job[k].challenge \in made \ generated
  <2>1. CASE RemoveChannel(k)
    BY <2>1 DEF RemoveChannel, Continue, Inv, TypeOK, JobRecord, Pc
  <2>2. CASE LookUpChallenge(k)
    BY <2>2 DEF LookUpChallenge, Continue, Inv, TypeOK, JobRecord, Placed, Pc
  <2>3. CASE \E p \in Peer : ReceiveRequest(k, p)
    BY <2>3 DEF ReceiveRequest, Inv, TypeOK, JobRecord, Pc
  <2>4. CASE GenerateChallenge(k)
    BY <2>4 DEF GenerateChallenge, Inv, TypeOK, JobRecord, Pc
  <2>5. CASE \/ NoteChallenge(k) \/ SendChallenge(k) \/ SendFails(k) \/ AddChannel(k)
             \/ Select(k) \/ Timeout(k) \/ Forget(k) \/ DeleteChallenge(k)
    <3>1. PICK pc \in At \ {"refused"} : Continue(k, pc)
      BY <2>5 DEF NoteChallenge, SendChallenge, SendFails, AddChannel, Select, Timeout,
         Forget, DeleteChallenge, At, Outcome
    <3> QED
      BY <3>1 DEF Continue, Inv, TypeOK, JobRecord, Pc
  <2> QED
    BY <1>3, <2>1, <2>2, <2>3, <2>4, <2>5 DEF JobStep
<1>4. ASSUME NEW packet \in network, NetworkStep(packet) PROVE job'[k] = job[k]
  <2>1. CASE SendToChan(packet)
    <3> DEFINE j == channel[packet.challenge]
    <3>1. CASE j # Nobody /\ Pc(j) = "wait"
      <4>1. packet.challenge \in Challenge
        BY DEF Inv, TypeOK, Packet
      <4>2. j \in Job
        BY <3>1, <4>1 DEF Inv, TypeOK
      <4>3. j # k
        BY <2>1, <3>1, <4>2 DEF SendToChan, Inv, TypeOK, JobRecord, Pc
      <4> QED
        BY <2>1, <3>1, <4>3 DEF SendToChan, Inv, TypeOK
    <3> QED
      BY <2>1, <3>1 DEF SendToChan
  <2> QED
    BY <1>4, <2>1 DEF NetworkStep, SolveChallenge, Lose
<1> QED
  BY <1>1, <1>2, <1>3, <1>4 DEF Next, Pc

\* Challenges are deleted by DeleteChallenge alone.
LEMMA DeletedByValid ==
    ASSUME Inv, [Next]_vars, NEW c \in made' \ generated', c \notin made \ generated
    PROVE  \E k \in Job : job'[k].challenge = c /\ Pc(k)' = "valid"
<1>1. PICK k \in Job : DeleteChallenge(k) /\ c = job[k].challenge
  BY DEF Next, vars, JobStep, NetworkStep, ReceiveRequest, GenerateChallenge, NoteChallenge,
     SendChallenge, SendFails, AddChannel, Select, Timeout, Forget, RemoveChannel,
     LookUpChallenge, DeleteChallenge, SolveChallenge, SendToChan, Lose
<1> QED
  BY <1>1 DEF DeleteChallenge, Continue, Inv, TypeOK, JobRecord, Pc

LEMMA SpentStep ==
    ASSUME Inv, Spent, AnswersLetThrough, [Next]_vars
    PROVE  Spent' /\ AnswersLetThrough'
<1>1. Spent'
  <2> SUFFICES ASSUME NEW c \in made' \ generated'
               PROVE  \E k \in Job : job'[k].challenge = c /\ Pc(k)' = "valid"
    BY DEF Spent, Pc
  <2>1. CASE c \in made \ generated
    BY <2>1, ValidStays DEF Spent
  <2> QED
    BY <2>1, DeletedByValid
<1>2. AnswersLetThrough'
  <2> SUFFICES ASSUME NEW j \in Job, Pc(j)' = "refused", job'[j].reply
               PROVE  \E k \in Job : job'[k].challenge = job'[j].challenge /\ Pc(k)' = "valid"
    BY DEF AnswersLetThrough, Pc
  <2>1. PICK k \in Job : job[k].challenge = job[j].challenge /\ Pc(k) = "valid"
    BY RefusedLate DEF Spent, AnswersLetThrough
  <2> QED
    BY <2>1, RefusedLate, ValidStays
<1> QED
  BY <1>1, <1>2

\* An answer that waitForChallengeReply returns is never in vain: it lets through its
\* own request, or another with the same challenge has been let through.
THEOREM AnswersCount == Spec => []AnswersLetThrough
<1>1. Init => Spent /\ AnswersLetThrough
  BY DEF Init, Spent, AnswersLetThrough, Pc
<1> QED
  BY <1>1, SpentStep, InvAlways, PTL DEF Spec

=============================================================================
