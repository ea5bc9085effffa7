----------------------------- MODULE Validation -----------------------------
(***************************************************************************)
(* How a node validates those who send it requests (peer/impl/peer_utils.go*)
(* validatePeer and what it calls; async_handler.go; entityverify).        *)
(*                                                                         *)
(* A data, search or follow request is processed only after its sender has *)
(* answered a challenge.  Each request gets a goroutine.  Goroutines for   *)
(* the same sender share its open challenge, and with it the RequestID     *)
(* under which the channel for the answer is kept.                         *)
(*                                                                         *)
(* Every challenge has difficulty 1 (reputations are dropped under another *)
(* name than they are read), so a peer always finds the number.            *)
(***************************************************************************)

CONSTANTS Peer,         \* those who send requests
          Job,          \* the goroutines of processPacketWithValidate: bounds the requests
          Challenge,    \* what xid.New returns, for the nonce and RequestID of a challenge
          Nobody,       \* no goroutine, no peer
          NoChallenge

ASSUME NobodyAssumption    == Nobody \notin Job \cup Peer
ASSUME ChallengeAssumption == NoChallenge \notin Challenge

VARIABLES
    job,         \* job[j]: where goroutine j is
    challenges,  \* challenges[p]: the open challenge of p, if there is one
    made,        \* the challenges that have been made
    generated,   \* generatedChallenges of the PoSModule
    channel,     \* channel[c]: the goroutine whose channel has RequestID c
    network,     \* challenges on their way to a peer, answers on their way back
    answered     \* history: the goroutines to whose challenge an answer has come in time

vars == <<job, challenges, made, generated, channel, network, answered>>

\* pc is what the goroutine does next, or how it has ended; reply whether it has
\* got an answer.
Outcome == {"unsent", "refused", "valid"}
At == {"new", "generate", "note", "send", "add", "select", "wait", "forget", "close",
       "look", "spend"} \cup Outcome
JobRecord == [pc : At, peer : Peer \cup {Nobody}, challenge : Challenge \cup {NoChallenge},
              reply : BOOLEAN]

\* from tells apart the packets with one challenge: the goroutine that sent it.
Packet == [type : {"challenge", "reply"}, challenge : Challenge, from : Job]

\* Every variable has its type.
TypeOK ==
    /\ job \in [Job -> JobRecord]
    /\ challenges \in [Peer -> Challenge \cup {NoChallenge}]
    /\ made \subseteq Challenge
    /\ generated \subseteq made
    /\ channel \in [Challenge -> Job \cup {Nobody}]
    /\ network \subseteq Packet
    /\ answered \subseteq Job

Init ==
    /\ job = [j \in Job |-> [pc |-> "new", peer |-> Nobody, challenge |-> NoChallenge,
                             reply |-> FALSE]]
    /\ challenges = [p \in Peer |-> NoChallenge]
    /\ made = {} /\ generated = {}
    /\ channel = [c \in Challenge |-> Nobody]
    /\ network = {} /\ answered = {}

Pc(j) == job[j].pc
Continue(j, pc) == job' = [job EXCEPT ![j].pc = pc]

-----------------------------------------------------------------------------
(* sendChallengeRequest: the open challenge of the peer, or a new one. *)

\* Variant: the open challenge is not looked for when there is none.
ReceiveUnchecked(j, p) ==
    /\ Pc(j) = "new"
    /\ job' = [job EXCEPT ![j].peer = p, ![j].challenge = challenges[p], ![j].pc = "send"]
    /\ UNCHANGED <<challenges, made, generated, channel, network, answered>>

\* A request of p comes, and its open challenge is looked up.
ReceiveRequest(j, p) ==
    /\ Pc(j) = "new"
    /\ job' = [job EXCEPT ![j].peer = p, ![j].challenge = challenges[p],
                          ![j].pc = IF challenges[p] = NoChallenge THEN "generate" ELSE "send"]
    /\ UNCHANGED <<challenges, made, generated, channel, network, answered>>

GenerateChallenge(j) ==
    /\ Pc(j) = "generate"
    /\ \E c \in Challenge \ made :
         /\ made' = made \cup {c}
         /\ generated' = generated \cup {c}
         /\ job' = [job EXCEPT ![j].challenge = c, ![j].pc = "note"]
    /\ UNCHANGED <<challenges, channel, network, answered>>

NoteChallenge(j) ==
    /\ Pc(j) = "note"
    /\ challenges' = [challenges EXCEPT ![job[j].peer] = job[j].challenge]
    /\ Continue(j, "send")
    /\ UNCHANGED <<made, generated, channel, network, answered>>

SendChallenge(j) ==
    /\ Pc(j) = "send"
    /\ network' = network \cup {[type |-> "challenge", challenge |-> job[j].challenge, from |-> j]}
    /\ Continue(j, "add")
    /\ UNCHANGED <<challenges, made, generated, channel, answered>>

\* Unicast fails: there is no route to the peer.
SendFails(j) ==
    /\ Pc(j) = "send"
    /\ Continue(j, "unsent")
    /\ UNCHANGED <<challenges, made, generated, channel, network, answered>>

-----------------------------------------------------------------------------
(* waitForChallengeReply. *)

AddChannel(j) ==
    /\ Pc(j) = "add"
    /\ channel' = [channel EXCEPT ![job[j].challenge] = j]
    /\ Continue(j, "select")
    /\ UNCHANGED <<challenges, made, generated, network, answered>>

Select(j) ==
    /\ Pc(j) = "select"
    /\ Continue(j, "wait")
    /\ UNCHANGED <<challenges, made, generated, channel, network, answered>>

Timeout(j) ==
    /\ Pc(j) = "wait"
    /\ Continue(j, "forget")
    /\ UNCHANGED <<challenges, made, generated, channel, network, answered>>

\* Variant: a challenge that has timed out is deleted in the PoSModule too.
ForgetAndDelete(j) ==
    /\ Pc(j) = "forget"
    /\ challenges' = [challenges EXCEPT ![job[j].peer] = NoChallenge]
    /\ generated' = IF job[j].reply THEN generated ELSE generated \ {job[j].challenge}
    /\ Continue(j, "close")
    /\ UNCHANGED <<made, channel, network, answered>>

\* Whatever challenge of the peer is open, it is forgotten.
Forget(j) ==
    /\ Pc(j) = "forget"
    /\ challenges' = [challenges EXCEPT ![job[j].peer] = NoChallenge]
    /\ Continue(j, "close")
    /\ UNCHANGED <<made, generated, channel, network, answered>>

\* Variant: the channel is left when there is no answer.
RemoveAnswered(j) ==
    /\ Pc(j) = "close"
    /\ channel' = IF job[j].reply THEN [channel EXCEPT ![job[j].challenge] = Nobody] ELSE channel
    /\ Continue(j, IF job[j].reply THEN "look" ELSE "refused")
    /\ UNCHANGED <<challenges, made, generated, network, answered>>

\* Variant: a timeout is not told from an answer.
RemoveAndLook(j) ==
    /\ Pc(j) = "close"
    /\ channel' = [channel EXCEPT ![job[j].challenge] = Nobody]
    /\ Continue(j, "look")
    /\ UNCHANGED <<challenges, made, generated, network, answered>>

\* The deferred ChanRem, whoever's channel it is.  Without an answer that is all.
RemoveChannel(j) ==
    /\ Pc(j) = "close"
    /\ channel' = [channel EXCEPT ![job[j].challenge] = Nobody]
    /\ Continue(j, IF job[j].reply THEN "look" ELSE "refused")
    /\ UNCHANGED <<challenges, made, generated, network, answered>>

-----------------------------------------------------------------------------
(* ValidateChallenge looks under one lock and deletes under another. *)

LookUpChallenge(j) ==
    /\ Pc(j) = "look"
    /\ Continue(j, IF job[j].challenge \in generated THEN "spend" ELSE "refused")
    /\ UNCHANGED <<challenges, made, generated, channel, network, answered>>

DeleteChallenge(j) ==
    /\ Pc(j) = "spend"
    /\ generated' = generated \ {job[j].challenge}
    /\ Continue(j, "valid")
    /\ UNCHANGED <<challenges, made, channel, network, answered>>

-----------------------------------------------------------------------------
(* The peer, and the callback that takes its answer. *)

\* PoSChallengeRequestMessageCallback at the peer: SolveChallenge and answer.
SolveChallenge(packet) ==
    /\ packet.type = "challenge"
    /\ network' = (network \ {packet}) \cup {[packet EXCEPT !.type = "reply"]}
    /\ UNCHANGED <<job, challenges, made, generated, channel, answered>>

\* PoSChallengeReplyMessageCallback: SendToChan hands the answer to the goroutine
\* whose channel it finds if that is waiting, and drops it otherwise.
SendToChan(packet) ==
    LET j == channel[packet.challenge] IN
    /\ packet.type = "reply"
    /\ network' = network \ {packet}
    /\ answered' = answered \cup {k \in Job : Pc(k) \in {"add", "select", "wait"}
                                            /\ job[k].challenge = packet.challenge}
    /\ job' = IF j # Nobody /\ Pc(j) = "wait"
              THEN [job EXCEPT ![j].pc = "forget", ![j].reply = TRUE] ELSE job
    /\ UNCHANGED <<challenges, made, generated, channel>>

Lose(packet) ==
    /\ network' = network \ {packet}
    /\ UNCHANGED <<job, challenges, made, generated, channel, answered>>

-----------------------------------------------------------------------------
JobStep(j) ==
    \/ \E p \in Peer : ReceiveRequest(j, p)
    \/ GenerateChallenge(j) \/ NoteChallenge(j) \/ SendChallenge(j) \/ SendFails(j)
    \/ AddChannel(j) \/ Select(j) \/ Timeout(j) \/ Forget(j) \/ RemoveChannel(j)
    \/ LookUpChallenge(j) \/ DeleteChallenge(j)

NetworkStep(packet) == SolveChallenge(packet) \/ SendToChan(packet) \/ Lose(packet)

Next == \/ \E j \in Job : JobStep(j)
        \/ \E packet \in network : NetworkStep(packet)

Spec == Init /\ [][Next]_vars

-----------------------------------------------------------------------------
\* A request is processed only if an answer to a challenge of its own sender has come
\* in time, although goroutines share challenges and take away each other's channels.
ValidMeansAnswered ==
    \A j \in Job : Pc(j) = "valid" =>
      /\ j \in answered
      /\ \A k \in Job : job[k].challenge = job[j].challenge => job[k].peer = job[j].peer

\* A challenge that the next request of a peer would be given has not been spent: it
\* can still be answered.
OpenMeansUnspent == \A p \in Peer : challenges[p] # NoChallenge => challenges[p] \in generated

\* An answer that is taken lets a request through, if only that of another goroutine
\* which shares the challenge and has spent it first.
AnswersLetThrough ==
    \A j \in Job : Pc(j) = "refused" /\ job[j].reply =>
      \E k \in Job : job[k].challenge = job[j].challenge /\ Pc(k) = "valid"

\* When all goroutines have ended, no channel is left, and a challenge is open only if
\* one of them could not send it.
NothingLeft ==
    (\A j \in Job : Pc(j) \in Outcome) =>
      /\ \A c \in Challenge : channel[c] = Nobody
      /\ \A p \in Peer : challenges[p] # NoChallenge =>
           \E j \in Job : job[j].challenge = challenges[p] /\ Pc(j) = "unsent"

\* "Peer sends a follow request to another peer and is required to solve a challenge.
\* It does it successfully." (peer/tests/unit/socialnetwork_test.go:731): who has
\* answered its challenge in time is not refused.
AnswerIsTaken == \A j \in Job : Pc(j) = "refused" => j \notin answered

=============================================================================
