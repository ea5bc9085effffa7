---------------------------- MODULE ChordProofs ----------------------------
(***************************************************************************)
(* The Chord overlay, for any nodes and any length of an identifier: the   *)
(* interval tests of peer/impl/utils.go are arcs of the circle, the ring   *)
(* stays together, and the look-ups find what Directory promises.  Last,   *)
(* with Joins that may fail: who leads a search to ChordNode{}.            *)
(***************************************************************************)
EXTENDS Chord, FiniteSetTheorems, WellFoundedInduction, TLAPS

-----------------------------------------------------------------------------
(* The circle: Ring. *)

\* An identifier is a natural number below Size, and there is one.
LEMMA KeyRange == Size \in Nat \ {0} /\ \A key \in Int : key \in Key <=> 0 <= key /\ key < Size
<1>1. Size \in Nat \ {0}
  BY BitsAssumption
<1> QED
  BY <1>1 DEF Key

\* IsStrictlyBetween, IsBetweenLeftClosedRightOpen and
\* IsBetweenLeftOpenRightClosed, coded by two comparisons each, are arcs of the
\* circle: findPredecessor and updateFingerTable may reason by distance.
THEOREM ArcsCorrect == IntervalsAreArcs
<1> SUFFICES ASSUME NEW target \in Key, NEW lower \in Key, NEW upper \in Key
             PROVE  /\ IsStrictlyBetween(target, lower, upper)
                         <=> Gap(lower, target) < Gap(lower, upper)
                    /\ IsBetweenLeftClosedRightOpen(target, lower, upper)
                         <=> Dist(lower, target) < Gap(lower, upper)
                    /\ IsBetweenLeftOpenRightClosed(target, lower, upper)
                         <=> Gap(lower, target) <= Gap(lower, upper)
  BY DEF IntervalsAreArcs
<1>1. /\ Size \in Nat \ {0}
      /\ target \in Int /\ 0 <= target /\ target < Size
      /\ lower \in Int /\ 0 <= lower /\ lower < Size
      /\ upper \in Int /\ 0 <= upper /\ upper < Size
  BY KeyRange DEF Key
<1>2. IsStrictlyBetween(target, lower, upper) <=> Gap(lower, target) < Gap(lower, upper)
  BY <1>1 DEF IsStrictlyBetween, Gap
<1>3. IsBetweenLeftClosedRightOpen(target, lower, upper)
        <=> Dist(lower, target) < Gap(lower, upper)
  BY <1>1 DEF IsBetweenLeftClosedRightOpen, Dist, Gap
<1>4. IsBetweenLeftOpenRightClosed(target, lower, upper)
        <=> Gap(lower, target) <= Gap(lower, upper)
  BY <1>1 DEF IsBetweenLeftOpenRightClosed, Gap
<1> QED
  BY <1>2, <1>3, <1>4

\* updateOthers searches for the key that finger i of n starts from: subtracting
\* a power of two and adding it again gives the identifier back.
THEOREM AddUndoesSubtract ==
  ASSUME NEW key \in Key, NEW value \in Nat, value < Size
  PROVE  /\ SubtractInt(key, value) \in Key
         /\ AddInt(SubtractInt(key, value), value) = key
<1>1. Size \in Nat \ {0} /\ key \in Int /\ 0 <= key /\ key < Size
  BY KeyRange DEF Key
<1>2. CASE key >= value
  <2>1. (key - value) % Size = key - value
    BY <1>1, <1>2
  <2>2. key % Size = key
    BY <1>1
  <2> QED
    BY <1>1, <1>2, <2>1, <2>2 DEF SubtractInt, AddInt, Key
<1>3. CASE key < value
  <2>1. (key - value) % Size = key - value + Size
    BY <1>1, <1>3
  <2>2. (key + Size) % Size = key
    BY <1>1
  <2> QED
    BY <1>1, <1>3, <2>1, <2>2 DEF SubtractInt, AddInt, Key
<1> QED
  BY <1>1, <1>2, <1>3

-----------------------------------------------------------------------------
(* The ring: Chord. *)

\* Where the calls of a job are: what a job is for fits to where it is, and the
\* loops' index is in range when a finger is set.
Search == {"ask", "hop", "successor", "found"}
Fits(j) ==
    /\ j.pc \in {"getPredecessor", "setPredecessor", "setSuccessor"} => j.goal = "successor"
    /\ j.pc = "initFingers" => j.goal = "finger" /\ j.i < M
    /\ j.pc = "updateOthers" => j.goal \in {"finger", "update"}
    /\ j.pc = "updateFinger" => j.goal = "update"
    /\ j.goal = "finger" /\ j.pc \in Search => j.i < M - 1
    /\ j.goal = "update" /\ (j.pc \in Search \/ j.pc = "updateFinger") => j.i < M
    /\ j.goal = "update" => j.pc \in Search \cup {"updateFinger", "updateOthers"}
    /\ j.goal = "finger" => j.pc \in Search \cup {"initFingers", "updateOthers"}
    /\ j.pc \in {"out", "in"} => j.goal = "lookup"
Indexed == \A n \in Node : Fits(job[n])

LEMMA Numbers == M \in Nat \ {0} /\ Size \in Nat \ {0} /\ 0 \in Key /\ 0 \in Index /\ 0 \in 0 .. M
<1>1. M \in Nat \ {0} /\ Size \in Nat \ {0}
  BY BitsAssumption
<1> QED
  BY <1>1 DEF Key, Index

\* Steps along the circle stay on it.
LEMMA KeysOnCircle ==
  ASSUME NEW n \in Node, NEW i \in 0 .. M
  PROVE  FingerStart(n, i) \in Key /\ SubtractInt(n, 2 ^ i) \in Key
<1>1. Size \in Nat \ {0} /\ 2 ^ i \in Nat /\ n \in Int
  BY BitsAssumption, NodeAssumption, KeyRange DEF Key
<1>2. (n + 2 ^ i) % Size \in 0 .. Size - 1 /\ (n - 2 ^ i) % Size \in 0 .. Size - 1
  BY <1>1
<1> QED
  BY <1>2 DEF FingerStart, AddInt, SubtractInt, Key

LEMMA NewJobIsJob == ASSUME NEW n \in Node PROVE NewJob(n) \in Job
  BY Numbers DEF NewJob, Job

\* The calls a node answers and makes add nodes to routing tables, and ChordNode{}.
LEMMA CalledKeepsType ==
  ASSUME NEW a \in Node, NEW b \in Node, NEW replied \in Node \cup {NoNode},
         known \in [Node -> SUBSET (Node \cup {NoNode})]
  PROVE  /\ Called(a, b, replied) \in [Node -> SUBSET (Node \cup {NoNode})]
         /\ Read(a, b, replied) \in [Node -> SUBSET (Node \cup {NoNode})]
<1>1. Called(a, b, replied) \in [Node -> SUBSET (Node \cup {NoNode})]
  BY DEF Called
<1> QED
  BY <1>1 DEF Read

\* A set of indices that is not empty has a last element.
LEMMA LastIndex ==
  ASSUME NEW T \in SUBSET Index, T # {}
  PROVE  \E i \in T : \A j \in T : j <= i
<1> DEFINE After(i) == {j \in T : j > i}
           F == {After(i) : i \in T}
<1>1. IsFiniteSet(Index) /\ Index \subseteq Int
  BY Numbers, FS_Interval DEF Index
<1>2. F \subseteq FiniteSubsetsOf(Index) /\ F # {}
  <2>1. ASSUME NEW S \in SUBSET Index PROVE IsFiniteSet(S)
    BY <1>1, FS_Subset
  <2> QED
    BY <2>1 DEF FiniteSubsetsOf
<1>3. \E S \in F : \A U \in F : <<U, S>> \notin StrictSubsetOrdering(Index)
  <2> HIDE DEF F
  <2> QED
    BY <1>2, FS_StrictSubsetOrderingWellFounded, WFMin
<1>4. PICK i \in T : \A j \in T : <<After(j), After(i)>> \notin StrictSubsetOrdering(Index)
  BY <1>3
<1>5. i \in Int /\ \A j \in T : j \in Int
  BY <1>1
<1>6. ASSUME NEW j \in T, j > i PROVE FALSE
  <2>1. j \in After(i) /\ j \notin After(j)
    BY <1>5, <1>6
  <2>3. ASSUME NEW k \in After(j) PROVE k \in After(i)
    <3>1. k \in T /\ k \in Int /\ j \in Int /\ i \in Int /\ k > j
      BY <1>5
    <3>2. k > i
      BY <1>6, <3>1
    <3> QED
      BY <3>1, <3>2
  <2>2. After(j) \in SUBSET Index /\ After(i) \in SUBSET Index
    OBVIOUS
  <2> HIDE DEF After
  <2> QED
    BY <1>4, <2>1, <2>2, <2>3 DEF StrictSubsetOrdering
<1> QED
  BY <1>5, <1>6

\* closestPrecedingFinger is the node itself or one of its fingers.
LEMMA PrecedingIsFinger ==
  ASSUME NEW n, NEW key
  PROVE  \/ ClosestPrecedingFinger(n, key) = n
         \/ \E i \in Preceding(n, key) : ClosestPrecedingFinger(n, key) = finger[n][i]
<1>1. CASE Preceding(n, key) = {}
  BY <1>1 DEF ClosestPrecedingFinger
<1>2. CASE Preceding(n, key) # {}
  <2>1. Preceding(n, key) \in SUBSET Index
    BY DEF Preceding
  <2>2. \E i \in Preceding(n, key) : \A j \in Preceding(n, key) : j <= i
    BY <1>2, <2>1, LastIndex
  <2> QED
    BY <1>2, <2>2 DEF ClosestPrecedingFinger
<1> QED
  BY <1>1, <1>2

-----------------------------------------------------------------------------
(* Types. *)

KnownType  == known \in [Node -> SUBSET (Node \cup {NoNode})]
FingerType == finger \in [Node -> [Index -> Node \cup {NoNode}]]
TypeInvariant == TypeOK /\ Indexed

\* What a call that can be made finds out.
LEMMA CallType ==
  ASSUME TypeOK, NEW a \in Node, NEW b, CanCall(a, b)
  PROVE  /\ b \in Node
         /\ finger[b][0] \in Node \cup {NoNode}
         /\ predecessor[b] \in Node \cup {NoNode}
<1>1. b \in Node
  BY DEF CanCall, TypeOK
<1> QED
  BY <1>1, Numbers DEF TypeOK

LEMMA InitType == Init => TypeInvariant
<1> SUFFICES ASSUME Init PROVE TypeInvariant
  OBVIOUS
<1>1. job \in [Node -> Job]
  BY NewJobIsJob DEF Init
<1>2. known \in [Node -> SUBSET (Node \cup {NoNode})]
  BY DEF Init
<1>3. TypeOK
  BY <1>1, <1>2 DEF Init, TypeOK
<1>4. Indexed
  BY DEF Init, Indexed, Fits, NewJob, Search
<1> QED
  BY <1>3, <1>4 DEF TypeInvariant

\* The step of a job changes this job alone.
Steps(n) == job' = [q \in Node |-> IF q = n THEN job'[n] ELSE job[q]]

LEMMA StepType ==
  ASSUME TypeInvariant, NEW n \in Node, Steps(n), job'[n] \in Job, Fits(job'[n]),
         FingerType', KnownType', predecessor' \in [Node -> Node \cup {NoNode}]
  PROVE  TypeInvariant'
<1>1. job' \in [Node -> Job]
  BY DEF Steps, TypeInvariant, TypeOK
<1>2. \A q \in Node : Fits(job'[q])
  BY DEF Steps, TypeInvariant, Indexed
<1> QED
  BY <1>1, <1>2 DEF TypeInvariant, TypeOK, Indexed, FingerType, KnownType

LEMMA StartType ==
  ASSUME TypeInvariant, NEW n \in Node,
         \/ JoinFirst(n)
         \/ \E existing \in Node : Join(n, existing)
         \/ \E key \in Asked : LookUp(n, key)
  PROVE  TypeInvariant' /\ Steps(n)
<1>1. /\ job[n] \in Job /\ Fits(job[n]) /\ job \in [Node -> Job]
      /\ FingerType /\ KnownType /\ predecessor \in [Node -> Node \cup {NoNode}]
  BY DEF TypeInvariant, TypeOK, Indexed, FingerType, KnownType
<1>2. CASE JoinFirst(n)
  <2>1. job'[n] = [job[n] EXCEPT !.pc = "in"] /\ Steps(n)
    BY <1>1, <1>2 DEF JoinFirst, Steps
  <2>2. job[n].pc = "out"
    BY <1>2 DEF JoinFirst, Joined, Joining
  <2>3. Fits(job'[n])
    BY <1>1, <2>1, <2>2 DEF Fits, Search, Job
  <2>4. job'[n] \in Job
    BY <1>1, <2>1 DEF Job
  <2>5. FingerType' /\ KnownType' /\ predecessor' \in [Node -> Node \cup {NoNode}]
    BY <1>1, <1>2 DEF JoinFirst, FingerType, KnownType
  <2> QED
    BY <2>1, <2>3, <2>4, <2>5, StepType
<1>3. ASSUME NEW existing \in Node, Join(n, existing)
      PROVE  TypeInvariant' /\ Steps(n)
  <2>1. /\ job'[n] = [job[n] EXCEPT !.pc = "ask", !.goal = "successor", !.existing = existing,
                                    !.by = existing, !.key = FingerStart(n, 0)]
        /\ Steps(n)
    BY <1>1, <1>3 DEF Join, Steps
  <2>2. FingerStart(n, 0) \in Key
    BY KeysOnCircle, Numbers
  <2>3. Fits(job'[n])
    BY <1>1, <2>1 DEF Fits, Search, Job
  <2>4. job'[n] \in Job
    <3> DEFINE first == FingerStart(n, 0)
    <3>1. first \in Key /\ job'[n] = [job[n] EXCEPT !.pc = "ask", !.goal = "successor",
                                       !.existing = existing, !.by = existing, !.key = first]
      BY <2>1, <2>2
    <3> HIDE DEF first
    <3> QED
      BY <1>1, <3>1 DEF Job
  <2>5. FingerType' /\ KnownType' /\ predecessor' \in [Node -> Node \cup {NoNode}]
    BY <1>1, <1>3 DEF Join, FingerType, KnownType
  <2> QED
    BY <2>1, <2>3, <2>4, <2>5, StepType
<1>4. ASSUME NEW key \in Asked, LookUp(n, key)
      PROVE  TypeInvariant' /\ Steps(n)
  <2>1. /\ job'[n] = [NewJob(n) EXCEPT !.pc = "ask", !.key = key, !.members = Members]
        /\ Steps(n)
    BY <1>1, <1>4 DEF LookUp, Steps
  <2>2. key \in Key /\ Members \in SUBSET Node
    BY AskedAssumption DEF Members
  <2>3. Fits(job'[n])
    BY <2>1 DEF Fits, Search, NewJob
  <2>4. job'[n] \in Job
    <3> DEFINE fresh == NewJob(n)
    <3>1. fresh \in Job
      BY Numbers DEF Job, NewJob
    <3>2. job'[n] = [fresh EXCEPT !.pc = "ask", !.key = key, !.members = Members]
      BY <2>1
    <3> HIDE DEF fresh
    <3> QED
      BY <2>2, <3>1, <3>2 DEF Job
  <2>5. FingerType' /\ KnownType' /\ predecessor' \in [Node -> Node \cup {NoNode}]
    BY <1>1, <1>4 DEF LookUp, FingerType, KnownType
  <2> QED
    BY <2>1, <2>3, <2>4, <2>5, StepType
<1> QED
  BY <1>2, <1>3, <1>4

LEMMA FindSuccessorType ==
  ASSUME TypeInvariant, NEW n \in Node, NEW goal, NEW result, FindSuccessor(n, goal, result)
  PROVE  result \in Node \cup {NoNode} /\ job[n].cur \in Node /\ KnownType'
<1>1. job[n].by \in Node /\ KnownType /\ TypeOK
  BY DEF TypeInvariant, TypeOK, KnownType, Job
<1>2. result \in Node \cup {NoNode} /\ job[n].cur \in Node
  BY <1>1, CallType DEF FindSuccessor
<1>3. Read(job[n].by, job[n].cur, result) \in [Node -> SUBSET (Node \cup {NoNode})]
  BY <1>1, <1>2, CalledKeepsType DEF KnownType
<1> DEFINE asked == Read(job[n].by, job[n].cur, result)
<1>4. known' = IF job[n].by = n THEN asked
               ELSE [asked EXCEPT ![n] = @ \cup {job[n].by, result}]
  BY DEF FindSuccessor
<1> HIDE DEF asked
<1>5. asked \in [Node -> SUBSET (Node \cup {NoNode})]
  BY <1>3 DEF asked
<1>6. KnownType'
  BY <1>1, <1>2, <1>4, <1>5 DEF KnownType
<1> QED
  BY <1>2, <1>6

LEMMA SearchType ==
  ASSUME TypeInvariant, NEW n \in Node, Ask(n) \/ Hop(n) \/ ReadSuccessor(n) \/ Answer(n)
  PROVE  TypeInvariant' /\ Steps(n)
<1>1. /\ job[n] \in Job /\ Fits(job[n]) /\ job \in [Node -> Job]
      /\ FingerType /\ KnownType /\ predecessor \in [Node -> Node \cup {NoNode}]
  BY DEF TypeInvariant, TypeOK, Indexed, FingerType, KnownType
<1> DEFINE cur == job[n].cur
           by == job[n].by
<1>2. /\ by \in Node
      /\ cur \in Node => finger[cur][0] \in Node \cup {NoNode}
      /\ \A b : CanCall(by, b) => b \in Node
  BY <1>1, CallType, Numbers DEF Job, FingerType, TypeInvariant
<1>3. CASE Ask(n)
  <2>1. /\ job'[n] = [job[n] EXCEPT !.pc = "hop", !.cur = by, !.succ = finger[by][0]]
        /\ Steps(n)
    BY <1>1, <1>3 DEF Ask, Steps
  <2>2. finger[by][0] \in Node \cup {NoNode}
    BY <1>1, <1>2, Numbers DEF FingerType
  <2>3. Fits(job'[n])
    BY <1>1, <1>3, <2>1 DEF Ask, Fits, Search, Job
  <2>4. job'[n] \in Job
    BY <1>1, <1>2, <2>1, <2>2 DEF Job
  <2>5. KnownType'
    BY <1>1, <1>2, <1>3 DEF Ask, KnownType
  <2>6. FingerType' /\ predecessor' \in [Node -> Node \cup {NoNode}]
    BY <1>1, <1>3 DEF Ask, FingerType
  <2> QED
    BY <2>1, <2>3, <2>4, <2>5, <2>6, StepType
<1>4. CASE Hop(n)
  <2>1. FingerType' /\ predecessor' \in [Node -> Node \cup {NoNode}] /\ job[n].pc = "hop"
    BY <1>1, <1>4 DEF Hop, FingerType
  <2>2. CASE Found(n) /\ UNCHANGED known
    <3>1. /\ job'[n] = [job[n] EXCEPT !.pc = IF job[n].goal = "update"
                                             THEN "updateFinger" ELSE "found"]
          /\ Steps(n)
      BY <1>1, <2>2 DEF Found, Steps
    <3>2. Fits(job'[n])
      BY <1>1, <2>1, <3>1 DEF Fits, Search, Job
    <3>3. job'[n] \in Job
      BY <1>1, <3>1 DEF Job
    <3> QED
      BY <1>1, <2>1, <2>2, <3>1, <3>2, <3>3, StepType DEF KnownType
  <2>3. ASSUME NEW next, next = ClosestPrecedingFinger(cur, job[n].key),
               CanCall(by, cur), known' = Read(by, cur, next),
               job' = [job EXCEPT ![n].pc = "successor", ![n].cur = next]
        PROVE  TypeInvariant' /\ Steps(n)
    <3>1. job'[n] = [job[n] EXCEPT !.pc = "successor", !.cur = next] /\ Steps(n)
      BY <1>1, <2>3 DEF Steps
    <3>2. cur \in Node
      BY <1>2, <2>3
    <3>3. next \in Node \cup {NoNode}
      BY <1>1, <2>3, <3>2, PrecedingIsFinger DEF FingerType, Preceding
    <3>4. KnownType'
      BY <1>1, <1>2, <2>3, <3>2, <3>3, CalledKeepsType DEF KnownType
    <3>5. Fits(job'[n])
      BY <1>1, <2>1, <3>1 DEF Fits, Search, Job
    <3>6. job'[n] \in Job
      BY <1>1, <3>1, <3>3 DEF Job
    <3> QED
      BY <2>1, <3>1, <3>4, <3>5, <3>6, StepType
  <2> QED
    BY <1>4, <2>2, <2>3 DEF Hop
<1>5. CASE ReadSuccessor(n)
  <2>1. job'[n] = [job[n] EXCEPT !.pc = "hop", !.succ = finger[cur][0]] /\ Steps(n)
    BY <1>1, <1>5 DEF ReadSuccessor, Steps
  <2>2. cur \in Node /\ finger[cur][0] \in Node \cup {NoNode}
    BY <1>2, <1>5 DEF ReadSuccessor
  <2>3. Fits(job'[n])
    BY <1>1, <1>5, <2>1 DEF ReadSuccessor, Fits, Search, Job
  <2>4. job'[n] \in Job
    BY <1>1, <2>1, <2>2 DEF Job
  <2>5. KnownType'
    BY <1>1, <1>2, <1>5, <2>2, CalledKeepsType DEF ReadSuccessor, KnownType
  <2>6. FingerType' /\ predecessor' \in [Node -> Node \cup {NoNode}]
    BY <1>1, <1>5 DEF ReadSuccessor, FingerType
  <2> QED
    BY <2>1, <2>3, <2>4, <2>5, <2>6, StepType
<1>6. CASE Answer(n)
  <2> DEFINE result == finger[cur][0]
  <2>1. /\ job'[n] = [NewJob(n) EXCEPT !.pc = "in", !.result = result]
        /\ Steps(n) /\ FindSuccessor(n, "lookup", result)
    BY <1>1, <1>6 DEF Answer, Steps
  <2>2. result \in Node \cup {NoNode} /\ KnownType'
    BY <2>1, FindSuccessorType
  <2>3. Fits(job'[n])
    BY <2>1 DEF Fits, Search, NewJob
  <2>4. job'[n] \in Job
    BY <2>1, <2>2, Numbers DEF Job, NewJob
  <2>5. FingerType' /\ predecessor' \in [Node -> Node \cup {NoNode}]
    BY <1>1, <1>6 DEF Answer, FingerType
  <2> QED
    BY <2>1, <2>2, <2>3, <2>4, <2>5, StepType
<1> QED
  BY <1>3, <1>4, <1>5, <1>6

LEMMA LinkType ==
  ASSUME TypeInvariant, NEW n \in Node,
         SetFirstFinger(n) \/ GetPredecessor(n) \/ SetPredecessor(n) \/ SetSuccessor(n)
  PROVE  TypeInvariant' /\ Steps(n)
<1>1. /\ job[n] \in Job /\ Fits(job[n]) /\ job \in [Node -> Job]
      /\ FingerType /\ KnownType /\ predecessor \in [Node -> Node \cup {NoNode}]
  BY DEF TypeInvariant, TypeOK, Indexed, FingerType, KnownType
<1> DEFINE succ == finger[n][0]
<1>2. \A b : CanCall(n, b) => b \in Node
  BY CallType DEF TypeInvariant
<1>3. CASE SetFirstFinger(n)
  <2> DEFINE result == finger[job[n].cur][0]
  <2>1. /\ job'[n] = [job[n] EXCEPT !.pc = "getPredecessor", !.by = n]
        /\ Steps(n) /\ FindSuccessor(n, "successor", result)
    BY <1>1, <1>3 DEF SetFirstFinger, Steps
  <2>2. result \in Node \cup {NoNode} /\ KnownType'
    BY <2>1, FindSuccessorType
  <2>3. Fits(job'[n])
    BY <1>1, <2>1 DEF FindSuccessor, Fits, Search, Job
  <2>4. job'[n] \in Job
    BY <1>1, <2>1 DEF Job
  <2>5. FingerType' /\ predecessor' \in [Node -> Node \cup {NoNode}]
    BY <1>1, <1>3, <2>2, Numbers DEF SetFirstFinger, FingerType
  <2> QED
    BY <2>1, <2>2, <2>3, <2>4, <2>5, StepType
<1>4. CASE GetPredecessor(n)
  <2>1. job'[n] = [job[n] EXCEPT !.pc = "setPredecessor"] /\ Steps(n)
    BY <1>1, <1>4 DEF GetPredecessor, Steps
  <2>2. succ \in Node /\ predecessor[succ] \in Node \cup {NoNode}
    BY <1>1, <1>2, <1>4 DEF GetPredecessor
  <2>3. Fits(job'[n])
    BY <1>1, <1>4, <2>1 DEF GetPredecessor, Fits, Search, Job
  <2>4. job'[n] \in Job
    BY <1>1, <2>1 DEF Job
  <2>5. KnownType'
    BY <1>1, <1>4, <2>2, CalledKeepsType DEF GetPredecessor, KnownType
  <2>6. FingerType' /\ predecessor' \in [Node -> Node \cup {NoNode}]
    BY <1>1, <1>4, <2>2 DEF GetPredecessor, FingerType
  <2> QED
    BY <2>1, <2>3, <2>4, <2>5, <2>6, StepType
<1>5. CASE SetPredecessor(n)
  <2>1. job'[n] = [job[n] EXCEPT !.pc = "setSuccessor"] /\ Steps(n)
    BY <1>1, <1>5 DEF SetPredecessor, Steps
  <2>2. succ \in Node
    BY <1>2, <1>5 DEF SetPredecessor
  <2>3. Fits(job'[n])
    BY <1>1, <1>5, <2>1 DEF SetPredecessor, Fits, Search, Job
  <2>4. job'[n] \in Job
    BY <1>1, <2>1 DEF Job
  <2>5. KnownType'
    BY <1>1, <1>5, <2>2, CalledKeepsType DEF SetPredecessor, KnownType
  <2>6. FingerType' /\ predecessor' \in [Node -> Node \cup {NoNode}]
    BY <1>1, <1>5 DEF SetPredecessor, FingerType
  <2> QED
    BY <2>1, <2>3, <2>4, <2>5, <2>6, StepType
<1>6. CASE SetSuccessor(n)
  <2>1. job'[n] = [job[n] EXCEPT !.pc = "initFingers", !.goal = "finger", !.i = 0] /\ Steps(n)
    BY <1>1, <1>6 DEF SetSuccessor, Steps
  <2>2. predecessor[n] \in Node
    BY <1>2, <1>6 DEF SetSuccessor
  <2>3. Fits(job'[n])
    BY <1>1, <1>6, <2>1, Numbers DEF SetSuccessor, Fits, Search, Job
  <2>4. job'[n] \in Job
    BY <1>1, <2>1, Numbers DEF Job
  <2>5. KnownType'
    BY <1>1, <1>6, <2>2, CalledKeepsType DEF SetSuccessor, KnownType
  <2>6. FingerType' /\ predecessor' \in [Node -> Node \cup {NoNode}]
    BY <1>1, <1>6, Numbers DEF SetSuccessor, FingerType
  <2> QED
    BY <2>1, <2>3, <2>4, <2>5, <2>6, StepType
<1> QED
  BY <1>3, <1>4, <1>5, <1>6

LEMMA InitFingersType ==
  ASSUME TypeInvariant, NEW n \in Node, InitFinger(n) \/ SetFinger(n)
  PROVE  TypeInvariant' /\ Steps(n)
<1>1. /\ job[n] \in Job /\ Fits(job[n]) /\ job \in [Node -> Job]
      /\ FingerType /\ KnownType /\ predecessor \in [Node -> Node \cup {NoNode}]
  BY DEF TypeInvariant, TypeOK, Indexed, FingerType, KnownType
<1>2. job[n].i \in 0 .. M /\ job[n].i < M - 1
  BY <1>1 DEF InitFinger, SetFinger, FindSuccessor, Fits, Search, Job
<1>3. job[n].i \in Index /\ job[n].i + 1 \in Index /\ job[n].i + 1 \in 0 .. M
  BY <1>2, Numbers DEF Index
<1>4. CASE InitFinger(n)
  <2> DEFINE i == job[n].i
             start == FingerStart(n, i + 1)
  <2>1. KnownType' /\ predecessor' \in [Node -> Node \cup {NoNode}]
    BY <1>1, <1>4 DEF InitFinger, KnownType
  <2>2. CASE IsBetweenLeftClosedRightOpen(start, n, IdOf(finger[n][i]))
    <3>1. job'[n] = [job[n] EXCEPT !.i = i + 1] /\ Steps(n)
      BY <1>1, <1>4, <2>2 DEF InitFinger, Steps
    <3>2. finger' = [finger EXCEPT ![n][i + 1] = finger[n][i]]
      BY <1>4, <2>2 DEF InitFinger
    <3>3. FingerType'
      BY <1>1, <1>3, <3>2 DEF FingerType
    <3>4. Fits(job'[n])
      BY <1>1, <1>2, <1>4, <3>1, Numbers DEF InitFinger, Fits, Search, Job
    <3>5. job'[n] \in Job
      BY <1>1, <1>3, <3>1 DEF Job
    <3> QED
      BY <2>1, <3>1, <3>3, <3>4, <3>5, StepType
  <2>3. CASE ~IsBetweenLeftClosedRightOpen(start, n, IdOf(finger[n][i]))
    <3>1. /\ job'[n] = [job[n] EXCEPT !.pc = "ask", !.goal = "finger", !.key = start,
                                      !.by = job[n].existing]
          /\ Steps(n) /\ UNCHANGED finger
      BY <1>1, <1>4, <2>3 DEF InitFinger, Steps
    <3>2. start \in Key
      BY <1>3, KeysOnCircle
    <3>3. Fits(job'[n])
      BY <1>1, <1>2, <1>4, <3>1, Numbers DEF Fits, Search, Job
    <3>4. job'[n] \in Job
      BY <1>1, <3>1, <3>2 DEF Job
    <3> QED
      BY <1>1, <2>1, <3>1, <3>3, <3>4, StepType DEF FingerType
  <2> QED
    BY <2>2, <2>3
<1>5. CASE SetFinger(n)
  <2> DEFINE result == finger[job[n].cur][0]
  <2>1. /\ job'[n] = [job[n] EXCEPT !.pc = "initFingers", !.by = n, !.i = @ + 1]
        /\ Steps(n) /\ FindSuccessor(n, "finger", result)
    BY <1>1, <1>5 DEF SetFinger, Steps
  <2>2. result \in Node \cup {NoNode} /\ KnownType'
    BY <2>1, FindSuccessorType
  <2>3. Fits(job'[n])
    BY <1>1, <1>2, <2>1, Numbers DEF FindSuccessor, Fits, Search, Job
  <2>4. job'[n] \in Job
    BY <1>1, <1>3, <2>1 DEF Job
  <2>5. FingerType' /\ predecessor' \in [Node -> Node \cup {NoNode}]
    BY <1>1, <1>3, <1>5, <2>2 DEF SetFinger, FingerType
  <2> QED
    BY <2>1, <2>2, <2>3, <2>4, <2>5, StepType
<1> QED
  BY <1>4, <1>5

\* NextUpdate counts on after a finger of others has been set or left.
LEMMA NextUpdateType ==
  ASSUME TypeInvariant, NEW n \in Node, job[n].pc = "updateFinger", NextUpdate(n),
         FingerType', KnownType', predecessor' \in [Node -> Node \cup {NoNode}]
  PROVE  TypeInvariant' /\ Steps(n)
<1>1. /\ job[n] \in Job /\ Fits(job[n]) /\ job \in [Node -> Job]
      /\ FingerType /\ KnownType /\ predecessor \in [Node -> Node \cup {NoNode}]
  BY DEF TypeInvariant, TypeOK, Indexed, FingerType, KnownType
<1>2. job'[n] = [job[n] EXCEPT !.pc = "updateOthers", !.by = n, !.i = @ + 1] /\ Steps(n)
  BY <1>1 DEF NextUpdate, Steps
<1>3. job[n].i \in 0 .. M /\ job[n].i < M /\ job[n].goal = "update"
  BY <1>1 DEF Fits, Job
<1>4. Fits(job'[n])
  BY <1>1, <1>2, <1>3 DEF Fits, Search, Job
<1>5. job[n].i + 1 \in 0 .. M
  BY <1>3, Numbers
<1>6. job'[n] \in Job
  BY <1>1, <1>2, <1>5 DEF Job
<1> QED
  BY <1>2, <1>4, <1>6, StepType

LEMMA UpdateType ==
  ASSUME TypeInvariant, NEW n \in Node, UpdateOthers(n) \/ UpdateDone(n) \/ UpdateFinger(n)
  PROVE  TypeInvariant' /\ Steps(n)
<1>1. /\ job[n] \in Job /\ Fits(job[n]) /\ job \in [Node -> Job]
      /\ FingerType /\ KnownType /\ predecessor \in [Node -> Node \cup {NoNode}]
  BY DEF TypeInvariant, TypeOK, Indexed, FingerType, KnownType
<1>2. job[n].i \in 0 .. M
  BY <1>1 DEF Job
<1>3. CASE UpdateOthers(n)
  <2>1. FingerType' /\ KnownType' /\ predecessor' \in [Node -> Node \cup {NoNode}]
    BY <1>1, <1>3 DEF UpdateOthers, FingerType, KnownType
  <2>2. CASE /\ job[n].pc = "initFingers"
             /\ job' = [job EXCEPT ![n].pc = "updateOthers", ![n].i = 0]
    <3>1. job'[n] = [job[n] EXCEPT !.pc = "updateOthers", !.i = 0] /\ Steps(n)
      BY <1>1, <2>2 DEF Steps
    <3>2. Fits(job'[n])
      BY <1>1, <2>2, <3>1 DEF Fits, Search, Job
    <3>3. job'[n] \in Job
      BY <1>1, <3>1, Numbers DEF Job
    <3> QED
      BY <2>1, <3>1, <3>2, <3>3, StepType
  <2>3. CASE /\ job[n].pc = "updateOthers" /\ job[n].i < M
             /\ job' = [job EXCEPT ![n].pc = "ask", ![n].goal = "update", ![n].by = n,
                                   ![n].key = SubtractInt(n, 2 ^ job[n].i)]
    <3>1. /\ job'[n] = [job[n] EXCEPT !.pc = "ask", !.goal = "update", !.by = n,
                                      !.key = SubtractInt(n, 2 ^ job[n].i)]
          /\ Steps(n)
      BY <1>1, <2>3 DEF Steps
    <3>2. SubtractInt(n, 2 ^ job[n].i) \in Key
      BY <1>2, KeysOnCircle
    <3>3. Fits(job'[n])
      BY <1>1, <2>3, <3>1 DEF Fits, Search, Job
    <3>4. job'[n] \in Job
      BY <1>1, <3>1, <3>2 DEF Job
    <3> QED
      BY <2>1, <3>1, <3>3, <3>4, StepType
  <2>4. CASE /\ job[n].pc = "updateOthers"
             /\ job' = [job EXCEPT ![n] = [NewJob(n) EXCEPT !.pc = "in"]]
    <3>1. job'[n] = [NewJob(n) EXCEPT !.pc = "in"] /\ Steps(n)
      BY <1>1, <2>4 DEF Steps
    <3>2. Fits(job'[n])
      BY <3>1 DEF Fits, Search, NewJob
    <3>3. job'[n] \in Job
      BY <3>1, Numbers DEF Job, NewJob
    <3> QED
      BY <2>1, <3>1, <3>2, <3>3, StepType
  <2> QED
    BY <1>3, <2>2, <2>3, <2>4 DEF UpdateOthers
<1>4. CASE UpdateDone(n)
  BY <1>1, <1>4, NextUpdateType DEF UpdateDone, FingerType, KnownType
<1>5. CASE UpdateFinger(n)
  <2> DEFINE p == job[n].cur
             by == job[n].by
             i  == job[n].i
  <2>1. /\ by \in Node /\ p \in Node /\ job[n].pc = "updateFinger" /\ i < M
        /\ predecessor' \in [Node -> Node \cup {NoNode}]
    BY <1>1, <1>5, CallType DEF UpdateFinger, TypeInvariant, Fits, Job
  <2>2. KnownType'
    BY <1>1, <1>5, <2>1, CalledKeepsType DEF UpdateFinger, KnownType
  <2>3. CASE NextUpdate(n) /\ UNCHANGED finger
    BY <1>1, <2>1, <2>2, <2>3, NextUpdateType DEF FingerType
  <2>4. CASE /\ finger' = [finger EXCEPT ![p][i] = n]
             /\ job' = [job EXCEPT ![n].by = p, ![n].cur = predecessor[p]]
    <3>1. job'[n] = [job[n] EXCEPT !.by = p, !.cur = predecessor[p]] /\ Steps(n)
      BY <1>1, <2>4 DEF Steps
    <3>2. i \in Index
      BY <1>2, <2>1, Numbers DEF Index
    <3>3. FingerType'
      BY <1>1, <2>1, <2>4, <3>2 DEF FingerType
    <3>4. predecessor[p] \in Node \cup {NoNode}
      BY <1>1, <2>1
    <3>5. Fits(job'[n])
      BY <1>1, <2>1, <3>1 DEF Fits, Search, Job
    <3>6. job'[n] \in Job
      BY <1>1, <2>1, <3>1, <3>4 DEF Job
    <3> QED
      BY <2>1, <2>2, <3>1, <3>3, <3>5, <3>6, StepType
  <2> QED
    BY <1>5, <2>3, <2>4 DEF UpdateFinger
<1> QED
  BY <1>3, <1>4, <1>5

LEMMA FailType ==
  ASSUME TypeInvariant, NEW n \in Node, Fail(n)
  PROVE  TypeInvariant' /\ Steps(n)
<1>1. /\ job[n] \in Job /\ Fits(job[n]) /\ job \in [Node -> Job]
      /\ FingerType /\ KnownType /\ predecessor \in [Node -> Node \cup {NoNode}]
  BY DEF TypeInvariant, TypeOK, Indexed, FingerType, KnownType
<1>2. FingerType' /\ KnownType' /\ predecessor' \in [Node -> Node \cup {NoNode}]
  BY <1>1 DEF Fail, FingerType, KnownType
<1>3. CASE job[n].pc = "updateFinger" /\ NextUpdate(n)
  BY <1>2, <1>3, NextUpdateType
<1>4. CASE job' = [job EXCEPT ![n] = [NewJob(n) EXCEPT !.pc = IF n \in Joined THEN "in" ELSE "out"]]
  <2>1. /\ job'[n] = [NewJob(n) EXCEPT !.pc = IF n \in Joined THEN "in" ELSE "out"]
        /\ Steps(n)
    BY <1>1, <1>4 DEF Steps
  <2>2. Fits(job'[n])
    BY <2>1 DEF Fits, Search, NewJob
  <2>3. job'[n] \in Job
    BY <2>1, Numbers DEF Job, NewJob
  <2> QED
    BY <1>2, <2>1, <2>2, <2>3, StepType
<1> QED
  BY <1>3, <1>4 DEF Fail

LEMMA NextType == TypeInvariant /\ [Next]_vars => TypeInvariant'
<1> SUFFICES ASSUME TypeInvariant, [Next]_vars PROVE TypeInvariant'
  OBVIOUS
<1>1. CASE UNCHANGED vars
  BY <1>1 DEF vars, TypeInvariant, TypeOK, Indexed, Fits, Search
<1>2. ASSUME NEW n \in Node, Step(n) PROVE TypeInvariant'
  BY <1>2, SearchType, LinkType, InitFingersType, UpdateType, FailType DEF Step
<1> QED
  BY <1>1, <1>2, StartType DEF Next

\* However joins and look-ups interleave and fail, the identifiers that are
\* searched for are on the circle and no finger outside the table is set.
THEOREM ChordTypeCorrect == Spec => []TypeOK
<1>1. TypeInvariant => TypeOK
  BY DEF TypeInvariant
<1> QED
  BY <1>1, InitType, NextType, PTL DEF Spec

-----------------------------------------------------------------------------
(* The ring, when nodes join one at a time. *)

\* The members' predecessors, with p their successors' inverse.
Linked(p) == \A q \in Members : /\ p[q] \in Members /\ finger[p[q]][0] = q
                                /\ p[finger[q][0]] = q

\* Whoever a node that joins searches at is a member.
Searching(n) == LET j == job[n] IN
  /\ j.existing \in Members
  /\ j.pc = "ask" => j.by \in Members
  /\ j.pc \in {"hop", "found", "updateFinger"} => j.cur \in Members
  /\ j.pc = "successor" => j.cur \in Members \cup {NoNode}

\* While it is no member itself, what it has found is its place in the ring.
\* Between rpcSetPredecessor and rpcSetSuccessor its successor is ahead of the
\* ring: the predecessors fit together but for that one.
Placed(n) == LET j == job[n]
                 succ == finger[n][0] IN
  /\ j.key = FingerStart(n, 0)
  /\ j.pc = "hop" => j.succ = finger[j.cur][0]
  /\ j.pc = "found" => Gap(j.cur, j.key) <= Gap(j.cur, finger[j.cur][0])
  /\ j.pc \in {"getPredecessor", "setPredecessor", "setSuccessor"} => OnRing(n)
  /\ j.pc = "setPredecessor" => predecessor[n] = predecessor[succ]
  /\ j.pc = "setSuccessor" => /\ Linked([predecessor EXCEPT ![succ] = predecessor[n]])
                              /\ predecessor[succ] = n

OneJoins == \A n, m \in Joining : n = m
FingersAreMembers == \A n \in Node : \A i \in Index : finger[n][i] \in Members \cup {NoNode}
PredecessorsLinked == (\A n \in Joining : job[n].pc # "setSuccessor") => Linked(predecessor)
JoinsProceed == \A n \in Joining : Searching(n) /\ (job[n].goal = "successor" => Placed(n))
RingInvariant == OneJoins /\ FingersAreMembers /\ SuccessorsFormRing /\ PredecessorsLinked /\ JoinsProceed

\* Steps on the circle: c, then n, then f, then m.
LEMMA GapRange ==
  ASSUME NEW a \in Key, NEW b \in Key
  PROVE  Gap(a, b) \in 1 .. Size /\ Gap(a, a) = Size /\ (a # b => Dist(a, b) = Gap(a, b))
BY KeyRange DEF Gap, Dist, Key

\* If f follows c on the ring and n's successor key lies between them, f follows n.
LEMMA FoundIsNext ==
  ASSUME NEW c \in Key, NEW n \in Key, NEW f \in Key, NEW m \in Key, n # c, n # f, n # m,
         Gap(c, AddInt(n, 1)) <= Gap(c, f), Gap(c, f) <= Gap(c, m)
  PROVE  Gap(n, f) <= Gap(n, m)
<1>1. /\ Size \in Nat \ {0} /\ c \in Int /\ n \in Int /\ f \in Int /\ m \in Int
      /\ 0 <= c /\ c < Size /\ 0 <= n /\ n < Size /\ 0 <= f /\ f < Size /\ 0 <= m /\ m < Size
  BY KeyRange DEF Key
<1>2. AddInt(n, 1) = IF n + 1 = Size THEN 0 ELSE n + 1
  BY <1>1 DEF AddInt
<1>3. Gap(c, n) < Gap(c, f)
  BY <1>1, <1>2 DEF Gap
<1> QED
  BY <1>1, <1>3 DEF Gap

\* A node that comes before p's successor is p's next.
LEMMA NewIsNext ==
  ASSUME NEW p \in Key, NEW n \in Key, NEW s \in Key, n # p, n # s, Gap(n, s) <= Gap(n, p)
  PROVE  Gap(p, n) < Gap(p, s)
<1>1. /\ Size \in Nat \ {0} /\ p \in Int /\ n \in Int /\ s \in Int
      /\ 0 <= p /\ p < Size /\ 0 <= n /\ n < Size /\ 0 <= s /\ s < Size
  BY KeyRange DEF Key
<1> QED
  BY <1>1 DEF Gap

\* And nobody else's: q's successor f stays nearer.
LEMMA NewIsNobodyElses ==
  ASSUME NEW p \in Key, NEW n \in Key, NEW s \in Key, NEW q \in Key, NEW f \in Key,
         n # p, n # s, q # p, n # q,
         Gap(p, n) < Gap(p, s), Gap(p, s) <= Gap(p, q), Gap(q, f) <= Gap(q, p)
  PROVE  Gap(q, f) <= Gap(q, n)
<1>1. /\ Size \in Nat \ {0} /\ p \in Int /\ n \in Int /\ s \in Int /\ q \in Int /\ f \in Int
      /\ 0 <= p /\ p < Size /\ 0 <= n /\ n < Size /\ 0 <= s /\ s < Size
      /\ 0 <= q /\ q < Size /\ 0 <= f /\ f < Size
  BY KeyRange DEF Key
<1>2. Gap(p, n) < Gap(p, q)
  BY <1>1 DEF Gap
<1>3. Gap(q, p) < Gap(q, n)
  BY <1>1, <1>2 DEF Gap
<1> QED
  BY <1>1, <1>3 DEF Gap

LEMMA NodesAreKeys ==
  /\ Node \subseteq Key /\ NoNode \notin Node /\ \A n \in Node : IdOf(n) = n
  /\ Members \subseteq Node /\ Joining \subseteq Node /\ Joined \subseteq Node
  /\ Members \subseteq Joined \cup Joining
BY NodeAssumption DEF IdOf, Members, Joining, Joined

\* A step of n's job decides about n alone.
LEMMA Membership ==
  ASSUME NEW n \in Node, Steps(n)
  PROVE  /\ \A q \in Node \ {n} : /\ job'[q] = job[q]
                                  /\ q \in Members' <=> q \in Members
                                  /\ q \in Joining' <=> q \in Joining
         /\ n \in Members' <=> job'[n].pc # "out" /\ job'[n].goal # "successor"
         /\ n \in Joining' <=> job'[n].pc # "out" /\ job'[n].goal # "lookup"
         /\ Members' \subseteq Node /\ Joining' \subseteq Node
BY DEF Steps, Members, Joining

\* A step of a node that does not join, and links nothing.
LEMMA BystanderKeepsRing ==
  ASSUME RingInvariant, NEW n \in Node \ Joining, Steps(n), UNCHANGED <<finger, predecessor>>,
         n \notin Joining', n \in Members' <=> n \in Members
  PROVE  RingInvariant'
<1>1. /\ Members' = Members /\ Joining' = Joining
      /\ \A q \in Joining : job'[q] = job[q]
  BY Membership, NodesAreKeys
<1>2. OneJoins' /\ FingersAreMembers' /\ SuccessorsFormRing'
  BY <1>1 DEF RingInvariant, OneJoins, FingersAreMembers, SuccessorsFormRing, OnRing
<1>3. PredecessorsLinked'
  BY <1>1 DEF RingInvariant, PredecessorsLinked, Linked
<1>4. ASSUME NEW q \in Joining PROVE Searching(q)' /\ (job'[q].goal = "successor" => Placed(q)')
  <2>1. Searching(q) /\ (job[q].goal = "successor" => Placed(q)) /\ job'[q] = job[q]
    BY <1>1 DEF RingInvariant, JoinsProceed
  <2>2. Searching(q)'
    BY <1>1, <2>1 DEF Searching
  <2>3. ASSUME job'[q].goal = "successor" PROVE Placed(q)'
    BY <1>1, <2>1, <2>3 DEF Placed, OnRing, Linked
  <2> QED
    BY <2>2, <2>3
<1> QED
  BY <1>1, <1>2, <1>3, <1>4 DEF RingInvariant, JoinsProceed

\* A step of the node that joins that leaves the members linked as they are.
LEMMA JoinerKeepsRing ==
  ASSUME RingInvariant, NEW n \in Joining, Steps(n), Members' = Members,
         \A q \in Members : finger'[q][0] = finger[q][0] /\ predecessor'[q] = predecessor[q],
         FingersAreMembers', job[n].pc # "setSuccessor",
         n \in Joining' => /\ Searching(n)'
                           /\ job'[n].goal = "successor" => Placed(n)'
  PROVE  RingInvariant'
<1>1. n \in Node /\ \A q \in Joining' : q = n
  BY Membership, NodesAreKeys DEF RingInvariant, OneJoins
<1>2. OneJoins' /\ SuccessorsFormRing'
  BY <1>1 DEF RingInvariant, OneJoins, SuccessorsFormRing, OnRing
<1>3. Linked(predecessor)
  BY DEF RingInvariant, OneJoins, PredecessorsLinked
<1>4. \A q \in Members : predecessor[q] \in Members /\ finger[q][0] \in Members
  BY <1>3 DEF Linked, RingInvariant, SuccessorsFormRing, OnRing
<1>5. Linked(predecessor)'
  BY <1>3, <1>4 DEF Linked
<1> QED
  BY <1>1, <1>2, <1>5 DEF RingInvariant, PredecessorsLinked, JoinsProceed

\* A ring begins with one node.
LEMMA FirstNodeIsRing ==
  ASSUME TypeInvariant, RingInvariant, NEW n \in Node, JoinFirst(n)
  PROVE  RingInvariant'
<1>1. /\ job[n] \in Job /\ Fits(job[n]) /\ job \in [Node -> Job] /\ n \in Node
      /\ FingerType /\ KnownType /\ predecessor \in [Node -> Node \cup {NoNode}]
  BY NodesAreKeys DEF TypeInvariant, TypeOK, Indexed, FingerType, KnownType
<1>2. Joining = {} /\ Members = {} /\ job[n].pc = "out" /\ job[n].goal = "lookup"
  BY <1>1, NodesAreKeys DEF JoinFirst, Joined, Joining, Fits
<1>3. Steps(n) /\ job'[n].pc = "in" /\ job'[n].goal = "lookup"
  BY <1>1, <1>2, StartType DEF JoinFirst, Job
<1>4. Joining' = {} /\ Members' = {n}
  BY <1>2, <1>3, Membership
<1>5. /\ finger'[n] = [i \in Index |-> n] /\ predecessor'[n] = n
      /\ \A q \in Node \ {n} : finger'[q] = finger[q]
  BY <1>1 DEF JoinFirst, FingerType
<1>6. FingersAreMembers'
  BY <1>2, <1>4, <1>5 DEF FingersAreMembers, RingInvariant
<1>7. finger'[n][0] = n
  BY <1>5, Numbers
<1>8. SuccessorsFormRing' /\ Linked(predecessor)'
  <2>1. Gap(n, n) \in Int
    BY NodesAreKeys, GapRange
  <2>2. SuccessorsFormRing'
    BY <1>4, <1>7, <2>1 DEF SuccessorsFormRing, OnRing
  <2>3. Linked(predecessor)'
    BY <1>4, <1>5, <1>7 DEF Linked
  <2> QED
    BY <2>2, <2>3
<1> QED
  BY <1>4, <1>6, <1>8 DEF RingInvariant, OneJoins, PredecessorsLinked, JoinsProceed

\* A look-up that fails leaves its node in the ring.
LEMMA LookUpFails ==
  ASSUME TypeInvariant, NEW n \in Node, job[n].goal = "lookup", Fail(n)
  PROVE  /\ job'[n] = [NewJob(n) EXCEPT !.pc = "in"]
         /\ job'[n].pc = "in" /\ job'[n].goal = "lookup"
<1>1. job \in [Node -> Job] /\ Fits(job[n]) /\ job[n].pc # "out"
  BY DEF TypeInvariant, TypeOK, Indexed, Fail, Lost
<1>2. n \in Joined /\ job[n].pc # "updateFinger"
  BY <1>1 DEF Joined, Fits
<1>3. job'[n] = [NewJob(n) EXCEPT !.pc = "in"]
  BY <1>1, <1>2 DEF Fail
<1> QED
  BY <1>3 DEF NewJob

\* A look-up moves nothing.
LEMMA LookUpKeepsRing ==
  ASSUME TypeInvariant, RingInvariant, NEW n \in Node \ Joining,
         Step(n) \/ \E key \in Asked : LookUp(n, key)
  PROVE  RingInvariant'
<1>1. /\ job[n] \in Job /\ Fits(job[n]) /\ job \in [Node -> Job] /\ n \in Node
      /\ FingerType /\ KnownType /\ predecessor \in [Node -> Node \cup {NoNode}]
  BY NodesAreKeys DEF TypeInvariant, TypeOK, Indexed, FingerType, KnownType
<1>2. CASE Step(n)
  <2>1. job[n].pc # "out" /\ job[n].goal = "lookup"
    <3>1. job[n].pc # "out"
      BY <1>2 DEF Step, Ask, Hop, ReadSuccessor, Answer, SetFirstFinger, GetPredecessor,
                  SetPredecessor, SetSuccessor, InitFinger, SetFinger, FindSuccessor,
                  UpdateOthers, UpdateDone, UpdateFinger, Fail, Lost
    <3> QED
      BY <3>1 DEF Joining
  <2>2. Ask(n) \/ Hop(n) \/ ReadSuccessor(n) \/ Answer(n) \/ Fail(n)
    BY <1>1, <1>2, <2>1 DEF Step, SetFirstFinger, GetPredecessor,
                  SetPredecessor, SetSuccessor, InitFinger, SetFinger, FindSuccessor,
                  UpdateOthers, UpdateDone, UpdateFinger, Fits
  <2>3. Steps(n) /\ UNCHANGED <<finger, predecessor>>
    BY <2>2, SearchType, FailType DEF Ask, Hop, ReadSuccessor, Answer, Fail
  <2>4. job'[n].pc # "out" /\ job'[n].goal = "lookup"
    <3>1. CASE Ask(n)
      BY <1>1, <2>1, <3>1 DEF Ask, Job
    <3>2. CASE Hop(n)
      BY <1>1, <2>1, <3>2 DEF Hop, Found, Job
    <3>3. CASE ReadSuccessor(n)
      BY <1>1, <2>1, <3>3 DEF ReadSuccessor, Job
    <3>4. CASE Answer(n)
      BY <1>1, <3>4 DEF Answer, NewJob
    <3>5. CASE Fail(n)
      BY <1>1, <2>1, <3>5, LookUpFails
    <3> QED
      BY <2>2, <3>1, <3>2, <3>3, <3>4, <3>5
  <2> QED
    BY <2>1, <2>3, <2>4, Membership, BystanderKeepsRing DEF Members
<1>3. ASSUME NEW key \in Asked, LookUp(n, key) PROVE RingInvariant'
  <2>1. job[n].pc = "in" /\ job[n].goal = "lookup"
    BY <1>1, <1>3 DEF LookUp, Fits
  <2>2. Steps(n) /\ UNCHANGED <<finger, predecessor>>
    BY <1>3, StartType DEF LookUp
  <2>3. job'[n].pc # "out" /\ job'[n].goal = "lookup"
    BY <1>1, <1>3 DEF LookUp, NewJob
  <2> QED
    BY <2>1, <2>2, <2>3, Membership, BystanderKeepsRing DEF Members
<1> QED
  BY <1>2, <1>3

\* No node joins until the one that does is done.
LEMMA JoinKeepsRing ==
  ASSUME TypeInvariant, RingInvariant, MaxJoins = 1, NEW n \in Node, NEW existing \in Node,
         Join(n, existing)
  PROVE  RingInvariant'
<1>1. /\ job[n] \in Job /\ Fits(job[n]) /\ job \in [Node -> Job] /\ n \in Node
      /\ FingerType /\ KnownType /\ predecessor \in [Node -> Node \cup {NoNode}]
  BY NodesAreKeys DEF TypeInvariant, TypeOK, Indexed, FingerType, KnownType
<1>2. Joining = {}
  <2>1. IsFiniteSet(Key)
    BY Numbers, FS_Interval DEF Key
  <2>2. Joining \in SUBSET Key
    BY NodesAreKeys
  <2>3. IsFiniteSet(Joining)
    BY <2>1, <2>2, FS_Subset
  <2>4. Cardinality(Joining) = 0
    BY <2>3, FS_CardinalityType DEF Join
  <2> QED
    BY <2>3, <2>4, FS_EmptySet
<1>3. /\ Steps(n) /\ UNCHANGED <<finger, predecessor>> /\ existing \in Joined
      /\ job[n].pc = "out"
  BY StartType DEF Join
<1>4. /\ job'[n].pc = "ask" /\ job'[n].goal = "successor" /\ job'[n].existing = existing
      /\ job'[n].by = existing /\ job'[n].key = FingerStart(n, 0)
  BY <1>1 DEF Join, Job
<1>5. Members' = Members /\ Joining' = {n} /\ existing \in Members
  <2>1. n \notin Members /\ existing \in Members
    BY <1>3 DEF Members, Joined
  <2> QED
    BY <1>2, <1>3, <1>4, <2>1, Membership, NodesAreKeys
<1>6. OneJoins' /\ FingersAreMembers' /\ SuccessorsFormRing'
  BY <1>3, <1>5 DEF RingInvariant, OneJoins, FingersAreMembers, SuccessorsFormRing, OnRing
<1>7. Linked(predecessor)'
  BY <1>2, <1>3, <1>5 DEF RingInvariant, PredecessorsLinked, Linked
<1>8. Searching(n)' /\ Placed(n)'
  BY <1>4, <1>5 DEF Searching, Placed, FingerStart, AddInt, Size
<1> QED
  BY <1>5, <1>6, <1>7, <1>8 DEF RingInvariant, PredecessorsLinked, JoinsProceed

\* A member's fingers are members, if they are set; its successor is, and so is its
\* predecessor when nobody is being linked.
LEMMA MembersKnowMembers ==
  ASSUME RingInvariant, NEW q \in Members
  PROVE  /\ finger[q][0] \in Members
         /\ \A i \in Index : finger[q][i] \in Members \cup {NoNode}
         /\ \A key : ClosestPrecedingFinger(q, key) \in Members \cup {NoNode}
         /\ Linked(predecessor) => predecessor[q] \in Members
<1>1. finger[q][0] \in Members
  BY DEF RingInvariant, SuccessorsFormRing, OnRing
<1>2. \A i \in Index : finger[q][i] \in Members \cup {NoNode}
  BY NodesAreKeys DEF RingInvariant, FingersAreMembers
<1>3. ASSUME NEW key PROVE ClosestPrecedingFinger(q, key) \in Members \cup {NoNode}
  BY <1>2, PrecedingIsFinger DEF Preceding
<1> QED
  BY <1>1, <1>2, <1>3 DEF Linked

\* Nobody else joins: the ring is linked but while n is at rpcSetSuccessor.
LEMMA JoinerAlone ==
  ASSUME RingInvariant, NEW n \in Joining
  PROVE  /\ Searching(n) /\ (job[n].goal = "successor" => Placed(n))
         /\ job[n].pc # "setSuccessor" => Linked(predecessor)
         /\ \A q \in Joining : q = n
         /\ n \in Node /\ job[n].pc # "out" /\ job[n].goal # "lookup"
         /\ n \in Members <=> job[n].goal # "successor"
BY DEF RingInvariant, OneJoins, PredecessorsLinked, JoinsProceed, Joining, Members

\* A step that does not decide about n's membership.
LEMMA SameMembers ==
  ASSUME NEW n \in Joining, Steps(n), job'[n].pc # "out",
         (job'[n].goal = "successor") <=> (job[n].goal = "successor")
  PROVE  Members' = Members
<1>1. n \in Node /\ (n \in Members <=> n \in Members')
  BY Membership, NodesAreKeys DEF Members, Joining
<1> QED
  BY <1>1, Membership, NodesAreKeys

\* findPredecessor goes from member to member, and ends at the one before the key.
LEMMA SearchKeepsRing ==
  ASSUME TypeInvariant, RingInvariant, NEW n \in Joining,
         Ask(n) \/ Hop(n) \/ ReadSuccessor(n)
  PROVE  RingInvariant'
<1>1. /\ job[n] \in Job /\ Fits(job[n]) /\ job \in [Node -> Job] /\ n \in Node
      /\ FingerType /\ KnownType /\ predecessor \in [Node -> Node \cup {NoNode}]
  BY NodesAreKeys DEF TypeInvariant, TypeOK, Indexed, FingerType, KnownType
<1> DEFINE j == job[n]
<1>2. /\ Steps(n) /\ UNCHANGED <<finger, predecessor>> /\ j.pc \in Search
      /\ j.pc # "setSuccessor"
  BY <1>1, SearchType DEF Ask, Hop, ReadSuccessor, Search
<1>3. Searching(n) /\ (j.goal = "successor" => Placed(n))
  BY JoinerAlone
<1>4. ASSUME job'[n].goal = j.goal, job'[n].pc \in Search \cup {"updateFinger"},
             Searching(n)', j.goal = "successor" => Placed(n)'
      PROVE  RingInvariant'
  <2>1. Members' = Members
    BY <1>2, <1>4, SameMembers DEF Search
  <2>2. FingersAreMembers'
    BY <1>2, <2>1 DEF RingInvariant, FingersAreMembers
  <2>3. job'[n].goal = "successor" => Placed(n)'
    BY <1>4
  <2> QED
    BY <1>2, <1>4, <2>1, <2>2, <2>3, JoinerKeepsRing
<1>5. ASSUME job'[n].goal = j.goal, job'[n].pc \in Search \cup {"updateFinger"}
      PROVE  Members' = Members
  BY <1>2, <1>5, SameMembers DEF Search
<1>6. CASE Ask(n)
  <2>1. /\ job'[n] = [j EXCEPT !.pc = "hop", !.cur = j.by, !.succ = finger[j.by][0]]
        /\ j.pc = "ask"
    BY <1>1, <1>6 DEF Ask
  <2>2. Members' = Members /\ job'[n].goal = j.goal /\ job'[n].pc = "hop"
    BY <1>1, <1>5, <2>1 DEF Search, Job
  <2>3. Searching(n)'
    BY <1>1, <1>3, <2>1, <2>2 DEF Searching, Job
  <2>4. ASSUME j.goal = "successor" PROVE Placed(n)'
    BY <1>1, <1>2, <1>3, <2>1, <2>2, <2>4 DEF Placed, Job, FingerStart, AddInt, Size
  <2> QED
    BY <1>4, <2>2, <2>3, <2>4 DEF Search
<1>7. CASE Hop(n) /\ Found(n)
  <2> DEFINE goes == IF j.goal = "update" THEN "updateFinger" ELSE "found"
  <2>1. job'[n] = [j EXCEPT !.pc = goes] /\ j.pc = "hop"
    BY <1>1, <1>7 DEF Hop, Found
  <2>2. Members' = Members /\ job'[n].goal = j.goal /\ job'[n].pc = goes
    BY <1>1, <1>5, <2>1 DEF Search, Job
  <2>3. Searching(n)'
    BY <1>1, <1>3, <2>1, <2>2 DEF Searching, Job
  <2>4. ASSUME j.goal = "successor" PROVE Placed(n)'
    <3>1. j.cur \in Members /\ j.succ = finger[j.cur][0] /\ j.key \in Key
      BY <1>1, <1>3, <2>1, <2>4 DEF Searching, Placed, Job
    <3>2. j.succ \in Members
      BY <3>1, MembersKnowMembers
    <3>3. IsBetweenLeftOpenRightClosed(j.key, j.cur, j.succ)
      <4>1. /\ IdOf(j.cur) = j.cur /\ IdOf(j.succ) = j.succ
        BY <3>1, <3>2, NodesAreKeys
      <4>2. IsBetweenLeftOpenRightClosed(j.key, IdOf(j.cur), IdOf(j.succ))
        BY <1>1, <1>7, <2>1, <2>2 DEF Hop, Job
      <4> QED
        BY <4>1, <4>2
    <3>4. Gap(j.cur, j.key) <= Gap(j.cur, finger[j.cur][0])
      BY <3>1, <3>2, <3>3, ArcsCorrect, NodesAreKeys DEF IntervalsAreArcs
    <3>5. /\ job'[n].key = j.key /\ job'[n].cur = j.cur /\ job'[n].pc = "found"
          /\ j.key = FingerStart(n, 0)
      BY <1>1, <1>3, <2>1, <2>4 DEF Placed, Job
    <3>6. (FingerStart(n, 0))' = FingerStart(n, 0) /\ (Gap(j.cur, j.key))' = Gap(job'[n].cur, job'[n].key)
      BY DEF FingerStart, AddInt, Size, Gap
    <3> QED
      BY <1>2, <3>4, <3>5, <3>6 DEF Placed, Gap, Size
  <2> QED
    BY <1>4, <2>2, <2>3, <2>4 DEF Search
<1>8. CASE Hop(n) /\ ~Found(n)
  <2> DEFINE next == ClosestPrecedingFinger(j.cur, j.key)
  <2>1. job'[n] = [j EXCEPT !.pc = "successor", !.cur = next] /\ j.pc = "hop"
    BY <1>1, <1>8 DEF Hop
  <2>2. Members' = Members /\ job'[n].goal = j.goal /\ job'[n].pc = "successor"
    BY <1>1, <1>5, <2>1 DEF Search, Job
  <2>3. next \in Members \cup {NoNode}
    BY <1>3, <2>1, MembersKnowMembers DEF Searching
  <2>4. Searching(n)'
    BY <1>1, <1>3, <2>1, <2>2, <2>3 DEF Searching, Job
  <2>5. ASSUME j.goal = "successor" PROVE Placed(n)'
    BY <1>1, <1>2, <1>3, <2>1, <2>2, <2>5 DEF Placed, Job, FingerStart, AddInt, Size
  <2> QED
    BY <1>4, <2>2, <2>4, <2>5 DEF Search
<1>9. CASE ReadSuccessor(n)
  <2>1. /\ job'[n] = [j EXCEPT !.pc = "hop", !.succ = finger[j.cur][0]]
        /\ j.pc = "successor" /\ j.cur # NoNode
    BY <1>1, <1>9 DEF ReadSuccessor, CanCall
  <2>2. Members' = Members /\ job'[n].goal = j.goal /\ job'[n].pc = "hop"
    BY <1>1, <1>5, <2>1 DEF Search, Job
  <2>3. Searching(n)'
    BY <1>1, <1>3, <2>1, <2>2 DEF Searching, Job
  <2>4. ASSUME j.goal = "successor" PROVE Placed(n)'
    BY <1>1, <1>2, <1>3, <2>1, <2>2, <2>4 DEF Placed, Job, FingerStart, AddInt, Size
  <2> QED
    BY <1>4, <2>2, <2>3, <2>4 DEF Search
<1> QED
  BY <1>6, <1>7, <1>8, <1>9

\* rpcFindSuccessor finds the successor of the node that joins.
LEMMA FirstFingerKeepsRing ==
  ASSUME TypeInvariant, RingInvariant, NEW n \in Joining, SetFirstFinger(n)
  PROVE  RingInvariant'
<1>1. /\ job[n] \in Job /\ Fits(job[n]) /\ job \in [Node -> Job] /\ n \in Node
      /\ FingerType /\ KnownType /\ predecessor \in [Node -> Node \cup {NoNode}]
  BY NodesAreKeys DEF TypeInvariant, TypeOK, Indexed, FingerType, KnownType
<1> DEFINE c == job[n].cur
           f == finger[c][0]
<1>2. /\ Steps(n) /\ UNCHANGED predecessor /\ job[n].pc = "found" /\ job[n].goal = "successor"
      /\ finger' = [finger EXCEPT ![n][0] = f]
      /\ job'[n] = [job[n] EXCEPT !.pc = "getPredecessor", !.by = n]
  BY <1>1, LinkType DEF SetFirstFinger, FindSuccessor
<1>3. /\ job'[n].pc = "getPredecessor" /\ job'[n].goal = "successor"
      /\ job'[n].existing = job[n].existing /\ job'[n].key = job[n].key
  BY <1>1, <1>2 DEF Job
<1>4. Members' = Members /\ n \notin Members
  BY <1>2, <1>3, SameMembers, JoinerAlone
<1>5. /\ c \in Members /\ f \in Members /\ job[n].key = FingerStart(n, 0)
      /\ job[n].existing \in Members /\ Gap(c, FingerStart(n, 0)) <= Gap(c, f)
  BY <1>2, JoinerAlone, MembersKnowMembers DEF Searching, Placed
<1>6. /\ finger'[n][0] = f /\ \A q \in Node \ {n} : finger'[q] = finger[q]
      /\ \A i \in Index : finger'[n][i] \in {f, finger[n][i]}
  BY <1>1, <1>2, Numbers DEF FingerType
<1>7. FingersAreMembers'
  BY <1>4, <1>5, <1>6 DEF RingInvariant, FingersAreMembers
<1>8. ASSUME NEW m \in Members PROVE Gap(n, f) <= Gap(n, m)
  <2>1. Gap(c, f) <= Gap(c, m)
    BY <1>5 DEF RingInvariant, SuccessorsFormRing, OnRing
  <2>2. FingerStart(n, 0) = AddInt(n, 1)
    BY DEF FingerStart
  <2>3. c \in Key /\ n \in Key /\ f \in Key /\ m \in Key /\ n # c /\ n # f /\ n # m
    BY <1>1, <1>4, <1>5, NodesAreKeys
  <2> QED
    BY <1>5, <2>1, <2>2, <2>3, FoundIsNext
<1>9. OnRing(n)'
  BY <1>4, <1>5, <1>6, <1>8 DEF OnRing, Gap, Size
<1>10. Searching(n)'
  BY <1>3, <1>4, <1>5 DEF Searching
<1>11. Placed(n)'
  BY <1>3, <1>5, <1>9 DEF Placed, FingerStart, AddInt, Size
<1>12. \A q \in Members : finger'[q][0] = finger[q][0] /\ predecessor'[q] = predecessor[q]
  BY <1>2, <1>4, <1>6, NodesAreKeys
<1> QED
  BY <1>2, <1>4, <1>7, <1>10, <1>11, <1>12, JoinerKeepsRing

LEMMA GetPredecessorKeepsRing ==
  ASSUME TypeInvariant, RingInvariant, NEW n \in Joining, GetPredecessor(n)
  PROVE  RingInvariant'
<1>1. /\ job[n] \in Job /\ Fits(job[n]) /\ job \in [Node -> Job] /\ n \in Node
      /\ FingerType /\ KnownType /\ predecessor \in [Node -> Node \cup {NoNode}]
  BY NodesAreKeys DEF TypeInvariant, TypeOK, Indexed, FingerType, KnownType
<1>2. /\ Steps(n) /\ UNCHANGED finger /\ job[n].pc = "getPredecessor"
      /\ job[n].goal = "successor"
      /\ predecessor' = [predecessor EXCEPT ![n] = predecessor[finger[n][0]]]
      /\ job'[n] = [job[n] EXCEPT !.pc = "setPredecessor"]
  BY <1>1, LinkType DEF GetPredecessor, Fits
<1>3. /\ job'[n].pc = "setPredecessor" /\ job'[n].goal = "successor"
      /\ job'[n].existing = job[n].existing /\ job'[n].key = job[n].key
  BY <1>1, <1>2 DEF Job
<1>4. Members' = Members /\ n \notin Members
  BY <1>2, <1>3, SameMembers, JoinerAlone
<1>5. /\ job[n].existing \in Members /\ job[n].key = FingerStart(n, 0) /\ OnRing(n)
      /\ finger[n][0] \in Members
  BY <1>2, JoinerAlone DEF Searching, Placed, OnRing
<1>6. /\ predecessor'[n] = predecessor[finger[n][0]]
      /\ \A q \in Members : predecessor'[q] = predecessor[q]
  BY <1>1, <1>2, <1>4, NodesAreKeys
<1>7. FingersAreMembers'
  BY <1>2, <1>4 DEF RingInvariant, FingersAreMembers
<1>8. Searching(n)'
  BY <1>3, <1>4, <1>5 DEF Searching
<1>9. OnRing(n)'
  BY <1>2, <1>4, <1>5 DEF OnRing
<1>10. Placed(n)'
  BY <1>2, <1>3, <1>5, <1>6, <1>9 DEF Placed, FingerStart, AddInt, Size
<1> QED
  BY <1>2, <1>4, <1>6, <1>7, <1>8, <1>10, JoinerKeepsRing

\* The successor's new predecessor is ahead of the ring.
LEMMA SetPredecessorKeepsRing ==
  ASSUME TypeInvariant, RingInvariant, NEW n \in Joining, SetPredecessor(n)
  PROVE  RingInvariant'
<1>1. /\ job[n] \in Job /\ Fits(job[n]) /\ job \in [Node -> Job] /\ n \in Node
      /\ FingerType /\ KnownType /\ predecessor \in [Node -> Node \cup {NoNode}]
  BY NodesAreKeys DEF TypeInvariant, TypeOK, Indexed, FingerType, KnownType
<1> DEFINE succ == finger[n][0]
<1>2. /\ Steps(n) /\ UNCHANGED finger /\ job[n].pc = "setPredecessor"
      /\ job[n].goal = "successor"
      /\ predecessor' = [predecessor EXCEPT ![succ] = n]
      /\ job'[n] = [job[n] EXCEPT !.pc = "setSuccessor"]
  BY <1>1, LinkType DEF SetPredecessor, Fits
<1>3. /\ job'[n].pc = "setSuccessor" /\ job'[n].goal = "successor"
      /\ job'[n].existing = job[n].existing /\ job'[n].key = job[n].key
  BY <1>1, <1>2 DEF Job
<1>4. /\ Members' = Members /\ n \notin Members
      /\ Joining' \subseteq Joining /\ n \in Joining'
  BY <1>2, <1>3, SameMembers, JoinerAlone, Membership
<1>5. /\ job[n].existing \in Members /\ job[n].key = FingerStart(n, 0) /\ OnRing(n)
      /\ succ \in Members /\ predecessor[n] = predecessor[succ] /\ Linked(predecessor)
  BY <1>2, JoinerAlone DEF Searching, Placed, OnRing
<1>6. predecessor'[succ] = n
  BY <1>1, <1>2, <1>5, NodesAreKeys
<1>7. [predecessor' EXCEPT ![succ] = predecessor'[n]] = predecessor
  BY <1>1, <1>2, <1>4, <1>5, NodesAreKeys
<1>8. OnRing(n)'
  BY <1>2, <1>4, <1>5 DEF OnRing
<1>9. Searching(n)'
  BY <1>3, <1>4, <1>5 DEF Searching
<1>10. Linked([predecessor EXCEPT ![succ] = predecessor[n]])'
  <2>1. \A q \in Members' : /\ predecessor[q] \in Members' /\ finger'[predecessor[q]][0] = q
                            /\ predecessor[finger'[q][0]] = q
    BY <1>2, <1>4, <1>5 DEF Linked
  <2>2. [predecessor' EXCEPT ![finger'[n][0]] = predecessor'[n]] = predecessor
    BY <1>2, <1>7
  <2> QED
    BY <2>1, <2>2 DEF Linked
<1>11. Placed(n)'
  BY <1>2, <1>3, <1>5, <1>6, <1>8, <1>10 DEF Placed, FingerStart, AddInt, Size
<1>12. OneJoins' /\ FingersAreMembers' /\ SuccessorsFormRing'
  BY <1>2, <1>4 DEF RingInvariant, OneJoins, FingersAreMembers, SuccessorsFormRing, OnRing
<1>13. \A q \in Joining' : q = n
  BY <1>4, JoinerAlone
<1> QED
  BY <1>3, <1>4, <1>9, <1>11, <1>12, <1>13 DEF RingInvariant, PredecessorsLinked, JoinsProceed

\* rpcSetSuccessor makes the node that joins a member, between two that were next
\* to each other.
LEMMA SetSuccessorKeepsRing ==
  ASSUME TypeInvariant, RingInvariant, NEW n \in Joining, SetSuccessor(n)
  PROVE  RingInvariant'
<1>1. /\ job[n] \in Job /\ Fits(job[n]) /\ job \in [Node -> Job] /\ n \in Node
      /\ FingerType /\ KnownType /\ predecessor \in [Node -> Node \cup {NoNode}]
  BY NodesAreKeys DEF TypeInvariant, TypeOK, Indexed, FingerType, KnownType
<1> DEFINE succ == finger[n][0]
           pred == predecessor[n]
           before == [predecessor EXCEPT ![succ] = pred]
<1>2. /\ Steps(n) /\ UNCHANGED predecessor /\ job[n].pc = "setSuccessor"
      /\ job[n].goal = "successor"
      /\ finger' = [finger EXCEPT ![pred][0] = n]
      /\ job'[n] = [job[n] EXCEPT !.pc = "initFingers", !.goal = "finger", !.i = 0]
  BY <1>1, LinkType DEF SetSuccessor, Fits
<1>3. /\ job'[n].pc = "initFingers" /\ job'[n].goal = "finger"
      /\ job'[n].existing = job[n].existing
  BY <1>1, <1>2 DEF Job
<1>4. Members' = Members \cup {n} /\ n \notin Members /\ \A q \in Joining' : q = n
  <2>1. n \notin Members /\ n \in Members' /\ \A q \in Joining : q = n
    BY <1>1, <1>2, <1>3, JoinerAlone, Membership
  <2>2. /\ \A q \in Node \ {n} : (q \in Members' <=> q \in Members) /\ (q \in Joining' <=> q \in Joining)
        /\ Members' \subseteq Node /\ Joining' \subseteq Node
    BY <1>1, <1>2, Membership
  <2> QED
    BY <1>1, <2>1, <2>2, NodesAreKeys
<1>5. /\ job[n].existing \in Members /\ succ \in Members
      /\ \A m \in Members : Gap(n, succ) <= Gap(n, m)
      /\ predecessor[succ] = n
      /\ \A q \in Members : /\ before[q] \in Members /\ finger[before[q]][0] = q
                            /\ before[finger[q][0]] = q
  BY <1>2, JoinerAlone DEF Searching, Placed, OnRing, Linked
<1>6. /\ before[succ] = pred /\ \A q \in Node \ {succ} : before[q] = predecessor[q]
  BY <1>1, <1>5, NodesAreKeys
<1>7. pred \in Members /\ finger[pred][0] = succ /\ n # pred /\ n # succ
  BY <1>4, <1>5, <1>6
<1> HIDE DEF succ, pred, before
<1>8. /\ finger'[pred][0] = n
      /\ \A q \in Node \ {pred} : finger'[q] = finger[q]
      /\ \A i \in Index : finger'[pred][i] \in {n, finger[pred][i]}
  BY <1>1, <1>2, <1>7, Numbers, NodesAreKeys DEF FingerType
<1>9. finger'[n][0] = succ
  BY <1>1, <1>7, <1>8 DEF succ
<1>10. FingersAreMembers'
  BY <1>4, <1>7, <1>8 DEF RingInvariant, FingersAreMembers
<1>11. \A q \in Members : /\ q \in Key /\ finger[q][0] \in Members /\ finger[q][0] \in Key
                          /\ \A m \in Members : Gap(q, finger[q][0]) <= Gap(q, m)
  BY NodesAreKeys DEF RingInvariant, SuccessorsFormRing, OnRing
<1>12. n \in Key /\ pred \in Key /\ succ \in Key
  BY <1>1, <1>5, <1>7, NodesAreKeys
<1>13. Gap(pred, n) < Gap(pred, succ)
  BY <1>5, <1>7, <1>12, NewIsNext
<1>14. \A a, b \in Key : Gap(a, b) \in Int /\ Gap(a, b) <= Gap(a, a)
  BY GapRange, Numbers
<1>15. ASSUME NEW q \in Members', NEW m \in Members'
       PROVE  finger'[q][0] \in Members' /\ Gap(q, finger'[q][0]) <= Gap(q, m)
  <2>1. CASE q = n
    <3>1. CASE m = n
      BY <1>4, <1>5, <1>9, <1>12, <1>14, <2>1, <3>1
    <3>2. CASE m # n
      BY <1>4, <1>5, <1>9, <2>1, <3>2
    <3> QED
      BY <3>1, <3>2
  <2>2. CASE q = pred
    <3>1. CASE m = n
      BY <1>4, <1>8, <1>12, <1>14, <2>2, <3>1
    <3>2. CASE m # n
      <4>1. m \in Members /\ m \in Key /\ Gap(pred, succ) <= Gap(pred, m)
        BY <1>4, <1>7, <1>11, <3>2
      <4>2. Gap(pred, n) <= Gap(pred, m)
        BY <1>12, <1>13, <1>14, <4>1
      <4> QED
        BY <1>4, <1>8, <2>2, <4>2
    <3> QED
      BY <3>1, <3>2
  <2>3. CASE q # n /\ q # pred
    <3>1. q \in Members /\ finger'[q][0] = finger[q][0] /\ q \in Key
      BY <1>4, <1>8, <1>11, <2>3, NodesAreKeys
    <3>2. CASE m = n
      <4>1. Gap(pred, succ) <= Gap(pred, q) /\ Gap(q, finger[q][0]) <= Gap(q, pred)
        BY <1>7, <1>11, <3>1
      <4>2. Gap(q, finger[q][0]) <= Gap(q, n)
        BY <1>7, <1>11, <1>12, <1>13, <2>3, <3>1, <4>1, NewIsNobodyElses
      <4> QED
        BY <1>4, <1>11, <3>1, <3>2, <4>2
    <3>3. CASE m # n
      BY <1>4, <1>11, <3>1, <3>3
    <3> QED
      BY <3>2, <3>3
  <2> QED
    BY <2>1, <2>2, <2>3
<1>16. SuccessorsFormRing'
  BY <1>15 DEF SuccessorsFormRing, OnRing, Gap, Size
<1>17. ASSUME NEW q \in Members'
       PROVE  /\ predecessor[q] \in Members' /\ finger'[predecessor[q]][0] = q
              /\ predecessor[finger'[q][0]] = q
  <2>1. predecessor[n] = pred /\ predecessor[succ] = n
    BY <1>5 DEF pred
  <2>2. CASE q = n
    BY <1>4, <1>7, <1>8, <1>9, <2>1, <2>2
  <2>3. CASE q # n
    <3>1. q \in Members /\ q \in Node /\ before[q] \in Node /\ finger[q][0] \in Node
      BY <1>4, <1>5, <1>11, <2>3, NodesAreKeys
    <3>2. predecessor[q] \in Members' /\ finger'[predecessor[q]][0] = q
      <4>1. CASE q = succ
        BY <1>4, <1>9, <2>1, <4>1
      <4>2. CASE q # succ
        <5>1. before[q] = predecessor[q] /\ before[q] # pred
          BY <1>5, <1>6, <1>7, <3>1, <4>2
        <5> QED
          BY <1>4, <1>5, <1>8, <3>1, <5>1
      <4> QED
        BY <4>1, <4>2
    <3>3. predecessor[finger'[q][0]] = q
      <4>1. CASE q = pred
        BY <1>8, <2>1, <4>1
      <4>2. CASE q # pred
        <5>1. finger'[q][0] = finger[q][0] /\ finger[q][0] # succ
          BY <1>5, <1>6, <1>8, <3>1, <4>2
        <5> QED
          BY <1>5, <1>6, <3>1, <5>1
      <4> QED
        BY <4>1, <4>2
    <3> QED
      BY <3>2, <3>3
  <2> QED
    BY <2>2, <2>3
<1>18. Linked(predecessor)'
  BY <1>2, <1>17 DEF Linked
<1>19. Searching(n)'
  BY <1>3, <1>4, <1>5 DEF Searching
<1> QED
  BY <1>3, <1>4, <1>10, <1>16, <1>18, <1>19
     DEF RingInvariant, OneJoins, PredecessorsLinked, JoinsProceed

\* The other fingers of the new member.
LEMMA InitFingersKeepsRing ==
  ASSUME TypeInvariant, RingInvariant, NEW n \in Joining, InitFinger(n) \/ SetFinger(n)
  PROVE  RingInvariant'
<1>1. /\ job[n] \in Job /\ Fits(job[n]) /\ job \in [Node -> Job] /\ n \in Node
      /\ FingerType /\ KnownType /\ predecessor \in [Node -> Node \cup {NoNode}]
  BY NodesAreKeys DEF TypeInvariant, TypeOK, Indexed, FingerType, KnownType
<1>2. /\ Steps(n) /\ UNCHANGED predecessor /\ job[n].pc # "setSuccessor"
      /\ job[n].goal = "finger" /\ n \in Members /\ job[n].existing \in Members
  BY <1>1, InitFingersType, JoinerAlone DEF InitFinger, SetFinger, FindSuccessor, Fits, Searching
<1>3. /\ job'[n].pc \in {"initFingers", "ask"} /\ job'[n].goal = "finger"
      /\ job'[n].existing = job[n].existing
      /\ job'[n].pc = "ask" => job'[n].by = job[n].existing
  <2>1. CASE InitFinger(n)
    BY <1>1, <1>2, <2>1 DEF InitFinger, Job
  <2>2. CASE SetFinger(n)
    BY <1>1, <1>2, <2>2 DEF SetFinger, Job
  <2> QED
    BY <2>1, <2>2
<1>4. Members' = Members
  BY <1>2, <1>3, SameMembers
<1>5. Searching(n)'
  BY <1>2, <1>3, <1>4 DEF Searching
<1>6. job[n].i \in Index /\ job[n].i + 1 \in Index /\ job[n].i + 1 # 0
  <2>1. job[n].i \in 0 .. M /\ job[n].i < M - 1
    BY <1>1 DEF InitFinger, SetFinger, FindSuccessor, Fits, Search, Job
  <2> QED
    BY <2>1, Numbers DEF Index
<1>7. \/ UNCHANGED finger
      \/ \E node \in Members \cup {NoNode} : finger' = [finger EXCEPT ![n][job[n].i + 1] = node]
  <2>1. CASE InitFinger(n)
    <3>1. finger[n][job[n].i] \in Members \cup {NoNode}
      BY <1>2, <1>6, MembersKnowMembers
    <3> QED
      BY <2>1, <3>1 DEF InitFinger
  <2>2. CASE SetFinger(n)
    <3>1. job[n].cur \in Members
      BY <2>2, JoinerAlone DEF SetFinger, FindSuccessor, Searching
    <3> QED
      BY <2>2, <3>1, MembersKnowMembers DEF SetFinger
  <2> QED
    BY <2>1, <2>2
<1>8. /\ \A q \in Members : finger'[q][0] = finger[q][0]
      /\ \A q \in Node : \A i \in Index : finger'[q][i] \in Members \cup {NoNode}
  <2>1. \A q \in Node : \A i \in Index : finger[q][i] \in Members \cup {NoNode}
    BY DEF RingInvariant, FingersAreMembers
  <2>2. CASE UNCHANGED finger
    BY <2>1, <2>2
  <2>3. ASSUME NEW node \in Members \cup {NoNode},
               finger' = [finger EXCEPT ![n][job[n].i + 1] = node]
        PROVE  /\ \A q \in Members : finger'[q][0] = finger[q][0]
               /\ \A q \in Node : \A i \in Index : finger'[q][i] \in Members \cup {NoNode}
    BY <1>1, <1>6, <2>1, <2>3, Numbers, NodesAreKeys DEF FingerType
  <2> QED
    BY <1>7, <2>2, <2>3
<1> QED
  BY <1>2, <1>3, <1>4, <1>5, <1>8, JoinerKeepsRing DEF FingersAreMembers

\* updateOthers takes a node for a finger that is nearer than the one before: no
\* first finger is.
LEMMA UpdateKeepsRing ==
  ASSUME TypeInvariant, RingInvariant, NEW n \in Joining,
         UpdateOthers(n) \/ UpdateDone(n) \/ UpdateFinger(n)
  PROVE  RingInvariant'
<1>1. /\ job[n] \in Job /\ Fits(job[n]) /\ job \in [Node -> Job] /\ n \in Node
      /\ FingerType /\ KnownType /\ predecessor \in [Node -> Node \cup {NoNode}]
  BY NodesAreKeys DEF TypeInvariant, TypeOK, Indexed, FingerType, KnownType
<1>2. /\ Steps(n) /\ UNCHANGED predecessor /\ job[n].pc # "setSuccessor"
      /\ job[n].goal # "successor" /\ n \in Members /\ job[n].existing \in Members
      /\ Linked(predecessor)
  <2>1. Steps(n) /\ UNCHANGED predecessor
    BY <1>1, UpdateType DEF UpdateOthers, UpdateDone, UpdateFinger
  <2>2. job[n].pc \in {"initFingers", "updateOthers", "updateFinger"}
    BY DEF UpdateOthers, UpdateDone, UpdateFinger
  <2>3. job[n].goal \in {"finger", "update"}
    BY <1>1, <2>2 DEF Fits
  <2> QED
    BY <2>1, <2>2, <2>3, JoinerAlone DEF Searching
<1>3. ASSUME job'[n].pc # "out", job'[n].goal # "successor", job'[n].pc # "setSuccessor",
             FingersAreMembers',
             \A q \in Members : finger'[q][0] = finger[q][0],
             n \in Joining' => /\ job'[n].existing = job[n].existing
                               /\ job'[n].pc \in {"updateOthers", "ask", "updateFinger"}
                               /\ job'[n].pc = "ask" => job'[n].by \in Members
                               /\ job'[n].pc = "updateFinger" => job'[n].cur \in Members
      PROVE  RingInvariant'
  <2>1. Members' = Members
    BY <1>2, <1>3, SameMembers
  <2>2. n \in Joining' => Searching(n)'
    BY <1>2, <1>3, <2>1 DEF Searching
  <2> QED
    BY <1>2, <1>3, <2>1, <2>2, JoinerKeepsRing
<1>4. ASSUME job'[n].pc # "out", job'[n].goal # "successor", UNCHANGED finger
      PROVE  FingersAreMembers' /\ \A q \in Members : finger'[q][0] = finger[q][0]
  <2>1. Members' = Members
    BY <1>2, <1>4, SameMembers
  <2> QED
    BY <1>4, <2>1 DEF RingInvariant, FingersAreMembers
<1>5. CASE UpdateOthers(n)
  <2>1. CASE job'[n] = [NewJob(n) EXCEPT !.pc = "in"]
    <3>1. job'[n].pc = "in" /\ job'[n].goal = "lookup" /\ n \notin Joining'
      BY <1>1, <1>2, <2>1, Membership DEF NewJob
    <3> QED
      BY <1>3, <1>4, <1>5, <3>1 DEF UpdateOthers
  <2>2. CASE job'[n] # [NewJob(n) EXCEPT !.pc = "in"]
    <3>1. /\ job'[n].pc \in {"updateOthers", "ask"}
          /\ job'[n].goal # "successor"
          /\ job'[n].existing = job[n].existing
          /\ job'[n].pc = "ask" => job'[n].by = n
      <4>1. CASE job' = [job EXCEPT ![n].pc = "updateOthers", ![n].i = 0]
        BY <1>1, <1>2, <4>1 DEF Job
      <4>2. CASE job' = [job EXCEPT ![n].pc = "ask", ![n].goal = "update", ![n].by = n,
                                    ![n].key = SubtractInt(n, 2 ^ job[n].i)]
        BY <1>1, <1>2, <4>2 DEF Job
      <4>3. job' # [job EXCEPT ![n] = [NewJob(n) EXCEPT !.pc = "in"]]
        BY <1>1, <2>2
      <4> QED
        BY <1>5, <4>1, <4>2, <4>3 DEF UpdateOthers
    <3> QED
      BY <1>2, <1>3, <1>4, <1>5, <3>1 DEF UpdateOthers
  <2> QED
    BY <2>1, <2>2
<1>6. ASSUME NextUpdate(n), UNCHANGED finger PROVE RingInvariant'
  <2>1. /\ job'[n].pc = "updateOthers" /\ job'[n].goal = job[n].goal
        /\ job'[n].existing = job[n].existing
    BY <1>1, <1>6 DEF NextUpdate, Job
  <2> QED
    BY <1>2, <1>3, <1>4, <1>6, <2>1
<1>7. CASE UpdateFinger(n) /\ ~(NextUpdate(n) /\ UNCHANGED finger)
  <2> DEFINE p == job[n].cur
             i == job[n].i
  <2>1. /\ job[n].pc = "updateFinger" /\ p # n /\ p \in Members /\ i \in Index
        /\ finger' = [finger EXCEPT ![p][i] = n]
        /\ job' = [job EXCEPT ![n].by = p, ![n].cur = predecessor[p]]
        /\ IsBetweenLeftClosedRightOpen(n, p, IdOf(finger[p][i]))
    <3>1. job[n].pc = "updateFinger" /\ p # n /\ p \in Members
      BY <1>7, JoinerAlone DEF UpdateFinger, Searching
    <3>2. i \in Index
      BY <1>1, <3>1, Numbers DEF Fits, Job, Index
    <3> QED
      BY <1>7, <3>1, <3>2 DEF UpdateFinger
  <2>2. /\ job'[n].pc = "updateFinger" /\ job'[n].goal = job[n].goal
        /\ job'[n].existing = job[n].existing /\ job'[n].cur = predecessor[p]
    BY <1>1, <2>1 DEF Job
  <2>3. predecessor[p] \in Members
    BY <1>2, <2>1, MembersKnowMembers
  <2>4. i # 0
    <3> SUFFICES ASSUME i = 0 PROVE FALSE
      OBVIOUS
    <3>1. /\ finger[p][0] \in Members /\ Gap(p, finger[p][0]) <= Gap(p, n)
      BY <1>2, <2>1 DEF RingInvariant, SuccessorsFormRing, OnRing
    <3>2. p \in Key /\ n \in Key /\ finger[p][0] \in Key /\ IdOf(finger[p][0]) = finger[p][0]
      BY <1>1, <2>1, <3>1, NodesAreKeys
    <3>3. Dist(p, n) < Gap(p, finger[p][0])
      <4>1. IsBetweenLeftClosedRightOpen(n, p, finger[p][0])
        BY <2>1, <3>2
      <4> QED
        BY <3>2, <4>1, ArcsCorrect DEF IntervalsAreArcs
    <3>4. Dist(p, n) = Gap(p, n) /\ Gap(p, n) \in Int /\ Gap(p, finger[p][0]) \in Int
      BY <2>1, <3>2, GapRange, Numbers
    <3> QED
      BY <3>1, <3>3, <3>4
  <2>5. Members' = Members
    BY <1>2, <2>2, SameMembers
  <2>6. /\ \A q \in Members : finger'[q][0] = finger[q][0]
        /\ \A q \in Node : \A k \in Index : finger'[q][k] \in Members \cup {NoNode}
    <3>1. \A q \in Node : \A k \in Index : finger[q][k] \in Members \cup {NoNode}
      BY DEF RingInvariant, FingersAreMembers
    <3> QED
      BY <1>1, <1>2, <2>1, <2>4, <3>1, Numbers, NodesAreKeys DEF FingerType
  <2> QED
    BY <1>2, <1>3, <2>2, <2>3, <2>5, <2>6 DEF FingersAreMembers
<1> QED
  BY <1>5, <1>6, <1>7 DEF UpdateDone

LEMMA InitRing == Init => RingInvariant
<1> SUFFICES ASSUME Init PROVE RingInvariant
  OBVIOUS
<1>1. \A n \in Node : job[n].pc = "out"
  BY DEF Init, NewJob
<1>2. Members = {} /\ Joining = {}
  BY <1>1 DEF Members, Joining
<1> QED
  BY <1>2 DEF Init, RingInvariant, OneJoins, FingersAreMembers, SuccessorsFormRing,
              PredecessorsLinked, Linked, JoinsProceed

LEMMA NextRing ==
  ASSUME MaxJoins = 1, TypeInvariant, RingInvariant, JoinsReach, [Next]_vars
  PROVE  RingInvariant'
<1>1. CASE UNCHANGED vars
  <2>1. Members' = Members /\ Joining' = Joining
    BY <1>1 DEF vars, Members, Joining
  <2>2. OneJoins' /\ FingersAreMembers' /\ PredecessorsLinked'
    BY <1>1, <2>1 DEF vars, RingInvariant, OneJoins, FingersAreMembers, PredecessorsLinked,
                      Linked
  <2>3. SuccessorsFormRing'
    BY <1>1, <2>1 DEF vars, RingInvariant, SuccessorsFormRing, OnRing
  <2>4. JoinsProceed'
    BY <1>1, <2>1 DEF vars, RingInvariant, JoinsProceed, Searching, Placed, OnRing, Linked
  <2> QED
    BY <2>2, <2>3, <2>4 DEF RingInvariant
<1>2. ASSUME NEW n \in Node, Step(n) PROVE RingInvariant'
  <2>2. CASE n \notin Joining
    BY <1>2, <2>2, LookUpKeepsRing
  <2>3. CASE n \in Joining
    <3>1. ~Answer(n) /\ ~Fail(n)
      BY <2>3, JoinerAlone DEF Answer, FindSuccessor, Fail, JoinsReach
    <3> QED
      BY <1>2, <2>3, <3>1, SearchKeepsRing, FirstFingerKeepsRing, GetPredecessorKeepsRing,
         SetPredecessorKeepsRing, SetSuccessorKeepsRing, InitFingersKeepsRing, UpdateKeepsRing
         DEF Step
  <2> QED
    BY <2>2, <2>3
<1>3. ASSUME NEW n \in Node, NEW key \in Asked, LookUp(n, key) PROVE RingInvariant'
  <2>1. n \notin Joining
    BY <1>3 DEF LookUp, TypeInvariant, Indexed, Fits, Joining
  <2> QED
    BY <1>3, <2>1, LookUpKeepsRing
<1> QED
  BY <1>1, <1>2, <1>3, FirstNodeIsRing, JoinKeepsRing DEF Next

LEMMA RingHolds == MaxJoins = 1 => (Spec /\ []JoinsReach => [](TypeInvariant /\ RingInvariant))
<1> SUFFICES ASSUME MaxJoins = 1 PROVE Spec /\ []JoinsReach => [](TypeInvariant /\ RingInvariant)
  OBVIOUS
<1>1. Init => TypeInvariant /\ RingInvariant
  BY InitType, InitRing
<1>2. TypeInvariant /\ RingInvariant /\ JoinsReach /\ [Next]_vars => (TypeInvariant /\ RingInvariant)'
  BY NextType, NextRing
<1> QED
  BY <1>1, <1>2, PTL DEF Spec

\* When nodes join one at a time and no Join fails, each member's successor is the
\* member that comes next, at every step of Join and of every look-up.
THEOREM RingIsNeverBroken == MaxJoins = 1 => (Spec /\ []JoinsReach => []SuccessorsFormRing)
<1>1. TypeInvariant /\ RingInvariant => SuccessorsFormRing
  BY DEF RingInvariant
<1> QED
  BY <1>1, RingHolds, PTL

\* And the predecessors are the successors' inverse whenever no Join is under way.
THEOREM RingIsLinkedWhenQuiet == MaxJoins = 1 => (Spec /\ []JoinsReach => []RingWhenQuiet)
<1>1. TypeInvariant /\ RingInvariant => RingWhenQuiet
  <2>1. Joined \subseteq Members
    BY DEF Joined, Members
  <2> QED
    BY <2>1 DEF RingInvariant, PredecessorsLinked, Linked, SuccessorsFormRing, RingWhenQuiet
<1> QED
  BY <1>1, RingHolds, PTL

-----------------------------------------------------------------------------
(* Fingers get nearer. *)

\* InitFingerTable fills a table that is empty but for its first entry, upwards.
Filling(n) == job[n].goal = "finger" /\ job[n].pc \in Search \cup {"initFingers"}
Empty(n)   == \A k \in Index :
                /\ n \notin Members /\ k # 0 => finger[n][k] = NoNode
                /\ Filling(n) /\ k > job[n].i => finger[n][k] = NoNode
TablesFill == \A n \in Node : Empty(n)

\* The step for one node, and what FingersGetNearer says of it.
Nearer(q) == \A i \in Index : finger[q][i] # NoNode => Gap(q, finger'[q][i]) <= Gap(q, finger[q][i])

\* Nothing moves at a node whose table does not change.
LEMMA SameFingers ==
  ASSUME TypeInvariant, RingInvariant, NEW q \in Node, finger'[q] = finger[q]
  PROVE  Nearer(q)
<1> SUFFICES ASSUME NEW i \in Index, finger[q][i] # NoNode
             PROVE  Gap(q, finger[q][i]) <= Gap(q, finger[q][i])
  BY DEF Nearer
<1>1. finger[q][i] \in Key /\ q \in Key
  BY NodesAreKeys DEF TypeInvariant, TypeOK
<1> QED
  BY <1>1, GapRange, Numbers

\* One entry moves.
LEMMA OneFinger ==
  ASSUME TypeInvariant, RingInvariant, NEW q \in Node, NEW k \in Index, NEW node,
         finger' = [finger EXCEPT ![q][k] = node]
  PROVE  /\ \A p \in Node \ {q} : finger'[p] = finger[p]
         /\ \A i \in Index \ {k} : finger'[q][i] = finger[q][i]
         /\ finger'[q][k] = node
         /\ \A p \in Node \ {q} : Nearer(p)
         /\ (finger[q][k] # NoNode => Gap(q, node) <= Gap(q, finger[q][k])) => Nearer(q)
<1>1. /\ \A p \in Node \ {q} : finger'[p] = finger[p]
      /\ \A i \in Index \ {k} : finger'[q][i] = finger[q][i]
      /\ finger'[q][k] = node
  BY DEF TypeInvariant, TypeOK
<1>2. ASSUME NEW i \in Index, finger[q][i] # NoNode
      PROVE  Gap(q, finger[q][i]) <= Gap(q, finger[q][i])
  <2>1. finger[q][i] \in Key /\ q \in Key
    BY <1>2, NodesAreKeys DEF TypeInvariant, TypeOK
  <2> QED
    BY <2>1, GapRange, Numbers
<1>3. (finger[q][k] # NoNode => Gap(q, node) <= Gap(q, finger[q][k])) => Nearer(q)
  BY <1>1, <1>2 DEF Nearer
<1> QED
  BY <1>1, <1>3, SameFingers

\* A step that sets no finger.
LEMMA NoFinger ==
  ASSUME TypeInvariant, RingInvariant, TablesFill, NEW n \in Node, Steps(n), UNCHANGED finger,
         n \in Members => n \in Members',
         Filling(n)' => Filling(n) /\ job'[n].i = job[n].i
  PROVE  TablesFill' /\ \A q \in Members : Nearer(q)
<1>1. \A q \in Node : Nearer(q)
  BY SameFingers
<1>2. ASSUME NEW q \in Node PROVE Empty(q)'
  <2>1. Empty(q)
    BY DEF TablesFill
  <2>2. q \notin Members' => q \notin Members
    BY Membership
  <2>3. Filling(q)' => Filling(q) /\ job'[q].i = job[q].i
    <3>1. CASE q = n
      BY <3>1
    <3>2. CASE q # n
      <4>1. job'[q] = job[q]
        BY <3>2, Membership
      <4> QED
        BY <4>1 DEF Filling, Search
    <3> QED
      BY <3>1, <3>2
  <2> QED
    BY <2>1, <2>2, <2>3 DEF Empty, Index
<1> QED
  BY <1>1, <1>2, NodesAreKeys DEF TablesFill

\* A step that sets a finger of q, n's own or another member's.
LEMMA SetsFinger ==
  ASSUME TypeInvariant, RingInvariant, TablesFill, NEW n \in Joining, Steps(n),
         NEW q \in Node, NEW k \in Index, NEW node, finger' = [finger EXCEPT ![q][k] = node],
         n \in Members => n \in Members', Filling(n)' => Empty(n)', q \notin Members => k = 0,
         finger[q][k] # NoNode => \/ q \notin Members
                                  \/ Gap(q, node) <= Gap(q, finger[q][k])
  PROVE  TablesFill' /\ \A p \in Members : Nearer(p)
<1>1. /\ \A p \in Node \ {q} : finger'[p] = finger[p]
      /\ \A i \in Index \ {k} : finger'[q][i] = finger[q][i]
      /\ \A p \in Node \ {q} : Nearer(p)
      /\ (finger[q][k] # NoNode => Gap(q, node) <= Gap(q, finger[q][k])) => Nearer(q)
  BY OneFinger
<1>2. \A p \in Members : Nearer(p)
  BY <1>1, NodesAreKeys
<1>3. ASSUME NEW p \in Node PROVE Empty(p)'
  <2>1. Empty(p)
    BY DEF TablesFill
  <2>2. p \notin Members' => p \notin Members
    BY Membership, NodesAreKeys
  <2>3. \A i \in Index : p \notin Members' /\ i # 0 => finger'[p][i] = NoNode
    BY <1>1, <2>1, <2>2 DEF Empty
  <2>4. Filling(p)' => p = n
    <3>1. ASSUME p # n, job[p].goal = "finger" PROVE FALSE
      <4>1. Fits(job[p])
        BY DEF TypeInvariant, Indexed
      <4>2. p \in Joining
        BY <3>1, <4>1 DEF Joining, Fits
      <4> QED
        BY <3>1, <4>2, JoinerAlone
    <3>2. p # n => job'[p] = job[p]
      BY Membership, NodesAreKeys
    <3> QED
      BY <3>1, <3>2 DEF Filling
  <2> QED
    BY <2>3, <2>4 DEF Empty
<1> QED
  BY <1>2, <1>3 DEF TablesFill

LEMMA StartFillsTables ==
  ASSUME TypeInvariant, RingInvariant, TablesFill, NEW n \in Node,
         \/ JoinFirst(n)
         \/ \E existing \in Node : Join(n, existing)
         \/ \E key \in Asked : LookUp(n, key)
  PROVE  TablesFill' /\ \A q \in Members : Nearer(q)
<1>1. /\ job[n] \in Job /\ Fits(job[n]) /\ job \in [Node -> Job] /\ n \in Node
      /\ FingerType /\ KnownType /\ predecessor \in [Node -> Node \cup {NoNode}]
  BY NodesAreKeys DEF TypeInvariant, TypeOK, Indexed, FingerType, KnownType
<1>2. CASE JoinFirst(n)
  <2>1. Joining = {} /\ Members = {} /\ job[n].pc = "out" /\ job[n].goal = "lookup"
    BY <1>1, <1>2, NodesAreKeys DEF JoinFirst, Joined, Joining, Fits
  <2>2. Steps(n) /\ job'[n].pc = "in" /\ job'[n].goal = "lookup"
    BY <1>1, <1>2, <2>1, StartType DEF JoinFirst, Job
  <2>3. n \in Members' /\ \A q \in Node \ {n} : job'[q] = job[q] /\ finger'[q] = finger[q]
    BY <1>1, <1>2, <2>2, Membership DEF JoinFirst, FingerType
  <2>4. ASSUME NEW q \in Node PROVE Empty(q)'
    <3>1. ~Filling(q)'
      <4>1. Fits(job[q]) /\ job[q].goal # "finger"
        BY <2>1 DEF TypeInvariant, Indexed, Fits, Joining
      <4> QED
        BY <2>2, <2>3, <4>1 DEF Filling
    <3>2. q # n => \A k \in Index : k # 0 => finger'[q][k] = NoNode
      BY <2>1, <2>3 DEF TablesFill, Empty
    <3> QED
      BY <2>3, <3>1, <3>2 DEF Empty
  <2> QED
    BY <2>1, <2>4 DEF TablesFill
<1>3. ASSUME NEW existing \in Node, Join(n, existing)
      PROVE  TablesFill' /\ \A q \in Members : Nearer(q)
  <2>1. /\ Steps(n) /\ UNCHANGED finger /\ n \notin Members /\ job'[n].goal = "successor"
    BY <1>1, <1>3, StartType DEF Join, Job, Members
  <2> QED
    BY <2>1, NoFinger DEF Filling
<1>4. ASSUME NEW key \in Asked, LookUp(n, key)
      PROVE  TablesFill' /\ \A q \in Members : Nearer(q)
  <2>1. /\ Steps(n) /\ UNCHANGED finger
        /\ job'[n].goal = "lookup" /\ job'[n].pc = "ask"
    BY <1>1, <1>4, StartType DEF LookUp, NewJob
  <2>2. n \in Members'
    BY <2>1, Membership
  <2> QED
    BY <2>1, <2>2, NoFinger DEF Filling
<1> QED
  BY <1>2, <1>3, <1>4

LEMMA SearchFillsTables ==
  ASSUME TypeInvariant, RingInvariant, TablesFill, NEW n \in Node,
         \/ Ask(n) \/ Hop(n) \/ ReadSuccessor(n) \/ Answer(n)
         \/ GetPredecessor(n) \/ SetPredecessor(n)
  PROVE  TablesFill' /\ \A q \in Members : Nearer(q)
<1>1. /\ job[n] \in Job /\ Fits(job[n]) /\ job \in [Node -> Job] /\ n \in Node
      /\ FingerType /\ KnownType /\ predecessor \in [Node -> Node \cup {NoNode}]
  BY NodesAreKeys DEF TypeInvariant, TypeOK, Indexed, FingerType, KnownType
<1>2. Steps(n) /\ UNCHANGED finger /\ job[n].pc # "out"
  BY <1>1, SearchType, LinkType
     DEF Ask, Hop, ReadSuccessor, Answer, FindSuccessor, GetPredecessor, SetPredecessor
<1>3. \/ Answer(n)
      \/ job'[n].pc # "out" /\ job'[n].goal = job[n].goal /\ job'[n].i = job[n].i
  <2>1. CASE Ask(n)
    BY <1>1, <2>1 DEF Ask, Job
  <2>2. CASE Hop(n)
    BY <1>1, <2>2 DEF Hop, Found, Job
  <2>3. CASE ReadSuccessor(n)
    BY <1>1, <2>3 DEF ReadSuccessor, Job
  <2>4. CASE GetPredecessor(n) \/ SetPredecessor(n)
    BY <1>1, <2>4 DEF GetPredecessor, SetPredecessor, Job
  <2> QED
    BY <2>1, <2>2, <2>3, <2>4
<1>4. job'[n].goal = "finger" => Filling(n) /\ ~Answer(n)
  <2>1. CASE Answer(n)
    BY <1>1, <2>1 DEF Answer, NewJob
  <2>2. CASE ~Answer(n)
    BY <1>1, <1>3, <2>2 DEF Filling, Search, Fits, Ask, Hop, ReadSuccessor,
                            GetPredecessor, SetPredecessor
  <2> QED
    BY <2>1, <2>2
<1>5. n \in Members => n \in Members'
  <2>1. CASE Answer(n)
    <3>1. job'[n].pc = "in" /\ job'[n].goal = "lookup"
      BY <1>1, <2>1 DEF Answer, NewJob
    <3> QED
      BY <1>2, <3>1, Membership
  <2>2. CASE ~Answer(n)
    BY <1>2, <1>3, <2>2, Membership DEF Members
  <2> QED
    BY <2>1, <2>2
<1> QED
  BY <1>2, <1>3, <1>4, <1>5, NoFinger DEF Filling

\* The joiner's own fingers, and the one that rpcSetSuccessor sets.
LEMMA JoinFillsTables ==
  ASSUME TypeInvariant, RingInvariant, TablesFill, NEW n \in Joining,
         SetFirstFinger(n) \/ SetSuccessor(n) \/ InitFinger(n) \/ SetFinger(n)
  PROVE  TablesFill' /\ \A q \in Members : Nearer(q)
<1>1. /\ job[n] \in Job /\ Fits(job[n]) /\ job \in [Node -> Job] /\ n \in Node
      /\ FingerType /\ KnownType /\ predecessor \in [Node -> Node \cup {NoNode}]
  BY NodesAreKeys DEF TypeInvariant, TypeOK, Indexed, FingerType, KnownType
<1>2. Empty(n) /\ Steps(n)
  BY <1>1, LinkType, InitFingersType DEF TablesFill
<1>3. CASE SetFirstFinger(n)
  <2>1. /\ n \notin Members
        /\ finger' = [finger EXCEPT ![n][0] = finger[job[n].cur][0]]
        /\ job'[n].pc = "getPredecessor"
    BY <1>1, <1>3, JoinerAlone DEF SetFirstFinger, FindSuccessor, Job
  <2> QED
    BY <1>1, <1>2, <2>1, Numbers, SetsFinger DEF Filling, Search
<1>4. CASE SetSuccessor(n)
  <2> DEFINE succ == finger[n][0]
             pred == predecessor[n]
  <2>1. /\ job[n].pc = "setSuccessor" /\ job[n].goal = "successor" /\ n \notin Members
        /\ finger' = [finger EXCEPT ![pred][0] = n]
        /\ job'[n].pc = "initFingers" /\ job'[n].goal = "finger" /\ job'[n].i = 0
    BY <1>1, <1>4, JoinerAlone DEF SetSuccessor, Fits, Job
  <2>2. /\ succ \in Members /\ \A m \in Members : Gap(n, succ) <= Gap(n, m)
        /\ Linked([predecessor EXCEPT ![succ] = pred])
    BY <2>1, JoinerAlone DEF Placed, OnRing
  <2>3. [predecessor EXCEPT ![succ] = pred][succ] = pred
    BY <1>1, <2>2, NodesAreKeys
  <2>4. pred \in Members /\ finger[pred][0] = succ /\ n # pred /\ n # succ
    BY <2>1, <2>2, <2>3 DEF Linked
  <2>5. Gap(pred, n) <= Gap(pred, succ)
    <3>1. n \in Key /\ pred \in Key /\ succ \in Key
      BY <1>1, <2>2, <2>4, NodesAreKeys
    <3>2. Gap(pred, n) < Gap(pred, succ)
      BY <2>2, <2>4, <3>1, NewIsNext
    <3> QED
      BY <3>1, <3>2, GapRange
  <2>6. n \in Members'
    BY <1>1, <1>2, <2>1, Membership
  <2>7. Empty(n)'
    <3>1. \A k \in Index : k > 0 => finger'[n][k] = NoNode
      BY <1>1, <1>2, <2>1, <2>4 DEF Empty, FingerType, Index
    <3> QED
      BY <2>1, <2>6, <3>1 DEF Empty
  <2> QED
    BY <1>2, <2>1, <2>4, <2>5, <2>6, <2>7, Numbers, NodesAreKeys, SetsFinger
<1>5. CASE InitFinger(n) \/ SetFinger(n)
  <2> DEFINE i == job[n].i
  <2>1. /\ Filling(n) /\ n \in Members /\ i \in 0 .. M /\ i < M - 1
        /\ job[n].goal = "finger"
    <3>1. job[n].goal = "finger"
      BY <1>1, <1>5 DEF InitFinger, SetFinger, FindSuccessor, Fits
    <3>2. job[n].pc \in {"initFingers", "found"}
      BY <1>5 DEF InitFinger, SetFinger, FindSuccessor
    <3>3. i \in 0 .. M /\ i < M - 1
      BY <1>1, <1>5 DEF InitFinger, SetFinger, FindSuccessor, Fits, Search, Job
    <3> QED
      BY <3>1, <3>2, <3>3, JoinerAlone DEF Filling, Search
  <2>2. i + 1 \in Index /\ i \in Int
    BY <2>1, Numbers DEF Index
  <2>3. /\ job'[n].goal = "finger" /\ job'[n].pc \in {"initFingers", "ask"}
        /\ \/ UNCHANGED finger /\ job'[n].i = i
           \/ /\ job'[n].i = i + 1
              /\ \E node : finger' = [finger EXCEPT ![n][i + 1] = node]
    <3>1. CASE InitFinger(n)
      <4>1. CASE /\ finger' = [finger EXCEPT ![n][i + 1] = finger[n][i]]
                 /\ job' = [job EXCEPT ![n].i = i + 1]
        BY <1>1, <2>1, <3>1, <4>1 DEF InitFinger, Job
      <4>2. CASE /\ job' = [job EXCEPT ![n].pc = "ask", ![n].goal = "finger",
                                       ![n].key = FingerStart(n, i + 1), ![n].by = job[n].existing]
                 /\ UNCHANGED finger
        BY <1>1, <2>1, <4>2 DEF Job
      <4> QED
        BY <3>1, <4>1, <4>2 DEF InitFinger
    <3>2. CASE SetFinger(n)
      <4>1. /\ finger' = [finger EXCEPT ![n][i + 1] = finger[job[n].cur][0]]
            /\ job'[n] = [job[n] EXCEPT !.pc = "initFingers", !.by = n, !.i = @ + 1]
        BY <1>1, <3>2 DEF SetFinger
      <4> QED
        BY <1>1, <2>1, <4>1 DEF Job
    <3> QED
      BY <1>5, <3>1, <3>2
  <2>4. n \in Members'
    BY <1>1, <1>2, <2>3, Membership
  <2>5. CASE UNCHANGED finger /\ job'[n].i = i
    BY <1>1, <1>2, <2>1, <2>4, <2>5, NoFinger
  <2>6. ASSUME NEW node, finger' = [finger EXCEPT ![n][i + 1] = node], job'[n].i = i + 1
        PROVE  TablesFill' /\ \A q \in Members : Nearer(q)
    <3>1. finger[n][i + 1] = NoNode
      BY <1>2, <2>1, <2>2 DEF Empty
    <3>2. \A k \in Index : k > i + 1 => finger'[n][k] = NoNode
      BY <1>1, <1>2, <2>1, <2>2, <2>6 DEF Empty, FingerType, Index
    <3>3. Empty(n)'
      BY <2>4, <2>6, <3>2 DEF Empty
    <3> QED
      BY <1>1, <1>2, <2>1, <2>2, <2>4, <2>6, <3>1, <3>3, SetsFinger
  <2> QED
    BY <2>3, <2>5, <2>6
<1> QED
  BY <1>3, <1>4, <1>5

\* updateFingerTable takes n for a finger that is farther on.
LEMMA UpdateFillsTables ==
  ASSUME TypeInvariant, RingInvariant, TablesFill, NEW n \in Joining,
         UpdateOthers(n) \/ UpdateDone(n) \/ UpdateFinger(n)
  PROVE  TablesFill' /\ \A q \in Members : Nearer(q)
<1>1. /\ job[n] \in Job /\ Fits(job[n]) /\ job \in [Node -> Job] /\ n \in Node
      /\ FingerType /\ KnownType /\ predecessor \in [Node -> Node \cup {NoNode}]
  BY NodesAreKeys DEF TypeInvariant, TypeOK, Indexed, FingerType, KnownType
<1>2. Steps(n)
  BY <1>1, UpdateType
<1>3. n \in Members /\ job[n].goal \in {"finger", "update"}
  <2>1. job[n].pc \in {"initFingers", "updateOthers", "updateFinger"}
    BY DEF UpdateOthers, UpdateDone, UpdateFinger
  <2>2. job[n].goal \in {"finger", "update"}
    BY <1>1, <2>1 DEF Fits
  <2> QED
    BY <2>2, JoinerAlone
<1>4. /\ job'[n].pc # "out" /\ job'[n].goal # "successor"
      /\ job'[n].goal = "finger" => job'[n].pc = "updateOthers"
  <2>1. CASE UpdateOthers(n)
    <3>1. CASE job' = [job EXCEPT ![n].pc = "updateOthers", ![n].i = 0]
      BY <1>1, <1>3, <3>1 DEF Job
    <3>2. CASE job' = [job EXCEPT ![n].pc = "ask", ![n].goal = "update", ![n].by = n,
                                  ![n].key = SubtractInt(n, 2 ^ job[n].i)]
      BY <1>1, <3>2 DEF Job
    <3>3. CASE job' = [job EXCEPT ![n] = [NewJob(n) EXCEPT !.pc = "in"]]
      BY <1>1, <3>3 DEF NewJob
    <3> QED
      BY <2>1, <3>1, <3>2, <3>3 DEF UpdateOthers
  <2>2. CASE UpdateDone(n) \/ UpdateFinger(n)
    <3>1. job[n].goal = "update" /\ job[n].pc = "updateFinger"
      BY <1>1, <2>2 DEF UpdateDone, UpdateFinger, Fits
    <3>2. CASE NextUpdate(n)
      BY <1>1, <3>1, <3>2 DEF NextUpdate, Job
    <3>3. CASE job' = [job EXCEPT ![n].by = job[n].cur, ![n].cur = predecessor[job[n].cur]]
      BY <1>1, <3>1, <3>3 DEF Job
    <3> QED
      BY <2>2, <3>2, <3>3 DEF UpdateDone, UpdateFinger
  <2> QED
    BY <2>1, <2>2
<1>5. n \in Members' /\ ~Filling(n)'
  BY <1>1, <1>2, <1>4, Membership DEF Filling, Search
<1>6. CASE UNCHANGED finger
  BY <1>1, <1>2, <1>5, <1>6, NoFinger
<1>7. CASE UpdateFinger(n) /\ finger' # finger
  <2> DEFINE p == job[n].cur
             i == job[n].i
  <2>1. /\ job[n].pc = "updateFinger" /\ p # n /\ p \in Members /\ i \in Index
        /\ finger' = [finger EXCEPT ![p][i] = n]
        /\ IsBetweenLeftClosedRightOpen(n, p, IdOf(finger[p][i]))
    <3>1. job[n].pc = "updateFinger" /\ p # n /\ p \in Members
      BY <1>7, JoinerAlone DEF UpdateFinger, Searching
    <3>2. i \in Index
      BY <1>1, <3>1, Numbers DEF Fits, Job, Index
    <3> QED
      BY <1>7, <3>1, <3>2 DEF UpdateFinger
  <2>2. ASSUME finger[p][i] # NoNode PROVE Gap(p, n) <= Gap(p, finger[p][i])
    <3>1. finger[p][i] \in Node /\ p \in Node
      BY <1>1, <2>1, <2>2, NodesAreKeys DEF FingerType
    <3>2. p \in Key /\ n \in Key /\ finger[p][i] \in Key /\ IdOf(finger[p][i]) = finger[p][i]
      BY <1>1, <3>1, NodesAreKeys
    <3>3. IsBetweenLeftClosedRightOpen(n, p, finger[p][i])
      BY <2>1, <3>2
    <3>4. Dist(p, n) < Gap(p, finger[p][i])
      BY <3>2, <3>3, ArcsCorrect DEF IntervalsAreArcs
    <3> QED
      BY <2>1, <3>2, <3>4, GapRange
  <2> QED
    BY <1>2, <1>5, <2>1, <2>2, NodesAreKeys, SetsFinger
<1> QED
  BY <1>6, <1>7 DEF UpdateOthers, UpdateDone

LEMMA NextFillsTables ==
  ASSUME MaxJoins = 1, TypeInvariant, RingInvariant, TablesFill, JoinsReach, [Next]_vars
  PROVE  TablesFill' /\ \A q \in Members : Nearer(q)
<1>1. CASE UNCHANGED vars
  <2>1. TablesFill'
    BY <1>1 DEF vars, TablesFill, Empty, Filling, Search, Members
  <2> QED
    BY <1>1, <2>1, SameFingers, NodesAreKeys DEF vars
<1>2. ASSUME NEW n \in Node, Step(n) PROVE TablesFill' /\ \A q \in Members : Nearer(q)
  <2>1. Fits(job[n]) /\ (n \in Joining => ~Fail(n))
    BY DEF JoinsReach, Fail, TypeInvariant, Indexed
  <2>2. CASE n \notin Joining
    <3>1. ~(SetFirstFinger(n) \/ SetSuccessor(n) \/ InitFinger(n) \/ SetFinger(n)
              \/ UpdateOthers(n) \/ UpdateDone(n) \/ UpdateFinger(n))
      BY <2>1, <2>2 DEF Joining, Fits, SetFirstFinger, SetSuccessor, InitFinger, SetFinger,
                        FindSuccessor, UpdateOthers, UpdateDone, UpdateFinger
    <3>2. CASE Fail(n)
      <4>1. job[n].goal = "lookup"
        BY <2>2, <3>2 DEF Joining, Fail, Lost
      <4>2. /\ Steps(n) /\ UNCHANGED finger
            /\ job'[n].pc = "in" /\ job'[n].goal = "lookup"
        BY <3>2, <4>1, FailType, LookUpFails DEF Fail
      <4>3. n \in Members'
        BY <4>2, Membership
      <4> QED
        BY <4>2, <4>3, NoFinger DEF Filling
    <3> QED
      BY <1>2, <3>1, <3>2, SearchFillsTables DEF Step
  <2>3. CASE n \in Joining
    BY <1>2, <2>1, <2>3, SearchFillsTables, JoinFillsTables, UpdateFillsTables DEF Step
  <2> QED
    BY <2>2, <2>3
<1> QED
  BY <1>1, <1>2, StartFillsTables DEF Next

\* Nor does a finger of a member ever move away.
THEOREM FingersOnlyGetNearer == MaxJoins = 1 => (Spec /\ []JoinsReach => FingersGetNearer)
<1> SUFFICES ASSUME MaxJoins = 1 PROVE Spec /\ []JoinsReach => FingersGetNearer
  OBVIOUS
<1>1. Init => TablesFill
  BY DEF Init, TablesFill, Empty, Filling, NewJob
<1>2. TypeInvariant /\ RingInvariant /\ TablesFill /\ JoinsReach /\ [Next]_vars
        => TablesFill' /\ \A q \in Members : Nearer(q)
  BY NextFillsTables
<1>3. Spec /\ []JoinsReach => [](TypeInvariant /\ RingInvariant)
  BY RingHolds
<1>4. Spec /\ []JoinsReach => []TablesFill
  BY <1>1, <1>2, <1>3, PTL DEF Spec
<1>5. (\A q \in Members : Nearer(q))
        => [\A n \in Members : \A i \in Index : finger[n][i] # NoNode =>
              Gap(n, finger'[n][i]) <= Gap(n, finger[n][i])]_vars
  BY DEF Nearer
<1> QED
  BY <1>2, <1>3, <1>4, <1>5, PTL DEF Spec, FingersGetNearer

-----------------------------------------------------------------------------
(* The look-ups: Directory, when nodes join one at a time and no Join fails. *)

\* A look-up under way: what it has seen was right, or has a newer node before it.
Crossing(n) == LET j == job[n]
                   now == finger[j.cur][0] IN
  /\ j.by = n /\ j.members \subseteq Members /\ j.result = NoNode
  /\ j.pc \in {"hop", "found"} => j.cur \in Members
  /\ j.pc = "successor" => j.cur \in Members \cup {NoNode}
  /\ j.pc = "hop" => j.succ = now \/ now \notin j.members
  /\ j.pc = "found" => Gap(j.cur, j.key) <= Gap(j.cur, now) \/ now \notin j.members
LookUpsCross == \A n \in Node : LookingUp(n) => Crossing(n)

\* Only a node in the ring has an answer.
NoAnswerYet == \A n \in Node \ Joined : job[n].result = NoNode

\* A node between calls can call itself: it has nothing that could fail.
Idles == \A n \in Node : /\ n \in known[n]
                         /\ job[n].pc \in {"out", "in"} => job[n].by = n

\* Directory's variables.
Query(n) == IF LookingUp(n) THEN {[key |-> job[n].key, since |-> job[n].members]} ELSE {}
Queries  == [n \in Node |-> Query(n)]
Answers  == [n \in Node |-> job[n].result]

LEMMA RingSteps ==
  ASSUME MaxJoins = 1, TypeInvariant, RingInvariant, JoinsReach, [Next]_vars
  PROVE  TypeInvariant' /\ RingInvariant'
BY NextType, NextRing

\* The first member at or after a key between c and its successor r is r.
LEMMA NextIsOwner ==
  ASSUME NEW c \in Key, NEW key \in Key, NEW r \in Key, NEW m \in Key,
         Gap(c, key) <= Gap(c, r), Gap(c, r) <= Gap(c, m)
  PROVE  Dist(key, r) <= Dist(key, m)
<1>1. /\ Size \in Nat \ {0} /\ c \in Int /\ key \in Int /\ r \in Int /\ m \in Int
      /\ 0 <= c /\ c < Size /\ 0 <= key /\ key < Size /\ 0 <= r /\ r < Size /\ 0 <= m /\ m < Size
  BY KeyRange DEF Key
<1>2. Dist(key, r) = Gap(c, r) - Gap(c, key)
  BY <1>1 DEF Gap, Dist
<1>3. Gap(c, key) <= Gap(c, m)
  BY <1>1 DEF Gap
<1>4. Dist(key, m) = Gap(c, m) - Gap(c, key)
  BY <1>1, <1>3 DEF Gap, Dist
<1> QED
  BY <1>1, <1>2, <1>4 DEF Gap

\* A member's successor changes for a node that was no member.
LEMMA NewerSuccessor ==
  ASSUME RingInvariant, RingInvariant', Members \subseteq Members', NEW c \in Members
  PROVE  finger'[c][0] = finger[c][0] \/ finger'[c][0] \notin Members
<1> DEFINE f == finger[c][0]
           g == finger'[c][0]
<1> SUFFICES ASSUME g \in Members PROVE g = f
  OBVIOUS
<1>1. f \in Members /\ Gap(c, f) <= Gap(c, g)
  BY DEF RingInvariant, SuccessorsFormRing, OnRing
<1>2. Gap(c, g) <= Gap(c, f)
  BY <1>1 DEF RingInvariant, SuccessorsFormRing, OnRing, Gap, Size
<1>3. c \in Key /\ f \in Key /\ g \in Key
  BY <1>1, NodesAreKeys
<1>4. /\ Size \in Nat \ {0} /\ c \in Int /\ f \in Int /\ g \in Int
      /\ 0 <= c /\ c < Size /\ 0 <= f /\ f < Size /\ 0 <= g /\ g < Size
  BY <1>3, KeyRange DEF Key
<1> HIDE DEF f, g
<1> QED
  BY <1>1, <1>2, <1>4 DEF Gap

\* What the others look up goes on while n takes a step.
LEMMA OthersCross ==
  ASSUME RingInvariant, RingInvariant', LookUpsCross, NEW n \in Node, Steps(n),
         Members \subseteq Members'
  PROVE  \A q \in Node \ {n} : LookingUp(q)' => Crossing(q)'
<1> SUFFICES ASSUME NEW q \in Node \ {n}, LookingUp(q)' PROVE Crossing(q)'
  OBVIOUS
<1>1. job'[q] = job[q]
  BY Membership
<1>2. LookingUp(q)
  BY <1>1 DEF LookingUp, Joined
<1>3. Crossing(q)
  BY <1>2 DEF LookUpsCross
<1> DEFINE c == job[q].cur
<1>4. c \in Members => finger'[c][0] = finger[c][0] \/ finger'[c][0] \notin job[q].members
  BY <1>3, NewerSuccessor DEF Crossing
<1> QED
  BY <1>1, <1>3, <1>4 DEF Crossing, Gap, Size

-----------------------------------------------------------------------------
(* The node that joins. *)

\* Its step enters the ring or leaves it as it is, and answers nothing.
LEMMA JoinerStep ==
  ASSUME TypeInvariant, RingInvariant, NEW n \in Joining, Step(n), ~Fail(n)
  PROVE  /\ Steps(n) /\ ~LookingUp(n) /\ ~LookingUp(n)'
         /\ job'[n].result \in {job[n].result, NoNode}
         /\ Members' \in {Members, Members \cup {n}}
<1>1. /\ job[n] \in Job /\ Fits(job[n]) /\ job \in [Node -> Job] /\ n \in Node
  BY NodesAreKeys DEF TypeInvariant, TypeOK, Indexed
<1> DEFINE j == job[n]
           k == job'[n]
           Goes == /\ k.pc # "out" /\ (k.goal = "lookup" => k.pc = "in")
                   /\ k.result \in {j.result, NoNode}
                   /\ (k.goal = "successor") => (j.goal = "successor")
<1>2. j.pc # "out" /\ j.goal # "lookup"
  BY JoinerAlone
<1>3. ~Answer(n)
  BY <1>2 DEF Answer, FindSuccessor
<1>4. Steps(n)
  BY <1>1, <1>3, SearchType, LinkType, InitFingersType, UpdateType DEF Step
<1>5. ASSUME Ask(n) PROVE Goes
  BY <1>1, <1>2, <1>5 DEF Ask, Job
<1>6. ASSUME Hop(n) PROVE Goes
  BY <1>1, <1>2, <1>6 DEF Hop, Found, Job
<1>7. ASSUME ReadSuccessor(n) PROVE Goes
  BY <1>1, <1>2, <1>7 DEF ReadSuccessor, Job
<1>8. ASSUME SetFirstFinger(n) PROVE Goes
  BY <1>1, <1>2, <1>8 DEF SetFirstFinger, Job
<1>9. ASSUME GetPredecessor(n) \/ SetPredecessor(n) PROVE Goes
  BY <1>1, <1>2, <1>9 DEF GetPredecessor, SetPredecessor, Job
<1>10. ASSUME SetSuccessor(n) PROVE Goes
  BY <1>1, <1>2, <1>10 DEF SetSuccessor, Job
<1>11. ASSUME InitFinger(n) PROVE Goes
  <2>1. ASSUME job' = [job EXCEPT ![n].i = j.i + 1] PROVE Goes
    BY <1>1, <1>2, <2>1 DEF Job
  <2>2. ASSUME job' = [job EXCEPT ![n].pc = "ask", ![n].goal = "finger",
                                  ![n].key = FingerStart(n, j.i + 1), ![n].by = j.existing]
        PROVE  Goes
    BY <1>1, <2>2 DEF Job
  <2> QED
    BY <1>11, <2>1, <2>2 DEF InitFinger
<1>12. ASSUME SetFinger(n) PROVE Goes
  BY <1>1, <1>2, <1>12 DEF SetFinger, Job
<1>13. ASSUME NextUpdate(n) PROVE Goes
  BY <1>1, <1>2, <1>13 DEF NextUpdate, Job
<1>14. ASSUME UpdateOthers(n) PROVE Goes
  <2>1. ASSUME job' = [job EXCEPT ![n].pc = "updateOthers", ![n].i = 0] PROVE Goes
    BY <1>1, <1>2, <2>1 DEF Job
  <2>2. ASSUME job' = [job EXCEPT ![n].pc = "ask", ![n].goal = "update", ![n].by = n,
                                ![n].key = SubtractInt(n, 2 ^ job[n].i)] PROVE Goes
    BY <1>1, <2>2 DEF Job
  <2>3. ASSUME job' = [job EXCEPT ![n] = [NewJob(n) EXCEPT !.pc = "in"]] PROVE Goes
    BY <1>1, <2>3 DEF NewJob
  <2> QED
    BY <1>14, <2>1, <2>2, <2>3 DEF UpdateOthers
<1>15. ASSUME UpdateDone(n) PROVE Goes
  BY <1>13, <1>15 DEF UpdateDone
<1>16. ASSUME UpdateFinger(n) PROVE Goes
  <2>1. ASSUME job' = [job EXCEPT ![n].by = j.cur, ![n].cur = predecessor[j.cur]] PROVE Goes
    BY <1>1, <1>2, <2>1 DEF Job
  <2> QED
    BY <1>13, <1>16, <2>1 DEF UpdateFinger
<1>17. Goes
  BY <1>3, <1>5, <1>6, <1>7, <1>8, <1>9, <1>10, <1>11, <1>12, <1>14, <1>15, <1>16 DEF Step
<1>18. n \in Members => n \in Members'
  BY <1>1, <1>4, <1>17, Membership DEF Members
<1>19. Members' \in {Members, Members \cup {n}}
  <2>1. \A m \in Node \ {n} : m \in Members' <=> m \in Members
    BY <1>1, <1>4, Membership
  <2>2. Members \subseteq Node /\ Members' \subseteq Node
    BY DEF Members
  <2> QED
    BY <1>18, <2>1, <2>2
<1>20. ~LookingUp(n) /\ ~LookingUp(n)'
  BY <1>2, <1>17 DEF LookingUp, Joined
<1> QED
  BY <1>4, <1>17, <1>19, <1>20

-----------------------------------------------------------------------------
(* Nodes between calls. *)

LEMMA CalledGrows ==
  ASSUME TypeInvariant, NEW a, NEW b, NEW replied, NEW q \in Node
  PROVE  known[q] \subseteq Called(a, b, replied)[q] /\ known[q] \subseteq Read(a, b, replied)[q]
<1>1. known[q] \subseteq Called(a, b, replied)[q]
  BY DEF Called, TypeInvariant, TypeOK
<1> QED
  BY <1>1 DEF Read

\* Routing tables only grow, and a call that ends leaves its node to itself.
LEMMA StepIdles ==
  ASSUME TypeInvariant, NEW n \in Node, Step(n)
  PROVE  /\ \A q \in Node : known[q] \subseteq known'[q]
         /\ job'[n].pc \in {"out", "in"} => job'[n].by = n
<1>1. /\ job[n] \in Job /\ Fits(job[n]) /\ job \in [Node -> Job]
      /\ known \in [Node -> SUBSET (Node \cup {NoNode})]
  BY DEF TypeInvariant, TypeOK, Indexed
<1> DEFINE Grows == \A q \in Node : known[q] \subseteq known'[q]
           Rests == job'[n].pc \in {"out", "in"} => job'[n].by = n
<1>2. ASSUME NEW goal, NEW result, FindSuccessor(n, goal, result) PROVE Grows
  <2> DEFINE asked == Read(job[n].by, job[n].cur, result)
  <2>1. asked \in [Node -> SUBSET (Node \cup {NoNode})]
    <3>1. job[n].by \in Node /\ job[n].cur \in Node /\ result \in Node \cup {NoNode}
      BY <1>1, <1>2, FindSuccessorType DEF Job
    <3> QED
      BY <1>1, <3>1, CalledKeepsType
  <2>2. \A q \in Node : known[q] \subseteq asked[q]
    BY CalledGrows
  <2> HIDE DEF asked
  <2>3. known' = IF job[n].by = n THEN asked ELSE [asked EXCEPT ![n] = @ \cup {job[n].by, result}]
    BY <1>2 DEF FindSuccessor, asked
  <2> QED
    BY <2>1, <2>2, <2>3
<1>3. ASSUME Ask(n) PROVE Grows /\ Rests
  BY <1>1, <1>3 DEF Ask, Job
<1>4. ASSUME Hop(n) PROVE Grows /\ Rests
  <2>1. Grows
    BY <1>4, CalledGrows DEF Hop
  <2>2. Rests
    BY <1>1, <1>4 DEF Hop, Found, Job
  <2> QED
    BY <2>1, <2>2
<1>5. ASSUME ReadSuccessor(n) PROVE Grows /\ Rests
  <2>1. Grows
    BY <1>5, CalledGrows DEF ReadSuccessor
  <2>2. Rests
    BY <1>1, <1>5 DEF ReadSuccessor, Job
  <2> QED
    BY <2>1, <2>2
<1>6. ASSUME Answer(n) PROVE Grows /\ Rests
  <2>1. Rests
    BY <1>1, <1>6 DEF Answer, NewJob
  <2> QED
    BY <1>2, <1>6, <2>1 DEF Answer
<1>7. ASSUME SetFirstFinger(n) PROVE Grows /\ Rests
  <2>1. Rests
    BY <1>1, <1>7 DEF SetFirstFinger, Job
  <2> QED
    BY <1>2, <1>7, <2>1 DEF SetFirstFinger
<1>8. ASSUME GetPredecessor(n) \/ SetPredecessor(n) \/ SetSuccessor(n) PROVE Grows /\ Rests
  <2>1. Grows
    BY <1>8, CalledGrows DEF GetPredecessor, SetPredecessor, SetSuccessor
  <2>2. Rests
    BY <1>1, <1>8 DEF GetPredecessor, SetPredecessor, SetSuccessor, Job
  <2> QED
    BY <2>1, <2>2
<1>9. ASSUME InitFinger(n) PROVE Grows /\ Rests
  <2>1. Grows /\ job[n].pc = "initFingers"
    BY <1>9 DEF InitFinger
  <2>2. ASSUME job' = [job EXCEPT ![n].i = job[n].i + 1] PROVE Rests
    BY <1>1, <2>1, <2>2 DEF Job
  <2>3. ASSUME job' = [job EXCEPT ![n].pc = "ask", ![n].goal = "finger",
                                  ![n].key = FingerStart(n, job[n].i + 1),
                                  ![n].by = job[n].existing]
        PROVE  Rests
    BY <1>1, <2>3 DEF Job
  <2> QED
    BY <1>9, <2>1, <2>2, <2>3 DEF InitFinger
<1>10. ASSUME SetFinger(n) PROVE Grows /\ Rests
  <2>1. Rests
    BY <1>1, <1>10 DEF SetFinger, Job
  <2> QED
    BY <1>2, <1>10, <2>1 DEF SetFinger
<1>11. ASSUME NextUpdate(n) PROVE Rests
  BY <1>1, <1>11 DEF NextUpdate, Job
<1>12. ASSUME UpdateOthers(n) PROVE Grows /\ Rests
  <2>1. ASSUME job' = [job EXCEPT ![n].pc = "updateOthers", ![n].i = 0] PROVE Rests
    BY <1>1, <2>1 DEF Job
  <2>2. ASSUME job' = [job EXCEPT ![n].pc = "ask", ![n].goal = "update", ![n].by = n,
                                  ![n].key = SubtractInt(n, 2 ^ job[n].i)]
        PROVE  Rests
    BY <1>1, <2>2 DEF Job
  <2>3. ASSUME job' = [job EXCEPT ![n] = [NewJob(n) EXCEPT !.pc = "in"]] PROVE Rests
    BY <1>1, <2>3 DEF NewJob
  <2> QED
    BY <1>12, <2>1, <2>2, <2>3 DEF UpdateOthers
<1>13. ASSUME UpdateDone(n) PROVE Grows /\ Rests
  BY <1>11, <1>13 DEF UpdateDone
<1>14. ASSUME UpdateFinger(n) PROVE Grows /\ Rests
  <2>1. Grows /\ job[n].pc = "updateFinger"
    BY <1>14, CalledGrows DEF UpdateFinger
  <2>2. ASSUME job' = [job EXCEPT ![n].by = job[n].cur, ![n].cur = predecessor[job[n].cur]]
        PROVE  Rests
    BY <1>1, <2>1, <2>2 DEF Job
  <2> QED
    BY <1>11, <1>14, <2>1, <2>2 DEF UpdateFinger
<1>15. ASSUME Fail(n) PROVE Grows /\ Rests
  <2>1. ASSUME job' = [job EXCEPT ![n] = [NewJob(n) EXCEPT !.pc = IF n \in Joined THEN "in" ELSE "out"]]
        PROVE  Rests
    BY <1>1, <2>1 DEF NewJob
  <2> QED
    BY <1>11, <1>15, <2>1 DEF Fail
<1> QED
  BY <1>3, <1>4, <1>5, <1>6, <1>7, <1>8, <1>9, <1>10, <1>12, <1>13, <1>14, <1>15 DEF Step

LEMMA NextIdles == TypeInvariant /\ Idles /\ [Next]_vars => Idles'
<1> SUFFICES ASSUME TypeInvariant, Idles, [Next]_vars PROVE Idles'
  OBVIOUS
<1>1. CASE UNCHANGED vars
  BY <1>1 DEF vars, Idles
<1>2. ASSUME NEW n \in Node, Steps(n), \A q \in Node : known[q] \subseteq known'[q],
             job'[n].pc \in {"out", "in"} => job'[n].by = n
      PROVE  Idles'
  <2> SUFFICES ASSUME NEW q \in Node
               PROVE  q \in known'[q] /\ (job'[q].pc \in {"out", "in"} => job'[q].by = q)
    BY DEF Idles
  <2>1. q \in known'[q]
    BY <1>2 DEF Idles
  <2>2. CASE q = n
    BY <1>2, <2>1, <2>2
  <2>3. CASE q # n
    <3>1. job'[q] = job[q]
      BY <1>2, <2>3, Membership
    <3> QED
      BY <2>1, <3>1 DEF Idles
  <2> QED
    BY <2>2, <2>3
<1>3. job \in [Node -> Job] /\ known \in [Node -> SUBSET (Node \cup {NoNode})]
  BY DEF TypeInvariant, TypeOK
<1>4. ASSUME NEW n \in Node, Step(n) PROVE Idles'
  <2>1. Steps(n)
    BY <1>4, SearchType, LinkType, InitFingersType, UpdateType, FailType DEF Step
  <2> QED
    BY <1>2, <1>4, <2>1, StepIdles
<1>5. ASSUME NEW n \in Node, JoinFirst(n) PROVE Idles'
  <2>1. job[n].pc = "out" /\ Steps(n)
    BY <1>5, StartType DEF JoinFirst, Joined, Joining
  <2>2. job'[n].by = n
    <3>1. job[n] \in Job /\ job[n].by = n
      BY <1>3, <2>1 DEF Idles
    <3>2. job'[n] = [job[n] EXCEPT !.pc = "in"]
      BY <1>3, <1>5 DEF JoinFirst
    <3> QED
      BY <3>1, <3>2 DEF Job
  <2> QED
    BY <1>2, <1>5, <2>1, <2>2 DEF JoinFirst
<1>6. ASSUME NEW n \in Node, NEW existing \in Node, Join(n, existing) PROVE Idles'
  <2>1. Steps(n) /\ job'[n].pc = "ask"
    BY <1>3, <1>6, StartType DEF Join, Job
  <2>2. \A q \in Node : known[q] \subseteq known'[q]
    BY <1>3, <1>6 DEF Join
  <2> QED
    BY <1>2, <2>1, <2>2
<1>7. ASSUME NEW n \in Node, NEW key \in Asked, LookUp(n, key) PROVE Idles'
  <2>1. Steps(n) /\ job'[n].pc = "ask" /\ UNCHANGED known
    BY <1>3, <1>7, StartType DEF LookUp, NewJob
  <2> QED
    BY <1>2, <2>1
<1> QED
  BY <1>1, <1>4, <1>5, <1>6, <1>7 DEF Next

\* Only a call under way fails.
LEMMA IdleIsNotLost ==
  ASSUME Idles, NEW n \in Node, job[n].pc = "in", NoNode \notin Node
  PROVE  ~Lost(n)
<1>1. job[n].by = n /\ n \in known[n]
  BY DEF Idles
<1>0. n # NoNode
  OBVIOUS
<1>2. Caller(n) = n /\ Callee(n) = n
  BY <1>1 DEF Caller, Callee
<1> QED
  BY <1>0, <1>1, <1>2 DEF Lost, CanCall

-----------------------------------------------------------------------------
(* What the steps are to Directory. *)

LEMMA Mapping ==
  /\ Lookups!vars = <<Members, Queries, Answers>>
  /\ Lookups!vars' = <<Members', Queries', Answers'>>
  /\ Queries' = [n \in Node |-> Query(n)']
BY DEF Lookups!vars, Queries, Answers, Query

LEMMA RestOfQueries ==
  ASSUME NEW n \in Node, Steps(n)
  PROVE  \A q \in Node \ {n} : /\ Query(q)' = Query(q) /\ job'[q].result = job[q].result
                               /\ LookingUp(q)' <=> LookingUp(q)
                               /\ q \in Joined' <=> q \in Joined
BY Membership DEF Query, LookingUp, Joined

LEMMA StutterMaps ==
  ASSUME NEW n \in Node, Steps(n), Members' = Members, Query(n)' = Query(n),
         job'[n].result = job[n].result
  PROVE  UNCHANGED Lookups!vars
<1>1. Queries' = Queries
  <2>1. \A q \in Node : Query(q)' = Query(q)
    BY RestOfQueries
  <2> QED
    BY <2>1, Mapping DEF Queries
<1>2. Answers' = Answers
  <2>1. \A q \in Node : job'[q].result = job[q].result
    BY RestOfQueries
  <2> QED
    BY <2>1 DEF Answers
<1> QED
  BY <1>1, <1>2, Mapping

LEMMA EnterMaps ==
  ASSUME NEW n \in Node, Steps(n), Members' = Members \cup {n}, Query(n)' = Query(n),
         job'[n].result = job[n].result
  PROVE  Lookups!Enter(n)
<1>1. Queries' = Queries
  <2>1. \A q \in Node : Query(q)' = Query(q)
    BY RestOfQueries
  <2> QED
    BY <2>1, Mapping DEF Queries
<1>2. Answers' = Answers
  <2>1. \A q \in Node : job'[q].result = job[q].result
    BY RestOfQueries
  <2> QED
    BY <2>1 DEF Answers
<1> QED
  BY <1>1, <1>2 DEF Lookups!Enter, Queries, Query, Answers

LEMMA AskMaps ==
  ASSUME TypeInvariant, NEW n \in Node, NEW key \in Asked, LookUp(n, key)
  PROVE  /\ Steps(n) /\ Members' = Members /\ n \in Members /\ n \in Joined /\ n \in Joined'
         /\ job'[n] = [NewJob(n) EXCEPT !.pc = "ask", !.key = key, !.members = Members]
         /\ Lookups!Ask(n, key)
<1>1. /\ job[n] \in Job /\ Fits(job[n]) /\ job \in [Node -> Job]
  BY NodesAreKeys DEF TypeInvariant, TypeOK, Indexed
<1>2. /\ Steps(n) /\ job[n].pc = "in" /\ job[n].goal = "lookup"
      /\ job'[n] = [NewJob(n) EXCEPT !.pc = "ask", !.key = key, !.members = Members]
  BY <1>1, StartType DEF LookUp, Fits
<1>3. /\ job'[n].pc = "ask" /\ job'[n].goal = "lookup" /\ job'[n].key = key
      /\ job'[n].members = Members /\ job'[n].result = NoNode
  BY <1>2 DEF NewJob
<1>4. n \in Members /\ n \in Members' /\ n \in Joined /\ n \in Joined'
  BY <1>2, <1>3, Membership DEF Members, Joined
<1>5. Members' = Members
  BY <1>2, <1>4, Membership, NodesAreKeys
<1>6. Query(n) = {} /\ Query(n)' = {[key |-> key, since |-> Members]}
  BY <1>2, <1>3, <1>4 DEF Query, LookingUp
<1>7. Queries[n] = {} /\ Queries' = [Queries EXCEPT ![n] = {[key |-> key, since |-> Members]}]
  <2>1. \A q \in Node \ {n} : Query(q)' = Query(q)
    BY <1>2, RestOfQueries
  <2> HIDE DEF Query
  <2> QED
    BY <1>6, <2>1, Mapping DEF Queries
<1>8. Answers' = [Answers EXCEPT ![n] = NoNode]
  <2>1. \A q \in Node \ {n} : job'[q].result = job[q].result
    BY <1>2, RestOfQueries
  <2> QED
    BY <1>3, <2>1 DEF Answers
<1>9. Lookups!Ask(n, key)
  BY <1>4, <1>5, <1>7, <1>8 DEF Lookups!Ask, Queries, Query, Answers
<1> QED
  BY <1>2, <1>4, <1>5, <1>9

LEMMA TellMaps ==
  ASSUME TypeInvariant, RingInvariant, LookUpsCross, NEW n \in Node, Answer(n)
  PROVE  /\ Steps(n) /\ Members' = Members /\ n \in Joined' /\ ~LookingUp(n)'
         /\ \E result \in Node : Lookups!Tell(n, result)
<1>1. /\ job[n] \in Job /\ Fits(job[n]) /\ job \in [Node -> Job]
  BY NodesAreKeys DEF TypeInvariant, TypeOK, Indexed
<1> DEFINE j == job[n]
<1>0. PICK r : r = finger[j.cur][0]
  OBVIOUS
<1>2. /\ Steps(n) /\ j.pc = "found" /\ j.goal = "lookup"
      /\ job'[n] = [NewJob(n) EXCEPT !.pc = "in", !.result = r]
  BY <1>0, <1>1, SearchType DEF Answer, FindSuccessor
<1>3. job'[n].pc = "in" /\ job'[n].goal = "lookup" /\ job'[n].result = r
  BY <1>2 DEF NewJob
<1>4. /\ LookingUp(n) /\ ~LookingUp(n)' /\ n \in Joined' /\ n \in Members /\ n \in Members'
  BY <1>2, <1>3, Membership DEF LookingUp, Joined, Members
<1>5. Members' = Members
  BY <1>2, <1>4, Membership, NodesAreKeys
<1>6. /\ j.cur \in Members /\ j.members \subseteq Members
      /\ Gap(j.cur, j.key) <= Gap(j.cur, r) \/ r \notin j.members
  BY <1>0, <1>2, <1>4 DEF LookUpsCross, Crossing
<1>7. r \in Members /\ r \in Node /\ \A m \in Members : Gap(j.cur, r) <= Gap(j.cur, m)
  BY <1>0, <1>6, NodesAreKeys DEF RingInvariant, SuccessorsFormRing, OnRing
<1>8. Lookups!IsOwner(r, j.key, j.members) \/ r \in Members \ j.members
  <2>1. CASE r \in j.members
    <3>1. ASSUME NEW m \in j.members PROVE Dist(j.key, r) <= Dist(j.key, m)
      <4>1. j.cur \in Key /\ j.key \in Key /\ r \in Key /\ m \in Key
        BY <1>1, <1>6, <1>7, NodesAreKeys DEF Job
      <4> QED
        BY <1>6, <1>7, <2>1, <4>1, NextIsOwner
    <3> QED
      BY <2>1, <3>1 DEF Lookups!IsOwner, Lookups!Dist, Dist, Lookups!Size, Size
  <2> QED
    BY <1>7, <2>1
<1>9. Query(n) = {[key |-> j.key, since |-> j.members]} /\ Query(n)' = {}
  BY <1>4 DEF Query
<1>10. Queries[n] = {[key |-> j.key, since |-> j.members]} /\ Queries' = [Queries EXCEPT ![n] = {}]
  <2>1. \A q \in Node \ {n} : Query(q)' = Query(q)
    BY <1>2, RestOfQueries
  <2> HIDE DEF Query
  <2> QED
    BY <1>9, <2>1, Mapping DEF Queries
<1>11. Answers' = [Answers EXCEPT ![n] = r]
  <2>1. \A q \in Node \ {n} : job'[q].result = job[q].result
    BY <1>2, RestOfQueries
  <2> QED
    BY <1>3, <2>1 DEF Answers
<1>12. \E q \in Queries[n] : \/ Lookups!IsOwner(r, q.key, q.since)
                             \/ r \in Members \ q.since
  BY <1>8, <1>10
<1>13. Lookups!Tell(n, r)
  BY <1>5, <1>10, <1>11, <1>12 DEF Lookups!Tell, Queries, Query, Answers
<1>14. \E result \in Node : Lookups!Tell(n, result)
  BY <1>7, <1>13
<1> QED
  BY <1>2, <1>4, <1>5, <1>14

\* A call that fails ends the look-up, with the answer it had: none.
LEMMA GiveUpMaps ==
  ASSUME TypeInvariant, Idles, LookUpsCross, NEW n \in Node \ Joining, Fail(n)
  PROVE  /\ Steps(n) /\ Members' = Members /\ n \in Joined' /\ ~LookingUp(n)'
         /\ Lookups!GiveUp(n)
<1>1. /\ Fits(job[n]) /\ n \in Node /\ NoNode \notin Node
  BY NodesAreKeys DEF TypeInvariant, Indexed
<1>2. job[n].pc # "out" /\ job[n].goal = "lookup"
  BY DEF Fail, Lost, Joining
<1>3. LookingUp(n) /\ n \in Members /\ Crossing(n)
  <2>1. job[n].pc # "in"
    BY <1>1, IdleIsNotLost DEF Fail
  <2> QED
    BY <1>2, <2>1 DEF LookingUp, Joined, Members, LookUpsCross
<1>4. Steps(n) /\ job'[n] = [NewJob(n) EXCEPT !.pc = "in"]
  BY <1>2, FailType, LookUpFails
<1>5. job'[n].pc = "in" /\ job'[n].goal = "lookup" /\ job'[n].result = job[n].result
  BY <1>3, <1>4 DEF NewJob, Crossing
<1>6. n \in Members' /\ n \in Joined' /\ ~LookingUp(n)'
  BY <1>4, <1>5, Membership DEF LookingUp, Joined
<1>7. Members' = Members
  BY <1>3, <1>4, <1>6, Membership, NodesAreKeys
<1>8. Queries[n] # {} /\ Queries' = [Queries EXCEPT ![n] = {}]
  <2>1. \A q \in Node \ {n} : Query(q)' = Query(q)
    BY <1>4, RestOfQueries
  <2>2. Query(n) # {} /\ Query(n)' = {}
    BY <1>3, <1>6 DEF Query
  <2> HIDE DEF Query
  <2> QED
    BY <2>1, <2>2, Mapping DEF Queries
<1>9. Answers' = Answers
  <2>1. \A q \in Node : job'[q].result = job[q].result
    BY <1>4, <1>5, RestOfQueries
  <2> QED
    BY <2>1 DEF Answers
<1>10. Lookups!GiveUp(n)
  BY <1>7, <1>8, <1>9 DEF Lookups!GiveUp, Queries, Query, Answers
<1> QED
  BY <1>4, <1>6, <1>7, <1>10

\* findPredecessor, for a look-up, keeps to what it has seen.
LEMMA SearchCrosses ==
  ASSUME TypeInvariant, RingInvariant, LookUpsCross, NEW n \in Node \ Joining,
         Ask(n) \/ Hop(n) \/ ReadSuccessor(n)
  PROVE  /\ Steps(n) /\ Members' = Members /\ n \in Joined' /\ n \in Joined
         /\ Crossing(n)' /\ UNCHANGED Lookups!vars
<1>1. /\ job[n] \in Job /\ Fits(job[n]) /\ job \in [Node -> Job]
  BY NodesAreKeys DEF TypeInvariant, TypeOK, Indexed
<1> DEFINE j == job[n]
           k == job'[n]
           now == finger[j.cur][0]
<1>2. Steps(n) /\ UNCHANGED finger /\ j.pc \in {"ask", "hop", "successor"}
  BY <1>1, SearchType DEF Ask, Hop, ReadSuccessor
<1>3. j.goal = "lookup" /\ LookingUp(n) /\ n \in Joined /\ n \in Members
  BY <1>2 DEF Joining, LookingUp, Joined, Members
<1>4. Crossing(n)
  BY <1>3 DEF LookUpsCross
<1>5. /\ k.goal = "lookup" /\ k.key = j.key /\ k.members = j.members /\ k.result = j.result
      /\ k.by = j.by /\ k.pc \in {"hop", "successor", "found"}
  <2>1. CASE Ask(n)
    BY <1>1, <1>3, <2>1 DEF Ask, Job
  <2>2. CASE Hop(n)
    BY <1>1, <1>3, <2>2 DEF Hop, Found, Job
  <2>3. CASE ReadSuccessor(n)
    BY <1>1, <1>3, <2>3 DEF ReadSuccessor, Job
  <2> QED
    BY <2>1, <2>2, <2>3
<1>6. n \in Joined' /\ n \in Members' /\ LookingUp(n)'
  BY <1>2, <1>5, Membership DEF Joined, LookingUp
<1>7. Members' = Members
  BY <1>2, <1>3, <1>6, Membership, NodesAreKeys
<1>8. UNCHANGED Lookups!vars
  <2>1. Query(n)' = Query(n)
    BY <1>3, <1>5, <1>6 DEF Query
  <2> QED
    BY <1>2, <1>5, <1>7, <2>1, StutterMaps
<1>9. CASE Ask(n)
  <2>1. k.pc = "hop" /\ k.cur = n /\ k.succ = finger[n][0]
    BY <1>1, <1>4, <1>9 DEF Ask, Job, Crossing
  <2>2. Crossing(n)'
    BY <1>2, <1>3, <1>4, <1>5, <1>7, <2>1 DEF Crossing
  <2> QED
    BY <1>2, <1>3, <1>6, <1>7, <1>8, <2>2
<1>10. CASE Hop(n) /\ Found(n)
  <2>1. j.pc = "hop" /\ k.pc = "found" /\ k.cur = j.cur
    BY <1>1, <1>3, <1>10 DEF Hop, Found, Job
  <2>2. IsBetweenLeftOpenRightClosed(j.key, IdOf(j.cur), IdOf(j.succ))
    BY <1>1, <1>10, <2>1 DEF Hop, Job
  <2>3. j.cur \in Members /\ now \in Members
    BY <1>4, <2>1, MembersKnowMembers DEF Crossing
  <2>4. ASSUME j.succ = now PROVE Gap(j.cur, j.key) <= Gap(j.cur, now)
    <3>1. /\ j.cur \in Key /\ j.key \in Key /\ now \in Key
          /\ IdOf(j.cur) = j.cur /\ IdOf(now) = now
      BY <1>1, <2>3, NodesAreKeys DEF Job
    <3>2. IsBetweenLeftOpenRightClosed(j.key, j.cur, now)
      BY <2>2, <2>4, <3>1
    <3> QED
      BY <3>1, <3>2, ArcsCorrect DEF IntervalsAreArcs
  <2>5. Gap(j.cur, j.key) <= Gap(j.cur, now) \/ now \notin j.members
    BY <1>4, <2>1, <2>4 DEF Crossing
  <2>6. Crossing(n)'
    BY <1>2, <1>4, <1>5, <1>7, <2>1, <2>3, <2>5 DEF Crossing, Gap, Size
  <2> QED
    BY <1>2, <1>3, <1>6, <1>7, <1>8, <2>6
<1>11. CASE Hop(n) /\ ~Found(n)
  <2> DEFINE next == ClosestPrecedingFinger(j.cur, j.key)
  <2>1. j.pc = "hop" /\ k.pc = "successor" /\ k.cur = next
    BY <1>1, <1>11 DEF Hop, Job
  <2>2. next \in Members \cup {NoNode}
    BY <1>4, <2>1, MembersKnowMembers DEF Crossing
  <2>3. Crossing(n)'
    BY <1>4, <1>5, <1>7, <2>1, <2>2 DEF Crossing
  <2> QED
    BY <1>2, <1>3, <1>6, <1>7, <1>8, <2>3
<1>12. CASE ReadSuccessor(n)
  <2>1. /\ j.pc = "successor" /\ k.pc = "hop" /\ k.cur = j.cur /\ k.succ = now
        /\ j.cur # NoNode
    BY <1>1, <1>12 DEF ReadSuccessor, CanCall, Job
  <2>2. Crossing(n)'
    BY <1>2, <1>4, <1>5, <1>7, <2>1 DEF Crossing
  <2> QED
    BY <1>2, <1>3, <1>6, <1>7, <1>8, <2>2
<1> QED
  BY <1>9, <1>10, <1>11, <1>12

\* The two nodes of a step: who takes it, and the others.
LEMMA LookUpsGoOn ==
  ASSUME RingInvariant, RingInvariant', LookUpsCross, NoAnswerYet, NEW n \in Node, Steps(n),
         Members \subseteq Members', LookingUp(n)' => Crossing(n)',
         n \notin Joined' => job'[n].result = NoNode
  PROVE  LookUpsCross' /\ NoAnswerYet'
<1>1. LookUpsCross'
  BY OthersCross DEF LookUpsCross
<1>2. NoAnswerYet'
  BY RestOfQueries DEF NoAnswerYet
<1> QED
  BY <1>1, <1>2

LEMMA DirectoryStep ==
  ASSUME MaxJoins = 1, TypeInvariant, RingInvariant, JoinsReach, Idles, LookUpsCross,
         NoAnswerYet, [Next]_vars
  PROVE  LookUpsCross' /\ NoAnswerYet' /\ [Lookups!Next]_(Lookups!vars)
<1>1. RingInvariant'
  BY RingSteps
<1>2. CASE UNCHANGED vars
  <2>1. UNCHANGED Lookups!vars
    BY <1>2 DEF vars, Lookups!vars, Members, LookingUp, Joined
  <2>2. LookUpsCross' /\ NoAnswerYet'
    BY <1>2 DEF vars, LookUpsCross, NoAnswerYet, Crossing, LookingUp, Joined, Members, Gap, Size
  <2> QED
    BY <2>1, <2>2
<1>3. ASSUME NEW n \in Node, JoinFirst(n)
      PROVE  LookUpsCross' /\ NoAnswerYet' /\ Lookups!Enter(n)
  <2>1. job[n] \in Job /\ job \in [Node -> Job] /\ Fits(job[n])
    BY DEF TypeInvariant, TypeOK, Indexed
  <2>2. Members = {} /\ n \notin Joined /\ job[n].pc = "out" /\ job[n].goal = "lookup"
    BY <1>3, <2>1, NodesAreKeys DEF JoinFirst, Joined, Joining, Fits
  <2>3. /\ Steps(n) /\ job'[n].pc = "in" /\ job'[n].goal = "lookup"
        /\ job'[n].result = job[n].result
    BY <1>3, <2>1, <2>2, StartType DEF JoinFirst, Job
  <2>4. Members' = {n} /\ ~LookingUp(n) /\ ~LookingUp(n)' /\ n \in Joined'
    BY <2>2, <2>3, Membership DEF LookingUp, Joined
  <2>5. LookUpsCross' /\ NoAnswerYet'
    BY <1>1, <2>2, <2>3, <2>4, LookUpsGoOn
  <2> QED
    BY <2>2, <2>3, <2>4, <2>5, EnterMaps DEF Query
<1>4. ASSUME NEW n \in Node, NEW existing \in Node, Join(n, existing)
      PROVE  LookUpsCross' /\ NoAnswerYet' /\ UNCHANGED Lookups!vars
  <2>1. job[n] \in Job /\ job \in [Node -> Job]
    BY DEF TypeInvariant, TypeOK
  <2>2. /\ Steps(n) /\ job[n].pc = "out" /\ job'[n].goal = "successor"
        /\ job'[n].result = job[n].result
    BY <1>4, <2>1, StartType DEF Join, Job
  <2>3. n \notin Members /\ n \notin Members' /\ n \notin Joined
    BY <2>2, Membership DEF Members, Joined
  <2>4. /\ Members' = Members /\ ~LookingUp(n) /\ ~LookingUp(n)'
        /\ job'[n].result = NoNode
    <3>1. Members' = Members
      BY <2>2, <2>3, Membership, NodesAreKeys
    <3>2. ~LookingUp(n) /\ ~LookingUp(n)'
      BY <2>2 DEF LookingUp, Joined
    <3>3. job'[n].result = NoNode
      BY <2>2, <2>3 DEF NoAnswerYet
    <3> QED
      BY <3>1, <3>2, <3>3
  <2>5. LookUpsCross' /\ NoAnswerYet'
    BY <1>1, <2>2, <2>4, LookUpsGoOn
  <2> QED
    BY <2>2, <2>4, <2>5, StutterMaps DEF Query
<1>5. ASSUME NEW n \in Node, NEW key \in Asked, LookUp(n, key)
      PROVE  LookUpsCross' /\ NoAnswerYet' /\ Lookups!Ask(n, key)
  <2>1. /\ Steps(n) /\ Members' = Members /\ n \in Joined' /\ Lookups!Ask(n, key)
        /\ job'[n] = [NewJob(n) EXCEPT !.pc = "ask", !.key = key, !.members = Members]
    BY <1>5, AskMaps
  <2>2. Crossing(n)'
    BY <2>1 DEF Crossing, NewJob
  <2>3. LookUpsCross' /\ NoAnswerYet'
    BY <1>1, <2>1, <2>2, LookUpsGoOn
  <2> QED
    BY <2>1, <2>3
<1>6. ASSUME NEW n \in Joining, Step(n)
      PROVE  LookUpsCross' /\ NoAnswerYet' /\ (Lookups!Enter(n) \/ UNCHANGED Lookups!vars)
  <2>1. n \in Node /\ ~Fail(n)
    BY NodesAreKeys DEF JoinsReach, Fail
  <2>2. /\ Steps(n) /\ ~LookingUp(n) /\ ~LookingUp(n)'
        /\ job'[n].result \in {job[n].result, NoNode}
        /\ Members' \in {Members, Members \cup {n}}
    BY <1>6, <2>1, JoinerStep
  <2>3. job'[n].result = job[n].result /\ job[n].result = NoNode
    BY <2>1, <2>2, JoinerAlone DEF NoAnswerYet, Joined
  <2>4. LookUpsCross' /\ NoAnswerYet'
    BY <1>1, <2>1, <2>2, <2>3, LookUpsGoOn
  <2> QED
    BY <2>1, <2>2, <2>3, <2>4, EnterMaps, StutterMaps DEF Query
<1>7. ASSUME NEW n \in Node \ Joining, Step(n)
      PROVE  /\ LookUpsCross' /\ NoAnswerYet'
             /\ \/ UNCHANGED Lookups!vars
                \/ \E result \in Node : Lookups!Tell(n, result)
                \/ Lookups!GiveUp(n)
  <2>1. Ask(n) \/ Hop(n) \/ ReadSuccessor(n) \/ Answer(n) \/ Fail(n)
    <3>1. Fits(job[n])
      BY DEF TypeInvariant, Indexed
    <3> QED
      BY <1>7, <3>1 DEF Step, Joining, Fits, SetFirstFinger, GetPredecessor, SetPredecessor,
            SetSuccessor, InitFinger, SetFinger, FindSuccessor, UpdateOthers, UpdateDone, UpdateFinger
  <2>2. CASE Answer(n)
    <3>1. /\ Steps(n) /\ Members' = Members /\ n \in Joined' /\ ~LookingUp(n)'
          /\ \E result \in Node : Lookups!Tell(n, result)
      BY <2>2, TellMaps
    <3>2. LookUpsCross' /\ NoAnswerYet'
      BY <1>1, <3>1, LookUpsGoOn
    <3> QED
      BY <3>1, <3>2
  <2>3. CASE Ask(n) \/ Hop(n) \/ ReadSuccessor(n)
    <3>1. /\ Steps(n) /\ Members' = Members /\ n \in Joined'
          /\ Crossing(n)' /\ UNCHANGED Lookups!vars
      BY <2>3, SearchCrosses
    <3>2. LookUpsCross' /\ NoAnswerYet'
      BY <1>1, <3>1, LookUpsGoOn
    <3> QED
      BY <3>1, <3>2
  <2>4. CASE Fail(n)
    <3>1. /\ Steps(n) /\ Members' = Members /\ n \in Joined' /\ ~LookingUp(n)'
          /\ Lookups!GiveUp(n)
      BY <2>4, GiveUpMaps
    <3>2. LookUpsCross' /\ NoAnswerYet'
      BY <1>1, <3>1, LookUpsGoOn
    <3> QED
      BY <3>1, <3>2
  <2> QED
    BY <2>1, <2>2, <2>3, <2>4
<1>8. \A n \in Node, key \in Asked : Lookups!Ask(n, key) => Lookups!Next
  BY AskedAssumption DEF Lookups!Next, Lookups!Key, Lookups!Size, Key, Size
<1>9. \A n \in Node : \/ Lookups!Enter(n)
                      \/ \E result \in Node : Lookups!Tell(n, result)
                      \/ Lookups!GiveUp(n)
                      => Lookups!Next
  BY DEF Lookups!Next
<1> QED
  BY <1>2, <1>3, <1>4, <1>5, <1>6, <1>7, <1>8, <1>9 DEF Next

LEMMA InitDirectory == Init => Idles /\ LookUpsCross /\ NoAnswerYet /\ Lookups!Init
<1> SUFFICES ASSUME Init PROVE Idles /\ LookUpsCross /\ NoAnswerYet /\ Lookups!Init
  OBVIOUS
<1>1. \A n \in Node : job[n].pc = "out" /\ job[n].result = NoNode /\ job[n].by = n
  BY DEF Init, NewJob
<1>2. Members = {} /\ Joined = {} /\ \A n \in Node : ~LookingUp(n)
  BY <1>1 DEF Members, Joined, LookingUp
<1>3. Idles
  BY <1>1 DEF Init, Idles
<1> QED
  BY <1>1, <1>2, <1>3 DEF LookUpsCross, NoAnswerYet, Lookups!Init

LEMMA LookUpsCrossHolds ==
  MaxJoins = 1 => (Spec /\ []JoinsReach => [](Idles /\ LookUpsCross /\ NoAnswerYet))
<1> SUFFICES ASSUME MaxJoins = 1
             PROVE  Spec /\ []JoinsReach => [](Idles /\ LookUpsCross /\ NoAnswerYet)
  OBVIOUS
<1>1. Init => Idles /\ LookUpsCross /\ NoAnswerYet
  BY InitDirectory
<1>2. TypeInvariant /\ RingInvariant /\ JoinsReach /\ Idles /\ LookUpsCross /\ NoAnswerYet /\ [Next]_vars
        => LookUpsCross' /\ NoAnswerYet'
  BY DirectoryStep
<1>3. Spec /\ []JoinsReach => [](TypeInvariant /\ RingInvariant)
  BY RingHolds
<1>4. Spec /\ []JoinsReach => []Idles
  BY <1>1, <1>3, NextIdles, PTL DEF Spec
<1> QED
  BY <1>1, <1>2, <1>3, <1>4, PTL DEF Spec

\* When nodes join one at a time and no Join fails, every look-up of findSuccessor
\* that is answered is answered by the key's owner as it began or by a node that
\* has entered since, and one whose call fails has no answer.
THEOREM LookUpsFindOwners == MaxJoins = 1 => (Spec /\ []JoinsReach => ImplementsDirectory)
<1> SUFFICES ASSUME MaxJoins = 1 PROVE Spec /\ []JoinsReach => ImplementsDirectory
  OBVIOUS
<1>1. Init => Lookups!Init
  BY InitDirectory
<1>2. TypeInvariant /\ RingInvariant /\ JoinsReach /\ Idles /\ LookUpsCross /\ NoAnswerYet /\ [Next]_vars
        => [Lookups!Next]_(Lookups!vars)
  BY DirectoryStep
<1>3. Spec /\ []JoinsReach => [](TypeInvariant /\ RingInvariant)
  BY RingHolds
<1>4. Spec /\ []JoinsReach => [](Idles /\ LookUpsCross /\ NoAnswerYet)
  BY LookUpsCrossHolds
<1> QED
  BY <1>1, <1>2, <1>3, <1>4, PTL DEF Spec, ImplementsDirectory, Lookups!Spec

-----------------------------------------------------------------------------
(* Whom searches and updates come to, however Joins overlap and fail.      *)

\* Who is referred to has a successor and a predecessor, though its Join may
\* be far from over, or have failed.
Entered(x) == predecessor[x] # NoNode /\ finger[x][0] # NoNode

\* InitFingerTable fills a table from below; updateOthers begins when it is full.
FilledTo(n, i) == predecessor[n] # NoNode /\ \A k \in 0 .. i : finger[n][k] # NoNode
Whole(n)       == predecessor[n] # NoNode /\ \A k \in Index : finger[n][k] # NoNode

Stage(n) == LET j == job[n] IN
  /\ j.cur # NoNode => Entered(j.cur)
  /\ j.pc = "ask" => Entered(j.by)
  /\ j.goal \in {"successor", "finger"} => Entered(j.existing)
  /\ j.pc \in {"setPredecessor", "setSuccessor"} => Entered(n)
  /\ j.goal = "finger" /\ j.pc # "updateOthers" => FilledTo(n, j.i)
  /\ j.goal = "update" \/ j.pc = "updateOthers" \/ n \in Joined => Whole(n)
References == /\ \A n \in Node, k \in Index : finger[n][k] # NoNode => Entered(finger[n][k])
              /\ \A n \in Node : predecessor[n] # NoNode => Entered(predecessor[n])
TablesLead == References /\ \A n \in Node : Stage(n)

\* Entered after the step.  What is set stays set.
Enters(x) == predecessor'[x] # NoNode /\ finger'[x][0] # NoNode
Grows == /\ \A n \in Node, k \in Index : finger[n][k] # NoNode => finger'[n][k] # NoNode
         /\ \A n \in Node : predecessor[n] # NoNode => predecessor'[n] # NoNode

\* The types that the steps below read.
Typed(n) == /\ job[n] \in Job /\ Fits(job[n]) /\ job \in [Node -> Job]
            /\ FingerType /\ predecessor \in [Node -> Node \cup {NoNode}]

LEMMA TypedJobs == ASSUME TypeInvariant, NEW n \in Node PROVE Typed(n)
BY DEF TypeInvariant, TypeOK, Indexed, FingerType, Typed

LEMMA WholeIsEntered == ASSUME NEW n \in Node PROVE Whole(n) => Entered(n)
BY Numbers DEF Whole, Entered

\* The other jobs are where they were, and those they refer to stay entered.
LEMMA OthersLead ==
  ASSUME TypeInvariant, TablesLead, NEW n \in Node, Steps(n), Grows, References', Stage(n)'
  PROVE  TablesLead'
<1>1. \A x \in Node : Entered(x) => Enters(x)
  BY Numbers DEF Entered, Enters, Grows
<1>2. ASSUME NEW m \in Node, m # n PROVE Stage(m)'
  <2>1. /\ job'[m] = job[m] /\ (m \in Joined' <=> m \in Joined)
        /\ Stage(m) /\ Typed(m)
    BY <1>2, TypedJobs DEF Steps, Joined, TablesLead
  <2>2. /\ job[m].cur \in Node \cup {NoNode} /\ job[m].by \in Node
        /\ job[m].existing \in Node /\ job[m].i \in 0 .. M
    BY <2>1 DEF Typed, Job
  <2>3. Whole(m) => Whole(m)'
    BY DEF Whole, Grows
  <2>4. job[m].goal = "finger" /\ job[m].pc # "updateOthers" => job[m].i \in Index
    BY <2>1, <2>2, Numbers DEF Typed, Fits, Search, Index
  <2>5. job[m].i \in Index /\ FilledTo(m, job[m].i) => FilledTo(m, job[m].i)'
    <3>1. ASSUME NEW k \in 0 .. job[m].i, job[m].i \in Index PROVE k \in Index
      BY <3>1, Numbers DEF Index
    <3> QED
      BY <2>1, <3>1 DEF FilledTo, Grows
  <2> QED
    BY <1>1, <2>1, <2>2, <2>3, <2>4, <2>5 DEF Stage, Entered, Enters
<1> QED
  BY <1>2 DEF TablesLead

\* A step that sets nothing, one that sets a finger and one that sets a
\* predecessor, to somebody who has entered.
LEMMA SetsNothing ==
  ASSUME TablesLead, UNCHANGED <<finger, predecessor>>
  PROVE  Grows /\ References' /\ \A x : Entered(x) => Enters(x)
BY DEF TablesLead, References, Entered, Enters, Grows

LEMMA SetsAFinger ==
  ASSUME TypeInvariant, TablesLead, UNCHANGED predecessor, NEW q \in Node, NEW k \in Index,
         NEW x \in Node, Entered(x), finger' = [finger EXCEPT ![q][k] = x]
  PROVE  /\ Grows /\ References' /\ finger'[q][k] = x
         /\ \A y \in Node : Entered(y) => Enters(y)
<1>1. \A m \in Node, i \in Index : finger'[m][i] = IF m = q /\ i = k THEN x ELSE finger[m][i]
  BY DEF TypeInvariant, TypeOK
<1>2. x # NoNode
  BY NodesAreKeys
<1>3. Grows /\ \A y \in Node : Entered(y) => Enters(y)
  BY <1>1, <1>2, Numbers DEF Grows, Entered, Enters
<1>4. \A m \in Node : /\ predecessor[m] \in Node \cup {NoNode}
                      /\ \A i \in Index : finger[m][i] \in Node \cup {NoNode}
  BY DEF TypeInvariant, TypeOK
<1>5. \A m \in Node, i \in Index : finger'[m][i] # NoNode => Enters(finger'[m][i])
  BY <1>1, <1>3, <1>4 DEF TablesLead, References
<1>6. \A m \in Node : predecessor'[m] # NoNode => Enters(predecessor'[m])
  BY <1>3, <1>4 DEF TablesLead, References
<1> QED
  BY <1>1, <1>3, <1>5, <1>6 DEF References, Entered, Enters

LEMMA SetsAPredecessor ==
  ASSUME TypeInvariant, TablesLead, UNCHANGED finger, NEW q \in Node,
         NEW x \in Node, Entered(x), predecessor' = [predecessor EXCEPT ![q] = x]
  PROVE  /\ Grows /\ References' /\ predecessor'[q] = x
         /\ \A y \in Node : Entered(y) => Enters(y)
<1>1. \A m \in Node : predecessor'[m] = IF m = q THEN x ELSE predecessor[m]
  BY DEF TypeInvariant, TypeOK
<1>2. x # NoNode
  BY NodesAreKeys
<1>3. Grows /\ \A y \in Node : Entered(y) => Enters(y)
  BY <1>1, <1>2 DEF Grows, Entered, Enters
<1>4. \A m \in Node : /\ predecessor[m] \in Node \cup {NoNode}
                      /\ \A i \in Index : finger[m][i] \in Node \cup {NoNode}
  BY DEF TypeInvariant, TypeOK
<1>5. \A m \in Node : predecessor'[m] # NoNode => Enters(predecessor'[m])
  BY <1>1, <1>3, <1>4 DEF TablesLead, References
<1>6. \A m \in Node, i \in Index : finger'[m][i] # NoNode => Enters(finger'[m][i])
  BY <1>3, <1>4 DEF TablesLead, References
<1> QED
  BY <1>1, <1>3, <1>5, <1>6 DEF References, Entered, Enters

LEMMA StartLeads ==
  ASSUME TypeInvariant, TablesLead, NEW n \in Node,
         \/ JoinFirst(n)
         \/ \E existing \in Node : Join(n, existing)
         \/ \E key \in Asked : LookUp(n, key)
  PROVE  TablesLead'
<1>1. Typed(n) /\ Stage(n) /\ Steps(n)
  BY TypedJobs, StartType DEF TablesLead
<1>2. CASE JoinFirst(n)
  <2>1. /\ job[n].pc = "out" /\ job[n].goal = "lookup" /\ job[n].cur \in Node \cup {NoNode}
        /\ job'[n] = [job[n] EXCEPT !.pc = "in"]
    BY <1>1, <1>2 DEF JoinFirst, Joined, Joining, Typed, Fits, Job
  <2>2. /\ \A i \in Index : finger'[n][i] = n
        /\ predecessor'[n] = n
        /\ \A m \in Node \ {n} : finger'[m] = finger[m] /\ predecessor'[m] = predecessor[m]
    BY <1>1, <1>2 DEF JoinFirst, Typed, FingerType
  <2>3. \A x \in Node : Entered(x) \/ x = n => Enters(x)
    BY <2>2, NodesAreKeys, Numbers DEF Entered, Enters
  <2>4. Grows
    BY <2>2, NodesAreKeys DEF Grows
  <2>5. \A m \in Node : /\ predecessor[m] \in Node \cup {NoNode}
                        /\ \A i \in Index : finger[m][i] \in Node \cup {NoNode}
    BY DEF TypeInvariant, TypeOK
  <2>6. \A m \in Node, i \in Index : finger'[m][i] # NoNode => Enters(finger'[m][i])
    BY <2>2, <2>3, <2>5 DEF TablesLead, References
  <2>7. \A m \in Node : predecessor'[m] # NoNode => Enters(predecessor'[m])
    BY <2>2, <2>3, <2>5 DEF TablesLead, References
  <2>8. References'
    BY <2>6, <2>7 DEF References, Entered, Enters
  <2>9. Whole(n)' /\ job'[n].cur = job[n].cur /\ job'[n].pc = "in" /\ job'[n].goal = "lookup"
    BY <1>1, <2>1, <2>2, NodesAreKeys DEF Whole, Typed, Job
  <2>10. Stage(n)'
    BY <1>1, <2>1, <2>3, <2>9 DEF Stage, Entered, Enters
  <2> QED
    BY <1>1, <2>4, <2>8, <2>10, OthersLead
<1>3. ASSUME NEW existing \in Node, Join(n, existing) PROVE TablesLead'
  <2>1. /\ job'[n].pc = "ask" /\ job'[n].goal = "successor" /\ job'[n].existing = existing
        /\ job'[n].by = existing /\ job'[n].cur = job[n].cur
        /\ UNCHANGED <<finger, predecessor>> /\ existing \in Joined
    BY <1>1, <1>3 DEF Join, Typed, Job
  <2>2. Entered(existing)
    BY <2>1, WholeIsEntered DEF TablesLead, Stage
  <2>3. n \notin Joined'
    BY <2>1 DEF Joined
  <2>4. Stage(n)'
    BY <1>1, <2>1, <2>2, <2>3 DEF Stage, Entered
  <2> QED
    BY <1>1, <2>1, <2>4, OthersLead, SetsNothing
<1>4. ASSUME NEW key \in Asked, LookUp(n, key) PROVE TablesLead'
  <2>1. /\ job'[n].pc = "ask" /\ job'[n].goal = "lookup" /\ job'[n].by = n
        /\ job'[n].cur = NoNode /\ UNCHANGED <<finger, predecessor>>
    BY <1>1, <1>4 DEF LookUp, NewJob, Typed
  <2>2. Whole(n) /\ Entered(n)
    BY <1>1, <1>4, WholeIsEntered DEF LookUp, Typed, Fits, Joined, Stage
  <2>3. Stage(n)'
    BY <2>1, <2>2 DEF Stage, Entered, Whole
  <2> QED
    BY <1>1, <2>1, <2>3, OthersLead, SetsNothing
<1> QED
  BY <1>2, <1>3, <1>4

\* findSuccessor comes to fingers of whom it has come to.
LEMMA SearchLeads ==
  ASSUME TypeInvariant, TablesLead, NEW n \in Node,
         Ask(n) \/ Hop(n) \/ ReadSuccessor(n) \/ Answer(n)
  PROVE  TablesLead'
<1>1. Typed(n) /\ Stage(n) /\ Steps(n) /\ job[n].cur \in Node \cup {NoNode}
  BY TypedJobs, SearchType DEF TablesLead, Typed, Job
<1>2. UNCHANGED <<finger, predecessor>>
  BY DEF Ask, Hop, ReadSuccessor, Answer
<1>3. SUFFICES Stage(n)'
  BY <1>1, <1>2, OthersLead, SetsNothing
<1>4. ASSUME NEW cur, NEW pc, cur # NoNode => Entered(cur), pc \in Search \cup {"updateFinger"},
             job[n].pc \in Search, job'[n].pc = pc, job'[n].cur = cur, pc # "ask",
             job'[n].goal = job[n].goal, job'[n].existing = job[n].existing,
             job'[n].i = job[n].i
      PROVE  Stage(n)'
  <2>1. n \in Joined' => n \in Joined
    BY <1>4 DEF Joined, Search
  <2> QED
    BY <1>1, <1>2, <1>4, <2>1 DEF Stage, Entered, Whole, FilledTo, Search
<1>5. CASE Ask(n)
  <2>1. job[n].pc = "ask" /\ job'[n] = [job[n] EXCEPT !.pc = "hop", !.cur = job[n].by,
                                                      !.succ = finger[job[n].by][0]]
    BY <1>1, <1>5 DEF Ask, Typed
  <2>2. /\ job'[n].pc = "hop" /\ job'[n].cur = job[n].by /\ job'[n].goal = job[n].goal
        /\ job'[n].existing = job[n].existing /\ job'[n].i = job[n].i
    BY <1>1, <2>1 DEF Typed, Job
  <2>3. Entered(job[n].by)
    BY <1>1, <2>1 DEF Stage
  <2> QED
    BY <1>4, <2>1, <2>2, <2>3 DEF Search
<1>6. CASE Hop(n)
  <2>1. CASE Found(n)
    <3>1. /\ job[n].pc = "hop" /\ job'[n].pc \in {"updateFinger", "found"}
          /\ job'[n].cur = job[n].cur /\ job'[n].goal = job[n].goal
          /\ job'[n].existing = job[n].existing /\ job'[n].i = job[n].i
      BY <1>1, <1>6, <2>1 DEF Hop, Found, Typed, Job
    <3>2. job[n].cur # NoNode => Entered(job[n].cur)
      BY <1>1 DEF Stage
    <3> QED
      BY <1>4, <3>1, <3>2 DEF Search
  <2>2. ASSUME NEW next, next = ClosestPrecedingFinger(job[n].cur, job[n].key),
               CanCall(job[n].by, job[n].cur),
               job' = [job EXCEPT ![n].pc = "successor", ![n].cur = next]
        PROVE  Stage(n)'
    <3>1. job[n].cur \in Node /\ Entered(job[n].cur)
      BY <1>1, <2>2, NodesAreKeys DEF CanCall, Stage
    <3>2. next # NoNode => Entered(next)
      <4>1. next = job[n].cur \/ \E i \in Index : next = finger[job[n].cur][i]
        BY <2>2, PrecedingIsFinger DEF Preceding
      <4> QED
        BY <3>1, <4>1 DEF TablesLead, References
    <3>3. /\ job[n].pc = "hop" /\ job'[n].pc = "successor" /\ job'[n].cur = next
          /\ job'[n].goal = job[n].goal
          /\ job'[n].existing = job[n].existing /\ job'[n].i = job[n].i
      BY <1>1, <1>6, <2>2 DEF Hop, Typed, Job
    <3> QED
      BY <1>4, <3>2, <3>3 DEF Search
  <2> QED
    BY <1>6, <2>1, <2>2 DEF Hop
<1>7. CASE ReadSuccessor(n)
  <2>1. /\ job[n].pc = "successor" /\ job'[n].pc = "hop" /\ job'[n].cur = job[n].cur
        /\ job'[n].goal = job[n].goal
        /\ job'[n].existing = job[n].existing /\ job'[n].i = job[n].i
    BY <1>1, <1>7 DEF ReadSuccessor, Typed, Job
  <2>2. job[n].cur # NoNode => Entered(job[n].cur)
    BY <1>1 DEF Stage
  <2> QED
    BY <1>4, <2>1, <2>2 DEF Search
<1>8. CASE Answer(n)
  <2>1. /\ job'[n].pc = "in" /\ job'[n].goal = "lookup" /\ job'[n].cur = NoNode
        /\ job[n].goal = "lookup" /\ job[n].pc = "found"
    BY <1>1, <1>8 DEF Answer, FindSuccessor, NewJob, Typed
  <2>2. Whole(n)
    BY <1>1, <2>1 DEF Stage, Joined
  <2> QED
    BY <1>2, <2>1, <2>2 DEF Stage, Whole
<1> QED
  BY <1>5, <1>6, <1>7, <1>8

\* The answer of findSuccessor has entered.
LEMMA AnswerHasEntered ==
  ASSUME TypeInvariant, TablesLead, NEW n \in Node, NEW goal, NEW result,
         FindSuccessor(n, goal, result)
  PROVE  result \in Node /\ Entered(result)
<1>1. job[n].cur \in Node /\ result = finger[job[n].cur][0] /\ result \in Node \cup {NoNode}
  BY FindSuccessorType DEF FindSuccessor
<1>2. Entered(job[n].cur)
  BY <1>1, NodesAreKeys DEF TablesLead, Stage
<1> QED
  BY <1>1, <1>2, Numbers DEF Entered, TablesLead, References

\* A joiner is told to others when it has a successor and a predecessor.
LEMMA LinkLeads ==
  ASSUME TypeInvariant, TablesLead, NEW n \in Node,
         SetFirstFinger(n) \/ GetPredecessor(n) \/ SetPredecessor(n) \/ SetSuccessor(n)
  PROVE  TablesLead'
<1>1. /\ Typed(n) /\ Stage(n) /\ Steps(n) /\ job[n].cur \in Node \cup {NoNode}
      /\ job[n].existing \in Node
  BY TypedJobs, LinkType DEF TablesLead, Typed, Job
<1>2. \A b : CanCall(n, b) => b \in Node /\ b # NoNode
  BY CallType, NodesAreKeys DEF TypeInvariant
<1>3. CASE SetFirstFinger(n)
  <2> DEFINE result == finger[job[n].cur][0]
  <2>1. /\ FindSuccessor(n, "successor", result) /\ finger' = [finger EXCEPT ![n][0] = result]
        /\ UNCHANGED predecessor
        /\ job'[n] = [job[n] EXCEPT !.pc = "getPredecessor", !.by = n]
    BY <1>1, <1>3 DEF SetFirstFinger, Typed
  <2>2. result \in Node /\ Entered(result)
    BY <2>1, AnswerHasEntered
  <2> HIDE DEF result
  <2>3. Grows /\ References' /\ \A y \in Node : Entered(y) => Enters(y)
    BY <2>1, <2>2, SetsAFinger, Numbers
  <2>4. /\ job'[n].pc = "getPredecessor" /\ job'[n].goal = "successor"
        /\ job'[n].cur = job[n].cur /\ job'[n].existing = job[n].existing
        /\ job[n].goal = "successor"
    BY <1>1, <2>1 DEF FindSuccessor, Typed, Job
  <2>5. Stage(n)'
    BY <1>1, <2>3, <2>4 DEF Stage, Entered, Enters, Joined
  <2> QED
    BY <1>1, <2>3, <2>5, OthersLead
<1>4. CASE GetPredecessor(n)
  <2> DEFINE succ == finger[n][0]
             pred == predecessor[succ]
  <2>1. /\ succ \in Node /\ succ # NoNode /\ predecessor' = [predecessor EXCEPT ![n] = pred]
        /\ UNCHANGED finger /\ job'[n] = [job[n] EXCEPT !.pc = "setPredecessor"]
        /\ job[n].pc = "getPredecessor" /\ job[n].goal = "successor"
    BY <1>1, <1>2, <1>4 DEF GetPredecessor, Typed, Fits
  <2>2. Entered(succ) /\ pred \in Node /\ Entered(pred)
    <3>1. Entered(succ) /\ pred # NoNode /\ pred \in Node \cup {NoNode}
      BY <1>1, <2>1, Numbers DEF TablesLead, References, Entered, Typed
    <3> QED
      BY <2>1, <3>1 DEF TablesLead, References
  <2>3. /\ Grows /\ References' /\ predecessor'[n] = pred
        /\ \A y \in Node : Entered(y) => Enters(y)
    <3> HIDE DEF pred
    <3> QED
      BY <2>1, <2>2, SetsAPredecessor
  <2>4. Enters(n)
    BY <2>1, <2>2, <2>3, NodesAreKeys DEF Enters
  <2>5. /\ job'[n].pc = "setPredecessor" /\ job'[n].goal = "successor"
        /\ job'[n].cur = job[n].cur /\ job'[n].existing = job[n].existing
    BY <1>1, <2>1 DEF Typed, Job
  <2>6. Stage(n)'
    BY <1>1, <2>1, <2>3, <2>4, <2>5 DEF Stage, Entered, Enters, Joined
  <2> QED
    BY <1>1, <2>3, <2>6, OthersLead
<1>5. CASE SetPredecessor(n)
  <2> DEFINE succ == finger[n][0]
  <2>1. /\ succ \in Node /\ predecessor' = [predecessor EXCEPT ![succ] = n]
        /\ UNCHANGED finger /\ job'[n] = [job[n] EXCEPT !.pc = "setSuccessor"]
        /\ job[n].pc = "setPredecessor" /\ job[n].goal = "successor"
    BY <1>1, <1>2, <1>5 DEF SetPredecessor, Typed, Fits
  <2>2. Entered(n)
    BY <1>1, <2>1 DEF Stage
  <2>3. /\ Grows /\ References' /\ \A y \in Node : Entered(y) => Enters(y)
    <3> HIDE DEF succ
    <3> QED
      BY <2>1, <2>2, SetsAPredecessor
  <2>4. /\ job'[n].pc = "setSuccessor" /\ job'[n].goal = "successor"
        /\ job'[n].cur = job[n].cur /\ job'[n].existing = job[n].existing
    BY <1>1, <2>1 DEF Typed, Job
  <2>5. Stage(n)'
    BY <1>1, <2>1, <2>2, <2>3, <2>4 DEF Stage, Entered, Enters, Joined
  <2> QED
    BY <1>1, <2>3, <2>5, OthersLead
<1>6. CASE SetSuccessor(n)
  <2> DEFINE pred == predecessor[n]
  <2>1. /\ pred \in Node /\ finger' = [finger EXCEPT ![pred][0] = n]
        /\ UNCHANGED predecessor
        /\ job'[n] = [job[n] EXCEPT !.pc = "initFingers", !.goal = "finger", !.i = 0]
        /\ job[n].pc = "setSuccessor" /\ job[n].goal = "successor"
    BY <1>1, <1>2, <1>6 DEF SetSuccessor, Typed, Fits
  <2>2. Entered(n)
    BY <1>1, <2>1 DEF Stage
  <2>3. /\ Grows /\ References' /\ \A y \in Node : Entered(y) => Enters(y)
    <3> HIDE DEF pred
    <3> QED
      BY <2>1, <2>2, SetsAFinger, Numbers
  <2>4. /\ job'[n].pc = "initFingers" /\ job'[n].goal = "finger" /\ job'[n].i = 0
        /\ job'[n].cur = job[n].cur /\ job'[n].existing = job[n].existing
    BY <1>1, <2>1 DEF Typed, Job
  <2>5. FilledTo(n, 0)'
    <3>1. \A k \in 0 .. 0 : k = 0
      OBVIOUS
    <3> QED
      BY <2>2, <2>3, <3>1 DEF FilledTo, Enters
  <2>6. Stage(n)'
    BY <1>1, <2>1, <2>3, <2>4, <2>5 DEF Stage, Entered, Enters, Joined
  <2> QED
    BY <1>1, <2>3, <2>6, OthersLead
<1> QED
  BY <1>3, <1>4, <1>5, <1>6

\* Finger i + 1 is finger i, or an answer of findSuccessor.
LEMMA FingersLead ==
  ASSUME TypeInvariant, TablesLead, NEW n \in Node, InitFinger(n) \/ SetFinger(n)
  PROVE  TablesLead'
<1> DEFINE i == job[n].i
<1>1. /\ Typed(n) /\ Stage(n) /\ Steps(n) /\ job[n].cur \in Node \cup {NoNode}
      /\ job[n].existing \in Node
  BY TypedJobs, InitFingersType DEF TablesLead, Typed, Job
<1>2. job[n].goal = "finger" /\ job[n].pc \in Search \cup {"initFingers"} /\ UNCHANGED predecessor
  BY <1>1 DEF InitFinger, SetFinger, FindSuccessor, Typed, Fits, Search
<1>3. i \in Nat /\ i < M - 1 /\ i \in Index /\ i + 1 \in Index
  <2>1. i \in 0 .. M /\ i < M - 1
    BY <1>1, <1>2 DEF Typed, Fits, Search, Job, InitFinger, SetFinger, FindSuccessor
  <2> QED
    BY <2>1, Numbers DEF Index
<1>4. FilledTo(n, i)
  BY <1>1, <1>2 DEF Stage, Search
<1> HIDE DEF i
<1>5. ASSUME NEW x \in Node, Entered(x), finger' = [finger EXCEPT ![n][i + 1] = x],
             job'[n].pc = "initFingers", job'[n].goal = "finger", job'[n].i = i + 1,
             job'[n].cur = job[n].cur, job'[n].existing = job[n].existing
      PROVE  TablesLead'
  <2>1. /\ Grows /\ References' /\ finger'[n][i + 1] = x
        /\ \A y \in Node : Entered(y) => Enters(y)
    BY <1>2, <1>3, <1>5, SetsAFinger
  <2>2. predecessor'[n] # NoNode /\ \A k \in 0 .. i + 1 : finger'[n][k] # NoNode
    <3>1. \A k \in 0 .. i + 1 : k \in Index /\ (k \in 0 .. i \/ k = i + 1)
      BY <1>3, Numbers DEF Index
    <3>2. predecessor'[n] # NoNode /\ x # NoNode
      BY <1>4, <2>1, NodesAreKeys DEF FilledTo, Grows
    <3> QED
      BY <1>4, <2>1, <3>1, <3>2 DEF FilledTo, Grows
  <2>3. Stage(n)'
    <3>1. n \notin Joined'
      BY <1>5 DEF Joined
    <3>2. FilledTo(n, job[n].i)'
      BY <1>5, <2>2 DEF FilledTo
    <3> QED
      BY <1>1, <1>2, <1>5, <2>1, <3>1, <3>2 DEF Stage, Entered, Enters
  <2> QED
    BY <1>1, <2>1, <2>3, OthersLead
<1>6. CASE InitFinger(n)
  <2> DEFINE start == FingerStart(n, i + 1)
  <2>1. CASE IsBetweenLeftClosedRightOpen(start, n, IdOf(finger[n][i]))
    <3>1. /\ finger' = [finger EXCEPT ![n][i + 1] = finger[n][i]]
          /\ job' = [job EXCEPT ![n].i = i + 1] /\ job[n].pc = "initFingers"
      BY <1>6, <2>1 DEF InitFinger, i
    <3>2. finger[n][i] \in Node
      BY <1>1, <1>3, <1>4 DEF FilledTo, Typed, FingerType
    <3>3. Entered(finger[n][i])
      BY <1>3, <3>2, NodesAreKeys DEF TablesLead, References
    <3>4. /\ job'[n].pc = "initFingers" /\ job'[n].goal = "finger" /\ job'[n].i = i + 1
          /\ job'[n].cur = job[n].cur /\ job'[n].existing = job[n].existing
      BY <1>1, <1>2, <3>1 DEF Typed, Job
    <3> QED
      BY <1>5, <3>1, <3>2, <3>3, <3>4
  <2>2. CASE ~IsBetweenLeftClosedRightOpen(start, n, IdOf(finger[n][i]))
    <3>1. /\ job' = [job EXCEPT ![n].pc = "ask", ![n].goal = "finger", ![n].key = start,
                                ![n].by = job[n].existing]
          /\ UNCHANGED <<finger, predecessor>>
      BY <1>6, <2>2 DEF InitFinger, i
    <3>2. /\ job'[n].pc = "ask" /\ job'[n].goal = "finger" /\ job'[n].i = job[n].i
          /\ job'[n].by = job[n].existing
          /\ job'[n].cur = job[n].cur /\ job'[n].existing = job[n].existing
      BY <1>1, <3>1 DEF Typed, Job
    <3>3. Entered(job[n].existing)
      BY <1>1, <1>2 DEF Stage
    <3>4. Stage(n)'
      BY <1>1, <1>2, <3>1, <3>2, <3>3 DEF Stage, Entered, FilledTo, Joined, Search
    <3> QED
      BY <1>1, <3>1, <3>4, OthersLead, SetsNothing
  <2> QED
    BY <2>1, <2>2
<1>7. CASE SetFinger(n)
  <2> DEFINE result == finger[job[n].cur][0]
  <2>1. /\ FindSuccessor(n, "finger", result) /\ finger' = [finger EXCEPT ![n][i + 1] = result]
        /\ job' = [job EXCEPT ![n].pc = "initFingers", ![n].by = n, ![n].i = @ + 1]
    BY <1>7 DEF SetFinger, i
  <2>2. result \in Node /\ Entered(result)
    BY <2>1, AnswerHasEntered
  <2>3. /\ job'[n].pc = "initFingers" /\ job'[n].goal = "finger" /\ job'[n].i = i + 1
        /\ job'[n].cur = job[n].cur /\ job'[n].existing = job[n].existing
    BY <1>1, <1>2, <2>1 DEF Typed, Job, i
  <2> HIDE DEF result
  <2> QED
    BY <1>5, <2>1, <2>2, <2>3
<1> QED
  BY <1>6, <1>7

\* A Join ends with its table full, and updates only replace fingers.
LEMMA UpdateLeads ==
  ASSUME TypeInvariant, TablesLead, NEW n \in Node, UpdateOthers(n) \/ UpdateDone(n) \/ UpdateFinger(n)
  PROVE  TablesLead'
<1>1. Typed(n) /\ Stage(n) /\ Steps(n) /\ job[n].cur \in Node \cup {NoNode}
  BY TypedJobs, UpdateType DEF TablesLead, Typed, Job
<1>2. Whole(n) /\ Entered(n) /\ job[n].goal \in {"finger", "update"}
  <2>1. CASE job[n].pc = "initFingers" /\ job[n].i = M - 1
    BY <1>1, <2>1, WholeIsEntered DEF Stage, Whole, FilledTo, Index, Typed, Fits
  <2>2. CASE job[n].pc \in {"updateOthers", "updateFinger"}
    BY <1>1, <2>2, WholeIsEntered DEF Stage, Typed, Fits
  <2> QED
    BY <2>1, <2>2 DEF UpdateOthers, UpdateDone, UpdateFinger
<1>3. ASSUME NEW cur, cur # NoNode => Entered(cur), UNCHANGED <<finger, predecessor>>,
             job'[n].cur = cur, job'[n].goal = "update", job'[n].pc = "ask" => job'[n].by = n,
             job'[n].pc \notin {"setPredecessor", "setSuccessor"}
      PROVE  TablesLead'
  <2>1. Stage(n)'
    BY <1>2, <1>3 DEF Stage, Entered, Whole, Joined
  <2> QED
    BY <1>1, <1>3, <2>1, OthersLead, SetsNothing
<1>4. job[n].cur # NoNode => Entered(job[n].cur)
  BY <1>1 DEF Stage
<1>5. CASE UpdateOthers(n)
  <2>1. UNCHANGED <<finger, predecessor>>
    BY <1>5 DEF UpdateOthers
  <2>2. CASE job[n].pc = "initFingers" /\ job' = [job EXCEPT ![n].pc = "updateOthers", ![n].i = 0]
    <3>1. /\ job'[n].pc = "updateOthers" /\ job'[n].goal = "finger" /\ job'[n].cur = job[n].cur
          /\ job'[n].existing = job[n].existing /\ job[n].goal = "finger"
      BY <1>1, <2>2 DEF Typed, Fits, Job
    <3>2. Stage(n)'
      BY <1>1, <1>2, <2>1, <3>1 DEF Stage, Entered, Whole, Joined
    <3> QED
      BY <1>1, <2>1, <3>2, OthersLead, SetsNothing
  <2>3. CASE /\ job[n].pc = "updateOthers"
             /\ job' = [job EXCEPT ![n].pc = "ask", ![n].goal = "update", ![n].by = n,
                                   ![n].key = SubtractInt(n, 2 ^ job[n].i)]
    <3>1. /\ job'[n].pc = "ask" /\ job'[n].goal = "update" /\ job'[n].by = n
          /\ job'[n].cur = job[n].cur
      BY <1>1, <2>3 DEF Typed, Job
    <3> QED
      BY <1>3, <1>4, <2>1, <3>1
  <2>4. CASE job' = [job EXCEPT ![n] = [NewJob(n) EXCEPT !.pc = "in"]]
    <3>1. job'[n].pc = "in" /\ job'[n].goal = "lookup" /\ job'[n].cur = NoNode
      BY <1>1, <2>4 DEF NewJob, Typed
    <3>2. Stage(n)'
      BY <1>2, <2>1, <3>1 DEF Stage, Whole
    <3> QED
      BY <1>1, <2>1, <3>2, OthersLead, SetsNothing
  <2> QED
    BY <1>5, <2>2, <2>3, <2>4 DEF UpdateOthers
<1>6. ASSUME NextUpdate(n), job[n].pc = "updateFinger", UNCHANGED <<finger, predecessor>>
      PROVE  TablesLead'
  <2>1. job'[n].pc = "updateOthers" /\ job'[n].goal = "update" /\ job'[n].cur = job[n].cur
    BY <1>1, <1>6 DEF NextUpdate, Typed, Fits, Job
  <2> QED
    BY <1>3, <1>4, <1>6, <2>1
<1>7. CASE UpdateDone(n)
  BY <1>6, <1>7 DEF UpdateDone
<1>8. CASE UpdateFinger(n)
  <2> DEFINE p == job[n].cur
             i == job[n].i
  <2>1. p \in Node /\ p # NoNode /\ i \in Index /\ UNCHANGED predecessor
    <3>1. i \in 0 .. M /\ i < M
      BY <1>1, <1>8 DEF UpdateFinger, Typed, Fits, Job
    <3> QED
      BY <1>1, <1>8, <3>1, Numbers, NodesAreKeys DEF UpdateFinger, CanCall, Index
  <2>2. CASE NextUpdate(n) /\ UNCHANGED finger
    BY <1>6, <1>8, <2>1, <2>2 DEF UpdateFinger
  <2>3. CASE /\ finger' = [finger EXCEPT ![p][i] = n]
             /\ job' = [job EXCEPT ![n].by = p, ![n].cur = predecessor[p]]
    <3>1. Grows /\ References' /\ \A y \in Node : Entered(y) => Enters(y)
      <4> HIDE DEF p, i
      <4> QED
        BY <1>2, <2>1, <2>3, SetsAFinger
    <3>2. predecessor[p] \in Node \cup {NoNode}
      BY <1>1, <2>1 DEF Typed
    <3>3. predecessor[p] # NoNode => Enters(predecessor[p])
      BY <2>1, <3>1, <3>2 DEF TablesLead, References
    <3>4. /\ job'[n].pc = "updateFinger" /\ job'[n].goal = "update"
          /\ job'[n].cur = predecessor[p]
      BY <1>1, <1>8, <2>3 DEF UpdateFinger, Typed, Fits, Job
    <3>5. Whole(n)'
      BY <1>2, <3>1 DEF Whole, Grows
    <3>6. Stage(n)'
      BY <3>3, <3>4, <3>5 DEF Stage, Entered, Enters, Joined
    <3> QED
      BY <1>1, <3>1, <3>6, OthersLead
  <2> QED
    BY <1>8, <2>2, <2>3 DEF UpdateFinger
<1> QED
  BY <1>5, <1>7, <1>8

\* A Join that fails leaves what it has set.
LEMMA FailLeads ==
  ASSUME TypeInvariant, TablesLead, NEW n \in Node, Fail(n)
  PROVE  TablesLead'
<1>1. Typed(n) /\ Stage(n) /\ Steps(n) /\ UNCHANGED <<finger, predecessor>>
  BY TypedJobs, FailType DEF TablesLead, Fail
<1>2. CASE job[n].pc = "updateFinger" /\ NextUpdate(n)
  <2>1. /\ job'[n].pc = "updateOthers" /\ job'[n].goal = "update" /\ job'[n].cur = job[n].cur
        /\ job[n].goal = "update"
    BY <1>1, <1>2 DEF NextUpdate, Typed, Fits, Job
  <2>2. Stage(n)'
    BY <1>1, <2>1 DEF Stage, Entered, Whole, Joined
  <2> QED
    BY <1>1, <2>2, OthersLead, SetsNothing
<1>3. CASE job' = [job EXCEPT ![n] = [NewJob(n) EXCEPT !.pc = IF n \in Joined THEN "in" ELSE "out"]]
  <2>1. /\ job'[n].pc = (IF n \in Joined THEN "in" ELSE "out") /\ job'[n].goal = "lookup"
        /\ job'[n].cur = NoNode
    BY <1>1, <1>3 DEF NewJob, Typed
  <2>2. n \in Joined' => n \in Joined
    BY <2>1 DEF Joined
  <2>3. Stage(n)'
    BY <1>1, <2>1, <2>2 DEF Stage, Whole
  <2> QED
    BY <1>1, <2>3, OthersLead, SetsNothing
<1> QED
  BY <1>2, <1>3 DEF Fail

LEMMA NextLeads == TypeInvariant /\ TablesLead /\ [Next]_vars => TablesLead'
<1> SUFFICES ASSUME TypeInvariant, TablesLead, [Next]_vars PROVE TablesLead'
  OBVIOUS
<1>1. CASE UNCHANGED vars
  BY <1>1 DEF vars, TablesLead, References, Stage, Entered, Whole, FilledTo, Joined
<1>2. ASSUME NEW n \in Node, Step(n) PROVE TablesLead'
  BY <1>2, SearchLeads, LinkLeads, FingersLead, UpdateLeads, FailLeads DEF Step
<1> QED
  BY <1>1, <1>2, StartLeads DEF Next

\* Who is led to ChordNode{}: a search by the finger, an update by the predecessor,
\* of a node that has not finished its Join.
LEMMA LedAstray ==
  ASSUME TypeInvariant, TablesLead, [Next]_vars, NEW n \in Node,
         job'[n].pc \in {"successor", "updateFinger"},
         job[n].cur # NoNode, job'[n].cur = NoNode
  PROVE  job[n].cur \notin Joined
<1>1. Typed(n) /\ job[n].cur \in Node
  BY TypedJobs DEF Typed, Job
<1>2. job[n].cur \in Joined => Whole(job[n].cur)
  BY <1>1 DEF TablesLead, Stage
<1>3. ASSUME NEW m \in Node, Step(m), m # n PROVE FALSE
  <2>1. Steps(m)
    BY <1>3, SearchType, LinkType, InitFingersType, UpdateType, FailType DEF Step
  <2> QED
    BY <1>3, <2>1 DEF Steps
<1>4. ASSUME NEW m \in Node,
             \/ JoinFirst(m)
             \/ \E existing \in Node : Join(m, existing)
             \/ \E key \in Asked : LookUp(m, key)
      PROVE  FALSE
  <2>1. Steps(m)
    BY <1>4, StartType
  <2>2. m = n
    BY <2>1 DEF Steps
  <2>3. CASE JoinFirst(n)
    BY <1>1, <2>3 DEF JoinFirst, Typed, Job
  <2>4. ASSUME NEW existing \in Node, Join(n, existing) PROVE FALSE
    <3>1. job' = [job EXCEPT ![n].pc = "ask", ![n].goal = "successor", ![n].existing = existing,
                             ![n].by = existing, ![n].key = FingerStart(n, 0)]
      BY <2>4 DEF Join
    <3>2. job'[n].cur = job[n].cur
      BY <1>1, <3>1 DEF Typed, Job
    <3> QED
      BY <3>2
  <2>5. CASE \E key \in Asked : LookUp(n, key)
    BY <1>1, <2>5 DEF LookUp, Typed
  <2> QED
    BY <1>4, <2>2, <2>3, <2>4, <2>5
<1>5. CASE Step(n)
  <2>1. CASE Hop(n)
    <3>1. CASE Found(n)
      BY <1>1, <3>1 DEF Found, Typed, Job
    <3>2. CASE job' = [job EXCEPT ![n].pc = "successor",
                                  ![n].cur = ClosestPrecedingFinger(job[n].cur, job[n].key)]
      <4>1. job'[n].cur = ClosestPrecedingFinger(job[n].cur, job[n].key)
        BY <1>1, <3>2 DEF Typed, Job
      <4>2. \E i \in Index : NoNode = finger[job[n].cur][i]
        BY <4>1, PrecedingIsFinger DEF Preceding
      <4> QED
        BY <1>2, <4>2 DEF Whole
    <3> QED
      BY <2>1, <3>1, <3>2 DEF Hop
  <2>2. CASE UpdateFinger(n)
    <3>1. CASE NextUpdate(n)
      BY <1>1, <3>1 DEF NextUpdate, Typed, Job
    <3>2. CASE job' = [job EXCEPT ![n].by = job[n].cur, ![n].cur = predecessor[job[n].cur]]
      <4>1. job'[n].cur = predecessor[job[n].cur]
        BY <1>1, <3>2 DEF Typed, Job
      <4> QED
        BY <1>2, <4>1 DEF Whole
    <3> QED
      BY <2>2, <3>1, <3>2 DEF UpdateFinger
  <2>3. CASE Ask(n) \/ ReadSuccessor(n) \/ Answer(n)
    <3>1. CASE Ask(n)
      BY <1>1, <3>1 DEF Ask, Typed, Job
    <3>2. CASE ReadSuccessor(n)
      BY <1>1, <3>2 DEF ReadSuccessor, Typed, Job
    <3>3. CASE Answer(n)
      BY <1>1, <3>3 DEF Answer, NewJob, Typed
    <3> QED
      BY <2>3, <3>1, <3>2, <3>3
  <2>4. CASE SetFirstFinger(n) \/ GetPredecessor(n) \/ SetPredecessor(n) \/ SetSuccessor(n)
    BY <1>1, <2>4 DEF SetFirstFinger, GetPredecessor, SetPredecessor, SetSuccessor, Typed, Job
  <2>5. CASE InitFinger(n)
    BY <1>1, <2>5 DEF InitFinger, Typed, Job
  <2>6. CASE SetFinger(n)
    BY <1>1, <2>6 DEF SetFinger, Typed, Job
  <2>7. CASE UpdateOthers(n)
    BY <1>1, <2>7 DEF UpdateOthers, NewJob, Typed, Job
  <2>8. CASE UpdateDone(n)
    BY <1>1, <2>8 DEF UpdateDone, NextUpdate, Typed, Job
  <2>9. CASE Fail(n)
    BY <1>1, <2>9 DEF Fail, NextUpdate, NewJob, Typed, Job
  <2> QED
    BY <1>5, <2>1, <2>2, <2>3, <2>4, <2>5, <2>6, <2>7, <2>8, <2>9 DEF Step
<1>6. CASE UNCHANGED vars
  BY <1>6 DEF vars
<1> QED
  BY <1>3, <1>4, <1>5, <1>6 DEF Next

\* Whatever Joins fail, overlap and are tried again, and whoever looks a key up
\* meanwhile: searches and updates are led to ChordNode{} by half-joined nodes only.
THEOREM HalfJoinedMislead == Spec => OnlyHalfJoinedMislead
<1>1. Init => TablesLead
  <2> SUFFICES ASSUME Init PROVE TablesLead
    OBVIOUS
  <2>1. /\ \A n \in Node : predecessor[n] = NoNode /\ \A k \in Index : finger[n][k] = NoNode
        /\ \A n \in Node : /\ job[n].pc = "out" /\ job[n].goal = "lookup"
                           /\ job[n].cur = NoNode
    BY DEF Init, NewJob
  <2> QED
    BY <2>1 DEF TablesLead, References, Stage, Joined
<1>2. TypeInvariant /\ TablesLead /\ [Next]_vars
        => [\A n \in Node :
              /\ job'[n].pc \in {"successor", "updateFinger"}
              /\ job[n].cur # NoNode /\ job'[n].cur = NoNode
              => job[n].cur \notin Joined]_vars
  BY LedAstray
<1> QED
  BY <1>1, <1>2, InitType, NextType, NextLeads, PTL DEF Spec, OnlyHalfJoinedMislead

=============================================================================
