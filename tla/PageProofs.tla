----------------------------- MODULE PageProofs -----------------------------
(***************************************************************************)
(* Proofs about Page, for any number of jobs and of changes: the type      *)
(* invariant, that a job never shows what is older than what it has told,  *)
(* and that every panel does what Panel promises.                          *)
(***************************************************************************)
EXTENDS Page, TLAPS

\* The steps of Next by kind, not by method.
Steps ==
    \/ \E r \in Resource : Change(r)
    \/ \E j \in Job, o \in Op : Reject(j, o) \/ Submit(j, o) \/ Update(j, o)
    \/ \E j \in Job : Resolve(j) \/ Upload(j) \/ FileRead(j)
    \/ \E j \in Job : Serve(j) \/ Lose(j) \/ Continue(j)

LEMMA MethodSteps ==
    ASSUME NEW j \in Job, Method(j)
    PROVE  \/ \E o \in Op : Reject(j, o) \/ Submit(j, o) \/ Update(j, o)
           \/ Resolve(j) \/ Upload(j) \/ FileRead(j) \/ Continue(j)
<1>1. /\ {"unicast", "sendChat", "sendPrivate", "download"} \subseteq Op
      /\ {"table", "catalog", "searchAll", "searchFirst"} \subseteq Op
      /\ {"addPeer", "setEntry", "addEntry", "tag"} \subseteq Op
  BY DEF Op, Panel, Write
<1>2. CASE Send(j) \/ SendChat(j) \/ SendPrivate(j) \/ Download(j)
  BY <1>1, <1>2 DEF Send, SendChat, SendPrivate, Download, Enter, Continue
<1>3. CASE UpdateRouting(j) \/ AddPeer(j) \/ SetEntry(j) \/ UpdateCatalog(j) \/ AddEntry(j)
  BY <1>1, <1>3 DEF UpdateRouting, AddPeer, SetEntry, UpdateCatalog, AddEntry, Enter, Continue
<1>4. CASE SearchAll(j) \/ SearchFirst(j) \/ Tag(j)
  BY <1>1, <1>4 DEF SearchAll, SearchFirst, Tag, Enter, Continue
<1>5. CASE UploadFile(j) \/ ResolveName(j)
  BY <1>5 DEF UploadFile, ResolveName, Continue
<1> QED
  BY <1>2, <1>3, <1>4, <1>5 DEF Method

LEMMA NextSteps == Next => Steps
BY MethodSteps DEF Next, Steps

LEMMA OfType == Of \in [Op -> Resource]
BY DEF Of, Op, Panel, Write, Resource

LEMMA InitType == Init => TypeOK
BY JobsAssumption DEF Init, TypeOK, JobRecord, Job, Op, Panel, Write, Resource, Search

LEMMA AskedType ==
    ASSUME TypeOK, NEW o \in Op, NEW told \in Nat
    PROVE  Asked(o, told) \in JobRecord
BY OfType DEF Asked, TypeOK, JobRecord

LEMMA AskType ==
    ASSUME TypeOK, NEW j \in Job, NEW o \in Op, NEW told \in Nat, Ask(j, o, told)
    PROVE  jobs' \in [Job -> JobRecord]
BY AskedType DEF Ask, TypeOK

LEMMA EndType ==
    ASSUME TypeOK, NEW j \in Job, End(j)
    PROVE  jobs' \in [Job -> JobRecord]
BY DEF End, TypeOK, JobRecord

LEMMA PrintType ==
    ASSUME TypeOK, NEW j \in Job, NEW o \in Op, NEW kind \in {"success", "error"},
           PrintFlash(j, o, kind)
    PROVE  flashes' \subseteq [job : Job, op : Op, kind : {"success", "error"}]
BY DEF PrintFlash, TypeOK

LEMMA TouchType ==
    ASSUME TypeOK, NEW r \in Resource, Touch(r)
    PROVE  world' \in [Resource -> Nat]
BY DEF Touch, TypeOK

LEMMA ReportType ==
    ASSUME TypeOK, NEW j \in Job, NEW o \in Op, Report(j, o)
    PROVE  TypeOK'
BY EndType, PrintType DEF Report, TypeOK

LEMMA AnnounceType ==
    ASSUME TypeOK, NEW j \in Job, NEW o \in Op, Announce(j, o)
    PROVE  TypeOK'
BY EndType, PrintType DEF Announce, TypeOK

LEMMA DisplayType ==
    ASSUME TypeOK, NEW j \in Job, NEW o \in Panel, Display(j, o)
    PROVE  TypeOK'
<1>1. o \in Op
  BY DEF Op
<1>2. shown' \in [Panel -> Nat]
  BY DEF Display, TypeOK, JobRecord
<1> QED
  BY <1>1, <1>2, EndType, PrintType DEF Display, NoteReplaced, TypeOK

LEMMA AddedType ==
    ASSUME TypeOK, NEW j \in Job, NEW o \in Op, Added(j, o)
    PROVE  TypeOK'
<1>1. jobs[j].value \in Nat /\ "table" \in Op
  BY DEF TypeOK, JobRecord, Op, Panel
<1> QED
  BY <1>1, AskType, PrintType DEF Added, TypeOK

LEMMA BeginType ==
    ASSUME TypeOK, NEW j \in Job, NEW o \in Op,
           Reject(j, o) \/ Submit(j, o) \/ Update(j, o) \/ Resolve(j) \/ Upload(j)
    PROVE  TypeOK'
<1>1. CASE Reject(j, o)
  <2>1. jobs' \in [Job -> JobRecord]
    <3>1. [jobs[j] EXCEPT !.op = o, !.at = "done"] \in JobRecord
      BY DEF TypeOK, JobRecord
    <3>2. jobs' = [jobs EXCEPT ![j] = [jobs[j] EXCEPT !.op = o, !.at = "done"]]
      BY <1>1 DEF Reject, TypeOK
    <3> QED
      BY <3>1, <3>2 DEF TypeOK
  <2> QED
    BY <1>1, <2>1, PrintType DEF Reject, TypeOK
<1>2. CASE Submit(j, o)
  BY <1>2, AskType DEF Submit, Note, TypeOK
<1>3. CASE Update(j, o)
  BY <1>3, AskType DEF Update, TypeOK
<1>4. CASE Resolve(j)
  <2>1. "resolve" \in Op
    BY DEF Op, Panel
  <2>2. [Asked("resolve", 0) EXCEPT !.at = "failed"] \in JobRecord
    BY <2>1, AskedType DEF JobRecord
  <2>3. jobs' \in [Job -> JobRecord]
    BY <1>4, <2>1, <2>2, AskType DEF Resolve, TypeOK
  <2> QED
    BY <1>4, <2>1, <2>3, PrintType DEF Resolve, TypeOK
<1>5. CASE Upload(j)
  <2>1. "upload" \in Op
    BY DEF Op, Panel
  <2>2. [Asked("upload", 0) EXCEPT !.at = "reading"] \in JobRecord
    BY <2>1, AskedType DEF JobRecord
  <2>3. jobs' \in [Job -> JobRecord]
    BY <1>5, <2>1, <2>2 DEF Upload, TypeOK, JobRecord
  <2> QED
    BY <1>5, <2>1, <2>3, PrintType DEF Upload, TypeOK
<1> QED
  BY <1>1, <1>2, <1>3, <1>4, <1>5

LEMMA ServeType ==
    ASSUME TypeOK, NEW j \in Job, Serve(j)
    PROVE  TypeOK'
<1>1. Of[jobs[j].op] \in Resource
  BY OfType DEF TypeOK, JobRecord
<1>2. world' \in [Resource -> Nat]
  BY <1>1, TouchType DEF Serve, TypeOK
<1>3. Content(j) \in Nat
  BY <1>1, <1>2 DEF Content, TypeOK, JobRecord
<1>4. jobs' \in [Job -> JobRecord]
  <2> DEFINE c == Content(j)
             new == [jobs[j] EXCEPT !.at = "answered", !.value = c]
  <2>1. jobs' = [jobs EXCEPT ![j] = new] /\ jobs[j] \in JobRecord
    BY DEF Serve, TypeOK
  <2>2. c \in Nat
    BY <1>3
  <2> HIDE DEF c
  <2>3. new \in JobRecord
    BY <2>1, <2>2 DEF JobRecord
  <2> HIDE DEF new
  <2> QED
    BY <2>1, <2>3 DEF TypeOK
<1> QED
  BY <1>2, <1>4 DEF Serve, TypeOK

LEMMA ContinueType ==
    ASSUME TypeOK, NEW j \in Job, Continue(j)
    PROVE  TypeOK'
<1>1. Panel \subseteq Op /\ Write \subseteq Op /\ {"download", "unicast", "sendChat", "sendPrivate"} \subseteq Op
  BY DEF Op
<1>2. jobs[j] \in JobRecord
  BY DEF TypeOK
<1>3. CASE ShowTable(j)
  <2>1. "table" \in Op /\ "graph" \in Op /\ jobs[j].value \in Nat /\ jobs[j].told \in Nat
    BY <1>1, <1>2 DEF JobRecord, Panel
  <2>2. jobs' \in [Job -> JobRecord]
    BY <1>3, <2>1, AskType DEF ShowTable
  <2>3. shown' \in [Panel -> Nat]
    BY <1>3, <2>1 DEF ShowTable, TypeOK
  <2> QED
    BY <1>3, <2>1, <2>2, <2>3, PrintType DEF ShowTable, TypeOK
<1>4. CASE DrawGraph(j)
  <2>1. "graph" \in Op /\ jobs[j].value \in Nat
    BY <1>1, <1>2 DEF JobRecord, Panel
  <2>2. CASE Report(j, "graph")
    BY <2>1, <2>2, ReportType
  <2>3. CASE ~Report(j, "graph")
    <3>1. shown' \in [Panel -> Nat]
      BY <1>4, <2>1, <2>3 DEF DrawGraph, TypeOK
    <3> QED
      BY <1>4, <2>3, <3>1, EndType DEF DrawGraph, TypeOK
  <2> QED
    BY <2>2, <2>3
<1>5. CASE PeerAdded(j) \/ EntrySet(j)
  BY <1>1, <1>5, AddedType, ReportType DEF PeerAdded, EntrySet, Write
<1>6. CASE ShowCatalog(j)
  BY <1>1, <1>6, DisplayType, ReportType DEF ShowCatalog, Panel
<1>7. CASE EntryAdded(j)
  <2>1. "catalog" \in Op /\ "addEntry" \in Op /\ jobs[j].value \in Nat
    BY <1>1, <1>2 DEF JobRecord, Panel, Write
  <2> QED
    BY <1>7, <2>1, AskType, ReportType DEF EntryAdded, TypeOK
<1>8. CASE Uploaded(j) \/ SearchedAll(j) \/ SearchedFirst(j) \/ Resolved(j)
  BY <1>1, <1>8, DisplayType, ReportType
     DEF Uploaded, SearchedAll, SearchedFirst, Resolved, Panel
<1>9. CASE Downloaded(j) \/ Tagged(j) \/ ChatSent(j) \/ PrivateSent(j)
  BY <1>1, <1>9, AnnounceType, ReportType
     DEF Downloaded, Tagged, ChatSent, PrivateSent, Write
<1>10. CASE Sent(j)
  BY <1>1, <1>10, EndType, ReportType DEF Sent, TypeOK
<1> QED
  BY <1>3, <1>4, <1>5, <1>6, <1>7, <1>8, <1>9, <1>10 DEF Continue

LEMMA StepType == TypeOK /\ [Next]_vars => TypeOK'
<1> SUFFICES ASSUME TypeOK, [Next]_vars PROVE TypeOK'
  OBVIOUS
<1>1. ASSUME NEW r \in Resource, Change(r) PROVE TypeOK'
  BY <1>1, TouchType DEF Change, TypeOK
<1>2. ASSUME NEW j \in Job, FileRead(j) PROVE TypeOK'
  BY <1>2 DEF FileRead, TypeOK, JobRecord
<1>3. ASSUME NEW j \in Job, Lose(j) PROVE TypeOK'
  BY <1>3 DEF Lose, TypeOK, JobRecord
<1>4. CASE UNCHANGED vars
  BY <1>4 DEF vars, TypeOK
<1>5. \E o : o \in Op
  BY DEF Op
<1> QED
  BY <1>1, <1>2, <1>3, <1>4, <1>5, NextSteps, BeginType, ServeType, ContinueType DEF Steps

\* The variables keep their types whatever is clicked, answered or lost.
THEOREM PageTypeCorrect == Spec => []TypeOK
<1> QED
  BY InitType, StepType, PTL DEF Spec

-----------------------------------------------------------------------------
(***************************************************************************)
(* A job's versions are in order: what it told of, what its request asked  *)
(* for at least, what the answer holds, what the peer has now.             *)
(***************************************************************************)
Open == {"reading", "asked", "answered", "failed"}

Dated(b, w) ==
    b.at \in Open =>
        /\ b.since <= w[Of[b.op]]
        /\ b.op \in Panel => b.told <= b.since
        /\ b.at = "answered" => b.since <= b.value /\ b.value <= w[Of[b.op]]

AllDated == \A j \in Job : Dated(jobs[j], world)

LEMMA WorldGrows ==
    ASSUME TypeOK, [Next]_vars
    PROVE  \A r \in Resource : world[r] <= world'[r]
<1>1. TypeOK'
  BY StepType
<1>2. CASE UNCHANGED world
  BY <1>2 DEF TypeOK
<1>3. CASE \E r \in Resource : Touch(r)
  BY <1>3 DEF Touch, TypeOK
<1>4. (UNCHANGED world) \/ \E r \in Resource : Touch(r)
  <2>1. \A j \in Job : Of[jobs[j].op] \in Resource
    BY OfType DEF TypeOK, JobRecord
  <2>2. ASSUME NEW j \in Job, Continue(j) PROVE UNCHANGED world
    BY <2>2 DEF Continue, ShowTable, DrawGraph, PeerAdded, EntrySet, ShowCatalog, EntryAdded,
       Uploaded, Downloaded, SearchedAll, SearchedFirst, Resolved, Tagged, Sent, ChatSent,
       PrivateSent, Report, Announce, Display, Added
  <2>3. ASSUME NEW j \in Job, Serve(j) PROVE (UNCHANGED world) \/ \E r \in Resource : Touch(r)
    BY <2>1, <2>3 DEF Serve
  <2> QED
    BY <2>2, <2>3, NextSteps DEF Steps, vars, Change, Reject, Submit, Update, Resolve, Upload, FileRead, Lose
<1> QED
  BY <1>2, <1>3, <1>4

\* A job that does not move stays dated while the peer's resources change.
LEMMA StayDated ==
    ASSUME TypeOK, [Next]_vars, NEW b \in JobRecord, Dated(b, world)
    PROVE  Dated(b, world')
<1>1. Of[b.op] \in Resource
  BY OfType DEF JobRecord
<1>2. world[Of[b.op]] \in Nat /\ world'[Of[b.op]] \in Nat /\ world[Of[b.op]] <= world'[Of[b.op]]
  BY <1>1, WorldGrows, StepType DEF TypeOK
<1> QED
  BY <1>2 DEF Dated, JobRecord

\* Only the job that moves has to be looked at.
LEMMA OneMoves ==
    ASSUME TypeOK, AllDated, [Next]_vars, NEW j \in Job,
           \A i \in Job \ {j} : jobs'[i] = jobs[i],
           Dated(jobs'[j], world')
    PROVE  AllDated'
<1>1. \A i \in Job : jobs[i] \in JobRecord
  BY DEF TypeOK
<1>2. \A i \in Job \ {j} : Dated(jobs'[i], world')
  BY <1>1, StayDated DEF AllDated
<1>3. \A i \in Job : Dated(jobs'[i], world')
  BY <1>2
<1>4. AllDated' <=> \A i \in Job : Dated(jobs'[i], world')
  BY DEF AllDated
<1> QED
  BY <1>3, <1>4

\* A request asks for a version that is not older than what the job told of.
LEMMA AskDated ==
    ASSUME TypeOK, NEW j \in Job, NEW o \in Op, NEW told \in Nat, Ask(j, o, told),
           told <= world[Of[o]], UNCHANGED world
    PROVE  /\ \A i \in Job \ {j} : jobs'[i] = jobs[i]
           /\ Dated(jobs'[j], world')
<1>1. world[Of[o]] \in Nat
  BY OfType DEF TypeOK
<1> QED
  BY <1>1 DEF Ask, Asked, Dated, TypeOK

LEMMA EndDated ==
    ASSUME TypeOK, NEW j \in Job, End(j)
    PROVE  /\ \A i \in Job \ {j} : jobs'[i] = jobs[i]
           /\ Dated(jobs'[j], world')
BY DEF End, Dated, TypeOK, JobRecord, Open

LEMMA BeginDated ==
    ASSUME TypeOK, NEW j \in Job, NEW o \in Op,
           Reject(j, o) \/ Submit(j, o) \/ Update(j, o) \/ Resolve(j) \/ Upload(j)
    PROVE  /\ \A i \in Job \ {j} : jobs'[i] = jobs[i]
           /\ Dated(jobs'[j], world')
<1>1. \A a \in Op : world[Of[a]] \in Nat
  BY OfType DEF TypeOK
<1>2. "resolve" \in Op /\ "upload" \in Op
  BY DEF Op, Panel
<1>3. CASE Reject(j, o)
  BY <1>3 DEF Reject, Dated, TypeOK, JobRecord, Open
<1>4. CASE Submit(j, o) \/ Update(j, o)
  BY <1>1, <1>4, AskDated DEF Submit, Update
<1>5. CASE Resolve(j)
  BY <1>1, <1>2, <1>5 DEF Resolve, Ask, Asked, Dated, TypeOK
<1>6. CASE Upload(j)
  <2> DEFINE reading == [Asked("upload", 0) EXCEPT !.at = "reading"]
  <2>1. /\ UNCHANGED world
        /\ \/ jobs' = [jobs EXCEPT ![j].op = "upload", ![j].at = "done"]
           \/ jobs' = [jobs EXCEPT ![j] = reading]
    BY <1>6 DEF Upload
  <2>2. CASE jobs' = [jobs EXCEPT ![j].op = "upload", ![j].at = "done"]
    BY <2>2 DEF Dated, TypeOK, JobRecord, Open
  <2>3. CASE jobs' = [jobs EXCEPT ![j] = reading]
    <3>1. Dated(reading, world)
      BY <1>1, <1>2 DEF Asked, Dated
    <3> HIDE DEF reading
    <3> QED
      BY <2>1, <2>3, <3>1 DEF TypeOK
  <2> QED
    BY <2>1, <2>2, <2>3
<1> QED
  BY <1>3, <1>4, <1>5, <1>6

LEMMA ServeDated ==
    ASSUME TypeOK, AllDated, [Next]_vars, NEW j \in Job, Serve(j)
    PROVE  /\ \A i \in Job \ {j} : jobs'[i] = jobs[i]
           /\ Dated(jobs'[j], world')
<1> DEFINE r == Of[jobs[j].op]
<1>1. jobs[j] \in JobRecord /\ r \in Resource
  BY OfType DEF TypeOK, JobRecord
<1>2. world[r] \in Nat /\ world'[r] \in Nat /\ world[r] <= world'[r]
  BY <1>1, WorldGrows, StepType DEF TypeOK
<1>3. jobs[j].since <= world[r] /\ (jobs[j].op \in Panel => jobs[j].told <= jobs[j].since)
  BY DEF Serve, AllDated, Dated, Open
<1>4. jobs[j].since <= Content(j) /\ Content(j) <= world'[r]
  BY <1>1, <1>2, <1>3 DEF Content, JobRecord
<1>5. jobs' = [jobs EXCEPT ![j].at = "answered", ![j].value = Content(j)]
  BY DEF Serve
<1>6. /\ jobs'[j].at = "answered" /\ jobs'[j].value = Content(j) /\ jobs'[j].op = jobs[j].op
      /\ jobs'[j].since = jobs[j].since /\ jobs'[j].told = jobs[j].told
      /\ \A i \in Job \ {j} : jobs'[i] = jobs[i]
  BY <1>1, <1>5 DEF TypeOK, JobRecord
<1>7. jobs'[j].since <= world'[r]
  BY <1>1, <1>2, <1>3, <1>6 DEF JobRecord
<1> QED
  BY <1>3, <1>4, <1>6, <1>7 DEF Dated

LEMMA ContinueDated ==
    ASSUME TypeOK, AllDated, NEW j \in Job, Continue(j)
    PROVE  /\ \A i \in Job \ {j} : jobs'[i] = jobs[i]
           /\ Dated(jobs'[j], world')
<1>1. jobs[j] \in JobRecord /\ \A a \in Op : world[Of[a]] \in Nat
  BY OfType DEF TypeOK, JobRecord
<1>2. /\ {"table", "graph", "catalog", "addPeer", "setEntry", "addEntry"} \subseteq Op
      /\ Of["table"] = "routing" /\ Of["graph"] = "routing" /\ Of["addPeer"] = "routing"
      /\ Of["setEntry"] = "routing" /\ Of["catalog"] = "catalog" /\ Of["addEntry"] = "catalog"
  BY DEF Op, Panel, Write, Of
<1>3. jobs[j].at = "answered" => jobs[j].value <= world[Of[jobs[j].op]]
  BY DEF AllDated, Dated, Open
<1>4. jobs[j].at = "failed" /\ jobs[j].op = "table" => jobs[j].told <= world["routing"]
  BY <1>1, <1>2 DEF AllDated, Dated, Open, Panel, JobRecord
<1>5. jobs[j].value \in Nat /\ jobs[j].told \in Nat
  BY <1>1 DEF JobRecord
<1>6. CASE ShowTable(j)
  BY <1>2, <1>3, <1>4, <1>5, <1>6, AskDated DEF ShowTable, Answered, Failed
<1>7. CASE PeerAdded(j) \/ EntrySet(j)
  <2>1. CASE End(j)
    BY <2>1, EndDated
  <2>2. CASE Added(j, "addPeer") \/ Added(j, "setEntry")
    BY <1>2, <1>3, <1>5, <2>2, AskDated DEF Added, Answered
  <2> QED
    BY <1>7, <2>1, <2>2 DEF PeerAdded, EntrySet, Report
<1>8. CASE EntryAdded(j)
  <2>1. CASE End(j)
    BY <2>1, EndDated
  <2> QED
    BY <1>2, <1>3, <1>5, <1>8, <2>1, AskDated DEF EntryAdded, Answered, Report
<1>9. CASE DrawGraph(j) \/ ShowCatalog(j) \/ Uploaded(j) \/ SearchedAll(j) \/ SearchedFirst(j)
           \/ Resolved(j) \/ Downloaded(j) \/ Tagged(j) \/ Sent(j) \/ ChatSent(j) \/ PrivateSent(j)
  <2>1. End(j)
    BY <1>9 DEF DrawGraph, ShowCatalog, Uploaded, SearchedAll, SearchedFirst, Resolved,
       Downloaded, Tagged, Sent, ChatSent, PrivateSent, Report, Announce, Display
  <2> QED
    BY <2>1, EndDated
<1> QED
  BY <1>6, <1>7, <1>8, <1>9 DEF Continue

LEMMA StepDated == TypeOK /\ AllDated /\ [Next]_vars => AllDated'
<1> SUFFICES ASSUME TypeOK, AllDated, [Next]_vars PROVE AllDated'
  OBVIOUS
<1>1. CASE UNCHANGED vars
  BY <1>1 DEF vars, AllDated, Dated
<1>2. ASSUME NEW r \in Resource, Change(r) PROVE AllDated'
  <2>1. UNCHANGED jobs
    BY <1>2 DEF Change
  <2>2. \A i \in Job : jobs[i] \in JobRecord
    BY DEF TypeOK
  <2>3. \A i \in Job : Dated(jobs'[i], world')
    BY <2>1, <2>2, StayDated DEF AllDated
  <2>4. AllDated' <=> \A i \in Job : Dated(jobs'[i], world')
    BY DEF AllDated
  <2> QED
    BY <2>3, <2>4
<1>3. ASSUME NEW j \in Job, FileRead(j) PROVE AllDated'
  BY <1>3 DEF FileRead, AllDated, Dated, TypeOK, JobRecord, Open
<1>4. ASSUME NEW j \in Job, Lose(j) PROVE AllDated'
  BY <1>4 DEF Lose, AllDated, Dated, TypeOK, JobRecord, Open
<1>5. \E o : o \in Op
  BY DEF Op
<1> QED
  BY <1>1, <1>2, <1>3, <1>4, <1>5, OneMoves, NextSteps, BeginDated, ServeDated,
     ContinueDated DEF Steps

LEMMA DatedInit == Init => AllDated
BY JobsAssumption DEF Init, AllDated, Dated, Open, Panel, Of, Op, Write, Job, Resource

\* For any number of overlapping jobs, one job never shows what is older than
\* what it has told the user of.
THEOREM OwnWritesAreRead == Spec => []OwnWritesRead
<1>1. Init => AllDated
  BY DatedInit
<1>2. TypeOK /\ AllDated => OwnWritesRead
  <2> SUFFICES ASSUME TypeOK, AllDated, NEW j \in Job,
                      jobs[j].at = "answered", jobs[j].op \in Panel
               PROVE  jobs[j].value >= jobs[j].told
    BY DEF OwnWritesRead
  <2>1. jobs[j].told <= jobs[j].since /\ jobs[j].since <= jobs[j].value
    BY DEF AllDated, Dated, Open
  <2> QED
    BY <2>1 DEF TypeOK, JobRecord
<1> QED
  BY <1>1, <1>2, InitType, StepType, StepDated, PTL DEF Spec

-----------------------------------------------------------------------------
(***************************************************************************)
(* Every panel does what Panel promises.                                   *)
(***************************************************************************)
IsOpen(b, p) == b.op = p /\ b.at \notin {"none", "done"}

PanelStep(p) == [PanelOf(p)!Next]_(PanelOf(p)!vars)

LEMMA PanelStays ==
    ASSUME NEW p \in Panel, UNCHANGED world[Of[p]], UNCHANGED shown[p], UNCHANGED OpenRequests(p)
    PROVE  PanelStep(p)
BY DEF PanelStep, PanelOf!vars

LEMMA PanelSourceChanges ==
    ASSUME NEW p \in Panel, world'[Of[p]] = world[Of[p]] + 1,
           UNCHANGED shown[p], UNCHANGED OpenRequests(p)
    PROVE  PanelStep(p)
BY DEF PanelStep, PanelOf!Next, PanelOf!Change

LEMMA PanelAsks ==
    ASSUME NEW p \in Panel, NEW r, r.since = world[Of[p]], r \in OpenRequests(p)',
           OpenRequests(p)' = OpenRequests(p) \cup {r},
           UNCHANGED world[Of[p]], UNCHANGED shown[p]
    PROVE  PanelStep(p)
BY DEF PanelStep, PanelOf!Next, PanelOf!Ask

LEMMA PanelSettles ==
    ASSUME NEW p \in Panel, NEW r \in OpenRequests(p), OpenRequests(p)' = OpenRequests(p) \ {r},
           UNCHANGED world[Of[p]],
           shown'[p] = shown[p] \/ shown'[p] \in r.since .. world[Of[p]]
    PROVE  PanelStep(p)
BY DEF PanelStep, PanelOf!Next, PanelOf!Show, PanelOf!GiveUp

\* How the open requests of a panel change when job j moves.
LEMMA RequestsOfOne ==
    ASSUME TypeOK, NEW p \in Panel, NEW j \in Job, \A i \in Job \ {j} : jobs'[i] = jobs[i]
    PROVE  LET old == [id |-> j, since |-> jobs[j].since]
               new == [id |-> j, since |-> jobs'[j].since]
           IN /\ IsOpen(jobs[j], p) <=> old \in OpenRequests(p)
              /\ IsOpen(jobs'[j], p) <=> new \in OpenRequests(p)'
              /\ OpenRequests(p)' \ {new} = OpenRequests(p) \ {old}
<1> DEFINE old == [id |-> j, since |-> jobs[j].since]
           new == [id |-> j, since |-> jobs'[j].since]
<1>1. \A x : x \in OpenRequests(p) <=>
         \E i \in Job : IsOpen(jobs[i], p) /\ x = [id |-> i, since |-> jobs[i].since]
  BY DEF OpenRequests, IsOpen
<1>2. \A x : x \in OpenRequests(p)' <=>
         \E i \in Job : IsOpen(jobs'[i], p) /\ x = [id |-> i, since |-> jobs'[i].since]
  BY DEF OpenRequests, IsOpen
<1>3. \A i \in Job : \A s, t : [id |-> i, since |-> s] = [id |-> j, since |-> t] => i = j
  OBVIOUS
<1>4. IsOpen(jobs[j], p) <=> old \in OpenRequests(p)
  BY <1>1, <1>3
<1>5. IsOpen(jobs'[j], p) <=> new \in OpenRequests(p)'
  BY <1>2, <1>3
<1>6. ASSUME NEW x \in OpenRequests(p)', x # new PROVE x \in OpenRequests(p) \ {old}
  <2>1. PICK i \in Job : IsOpen(jobs'[i], p) /\ x = [id |-> i, since |-> jobs'[i].since]
    BY <1>2, <1>6
  <2>2. i # j /\ jobs'[i] = jobs[i]
    BY <1>6, <2>1
  <2> QED
    BY <1>1, <1>3, <2>1, <2>2
<1>7. ASSUME NEW x \in OpenRequests(p), x # old PROVE x \in OpenRequests(p)' \ {new}
  <2>1. PICK i \in Job : IsOpen(jobs[i], p) /\ x = [id |-> i, since |-> jobs[i].since]
    BY <1>1, <1>7
  <2>2. i # j /\ jobs'[i] = jobs[i]
    BY <1>7, <2>1
  <2> QED
    BY <1>2, <1>3, <2>1, <2>2
<1>8. OpenRequests(p)' \ {new} = OpenRequests(p) \ {old}
  BY <1>6, <1>7
<1> QED
  BY <1>4, <1>5, <1>8

\* A step in which job j moves and the peer does not change.
LEMMA PanelFollows ==
    ASSUME TypeOK, NEW p \in Panel, NEW j \in Job, \A i \in Job \ {j} : jobs'[i] = jobs[i],
           UNCHANGED world[Of[p]],
           IsOpen(jobs'[j], p) /\ ~IsOpen(jobs[j], p) => jobs'[j].since = world[Of[p]],
           IsOpen(jobs'[j], p) /\ IsOpen(jobs[j], p) => UNCHANGED jobs[j].since,
           IsOpen(jobs'[j], p) \/ ~IsOpen(jobs[j], p) => UNCHANGED shown[p],
           IsOpen(jobs[j], p) /\ ~IsOpen(jobs'[j], p) =>
               shown'[p] = shown[p] \/ shown'[p] \in jobs[j].since .. world[Of[p]]
    PROVE  PanelStep(p)
<1> DEFINE old == [id |-> j, since |-> jobs[j].since]
           new == [id |-> j, since |-> jobs'[j].since]
<1>1. /\ IsOpen(jobs[j], p) <=> old \in OpenRequests(p)
      /\ IsOpen(jobs'[j], p) <=> new \in OpenRequests(p)'
      /\ OpenRequests(p)' \ {new} = OpenRequests(p) \ {old}
  BY RequestsOfOne
<1>2. new.since = jobs'[j].since /\ old.since = jobs[j].since
  OBVIOUS
<1>3. CASE IsOpen(jobs[j], p) /\ IsOpen(jobs'[j], p)
  <2>1. new = old
    BY <1>3
  <2>2. UNCHANGED OpenRequests(p)
    BY <1>1, <1>3, <2>1
  <2> QED
    BY <1>3, <2>2, PanelStays
<1>4. ASSUME ~IsOpen(jobs'[j], p) PROVE new \notin OpenRequests(p)'
  BY <1>1, <1>4
<1>5. ASSUME ~IsOpen(jobs[j], p) PROVE old \notin OpenRequests(p)
  BY <1>1, <1>5
<1> HIDE DEF old, new
<1>6. CASE ~IsOpen(jobs[j], p) /\ IsOpen(jobs'[j], p)
  <2>1. OpenRequests(p)' = OpenRequests(p) \cup {new}
    BY <1>1, <1>5, <1>6
  <2> QED
    BY <1>1, <1>2, <1>6, <2>1, PanelAsks
<1>7. CASE IsOpen(jobs[j], p) /\ ~IsOpen(jobs'[j], p)
  <2>1. OpenRequests(p)' = OpenRequests(p) \ {old}
    BY <1>1, <1>4, <1>7
  <2> QED
    BY <1>1, <1>2, <1>7, <2>1, PanelSettles
<1>8. CASE ~IsOpen(jobs[j], p) /\ ~IsOpen(jobs'[j], p)
  <2>1. UNCHANGED OpenRequests(p)
    BY <1>1, <1>4, <1>5, <1>8
  <2> QED
    BY <1>8, <2>1, PanelStays
<1> QED
  BY <1>3, <1>6, <1>7, <1>8

LEMMA AskFollows ==
    ASSUME TypeOK, NEW j \in Job, NEW o \in Op, NEW told \in Nat, Ask(j, o, told)
    PROVE  /\ \A i \in Job \ {j} : jobs'[i] = jobs[i]
           /\ jobs'[j].op = o /\ jobs'[j].at = "asked" /\ jobs'[j].since = world[Of[o]]
BY DEF Ask, Asked, TypeOK

LEMMA EndFollows ==
    ASSUME TypeOK, NEW j \in Job, End(j)
    PROVE  /\ \A i \in Job \ {j} : jobs'[i] = jobs[i]
           /\ jobs'[j].op = jobs[j].op /\ jobs'[j].at = "done"
BY DEF End, TypeOK, JobRecord

LEMMA BeginRefines ==
    ASSUME TypeOK, NEW j \in Job, NEW o \in Op, NEW p \in Panel,
           Reject(j, o) \/ Submit(j, o) \/ Update(j, o) \/ Resolve(j) \/ Upload(j)
    PROVE  PanelStep(p)
<1>1. jobs[j].at = "none" /\ UNCHANGED world /\ UNCHANGED shown
  BY DEF Reject, Submit, Update, Resolve, Upload, Fresh
<1>2. "resolve" \in Op /\ "upload" \in Op
  BY DEF Op, Panel
<1>3. /\ \A i \in Job \ {j} : jobs'[i] = jobs[i]
      /\ jobs'[j].at # "done" => jobs'[j].since = world[Of[jobs'[j].op]]
  <2>1. CASE Reject(j, o)
    BY <2>1 DEF Reject, TypeOK, JobRecord
  <2>2. CASE Submit(j, o) \/ Update(j, o)
    BY <2>2, AskFollows DEF Submit, Update
  <2>3. CASE Resolve(j)
    BY <2>3 DEF Resolve, Ask, Asked, TypeOK
  <2>4. CASE Upload(j)
    BY <2>4 DEF Upload, Asked, TypeOK, JobRecord
  <2> QED
    BY <2>1, <2>2, <2>3, <2>4
<1>4. ~IsOpen(jobs[j], p)
  BY <1>1 DEF IsOpen
<1>5. IsOpen(jobs'[j], p) => jobs'[j].since = world[Of[p]]
  BY <1>3 DEF IsOpen
<1> QED
  BY <1>1, <1>3, <1>4, <1>5, PanelFollows

\* The end of a job: its panel shows an answer, or stays as it is.
LEMMA EndRefines ==
    ASSUME TypeOK, AllDated, NEW j \in Job, NEW p \in Panel, End(j), UNCHANGED world,
           \/ UNCHANGED shown
           \/ /\ jobs[j].at = "answered" /\ jobs[j].op \in Panel
              /\ shown' = [shown EXCEPT ![jobs[j].op] = jobs[j].value]
    PROVE  PanelStep(p)
<1>1. ~IsOpen(jobs'[j], p)
  BY EndFollows DEF IsOpen
<1>2. jobs[j] \in JobRecord /\ world[Of[p]] \in Nat
  BY OfType DEF TypeOK, JobRecord, Op
<1>3. IsOpen(jobs[j], p) /\ jobs[j].at = "answered" =>
         jobs[j].value \in jobs[j].since .. world[Of[p]]
  BY <1>2 DEF IsOpen, AllDated, Dated, Open, JobRecord
<1>4. IsOpen(jobs[j], p) => shown'[p] = shown[p] \/ shown'[p] \in jobs[j].since .. world[Of[p]]
  BY <1>3 DEF IsOpen, TypeOK
<1>5. ~IsOpen(jobs[j], p) => shown'[p] = shown[p]
  BY DEF IsOpen, TypeOK
<1> QED
  BY <1>1, <1>4, <1>5, EndFollows, PanelFollows

\* A job that goes on with another request: its panel shows the answer.
LEMMA AskRefines ==
    ASSUME TypeOK, AllDated, NEW j \in Job, NEW p \in Panel,
           NEW o \in Op, NEW told \in Nat, Ask(j, o, told), o # jobs[j].op, UNCHANGED world,
           jobs[j].at # "none",
           \/ UNCHANGED shown
           \/ /\ jobs[j].at = "answered" /\ jobs[j].op \in Panel
              /\ shown' = [shown EXCEPT ![jobs[j].op] = jobs[j].value]
    PROVE  PanelStep(p)
<1>1. jobs[j] \in JobRecord /\ world[Of[p]] \in Nat
  BY OfType DEF TypeOK, JobRecord, Op
<1>2. ~(IsOpen(jobs'[j], p) /\ IsOpen(jobs[j], p))
  BY AskFollows DEF IsOpen
<1>3. IsOpen(jobs'[j], p) => jobs'[j].since = world[Of[p]]
  BY AskFollows DEF IsOpen
<1>4. IsOpen(jobs[j], p) /\ jobs[j].at = "answered" =>
         jobs[j].value \in jobs[j].since .. world[Of[p]]
  BY <1>1 DEF IsOpen, AllDated, Dated, Open, JobRecord
<1>5. IsOpen(jobs[j], p) => shown'[p] = shown[p] \/ shown'[p] \in jobs[j].since .. world[Of[p]]
  BY <1>4 DEF IsOpen, TypeOK
<1>6. ~IsOpen(jobs[j], p) => shown'[p] = shown[p]
  BY DEF IsOpen, TypeOK
<1>7. \A i \in Job \ {j} : jobs'[i] = jobs[i]
  BY AskFollows
<1> QED
  BY <1>2, <1>3, <1>5, <1>6, <1>7, PanelFollows

LEMMA ContinueRefines ==
    ASSUME TypeOK, AllDated, NEW j \in Job, NEW p \in Panel, Continue(j)
    PROVE  PanelStep(p)
<1>1. jobs[j].value \in Nat /\ jobs[j].told \in Nat
  BY DEF TypeOK, JobRecord
<1>2. {"table", "graph", "catalog"} \subseteq Op
  BY DEF Op, Panel
<1>3. CASE ShowTable(j)
  BY <1>1, <1>2, <1>3, AskRefines DEF ShowTable, Answered, Failed, Panel
<1>4. CASE EntryAdded(j) \/ PeerAdded(j) \/ EntrySet(j)
  <2>1. CASE End(j) /\ UNCHANGED <<world, shown>>
    BY <2>1, EndRefines
  <2> QED
    BY <1>1, <1>2, <1>4, <2>1, AskRefines
       DEF EntryAdded, PeerAdded, EntrySet, Added, Report, Answered
<1>5. CASE DrawGraph(j) \/ ShowCatalog(j) \/ Uploaded(j) \/ SearchedAll(j) \/ SearchedFirst(j)
           \/ Resolved(j) \/ Downloaded(j) \/ Tagged(j) \/ Sent(j) \/ ChatSent(j) \/ PrivateSent(j)
  <2>1. /\ End(j) /\ UNCHANGED world
        /\ \/ UNCHANGED shown
           \/ /\ jobs[j].at = "answered" /\ jobs[j].op \in Panel
              /\ shown' = [shown EXCEPT ![jobs[j].op] = jobs[j].value]
    BY <1>5 DEF DrawGraph, ShowCatalog, Uploaded, SearchedAll, SearchedFirst, Resolved, Downloaded,
       Tagged, Sent, ChatSent, PrivateSent, Report, Announce, Display, Answered, Panel
  <2> QED
    BY <2>1, EndRefines
<1> QED
  BY <1>3, <1>4, <1>5 DEF Continue

\* A job that was open stays so, with its request.
LEMMA SameRequests ==
    ASSUME TypeOK, NEW p \in Panel, NEW j \in Job, \A i \in Job \ {j} : jobs'[i] = jobs[i],
           IsOpen(jobs'[j], p) <=> IsOpen(jobs[j], p), UNCHANGED jobs[j].since
    PROVE  UNCHANGED OpenRequests(p)
<1> DEFINE r == [id |-> j, since |-> jobs[j].since]
<1>1. /\ IsOpen(jobs[j], p) <=> r \in OpenRequests(p)
      /\ IsOpen(jobs'[j], p) <=> r \in OpenRequests(p)'
      /\ OpenRequests(p)' \ {r} = OpenRequests(p) \ {r}
  BY RequestsOfOne
<1> QED
  BY <1>1

LEMMA ServeRefines ==
    ASSUME TypeOK, NEW j \in Job, NEW p \in Panel, Serve(j)
    PROVE  PanelStep(p)
<1>1. /\ \A i \in Job \ {j} : jobs'[i] = jobs[i]
      /\ jobs'[j].op = jobs[j].op /\ jobs'[j].since = jobs[j].since
      /\ jobs[j].at = "asked" /\ jobs'[j].at = "answered"
  BY DEF Serve, TypeOK, JobRecord
<1>2. UNCHANGED OpenRequests(p)
  BY <1>1, SameRequests DEF IsOpen
<1>3. Of[p] \in Resource /\ Of[jobs[j].op] \in Resource
  BY OfType DEF Op, TypeOK, JobRecord
<1>4. world'[Of[p]] = world[Of[p]] \/ world'[Of[p]] = world[Of[p]] + 1
  BY <1>3 DEF Serve, Touch, TypeOK
<1>5. UNCHANGED shown[p]
  BY DEF Serve
<1> QED
  BY <1>2, <1>4, <1>5, PanelStays, PanelSourceChanges

LEMMA StepRefines ==
    ASSUME TypeOK, AllDated, [Next]_vars, NEW p \in Panel
    PROVE  PanelStep(p)
<1>1. Of[p] \in Resource
  BY OfType DEF Op
<1>2. CASE UNCHANGED vars
  BY <1>2, PanelStays DEF vars, OpenRequests
<1>3. ASSUME NEW r \in Resource, Change(r) PROVE PanelStep(p)
  <2>1. UNCHANGED shown[p] /\ UNCHANGED OpenRequests(p)
    BY <1>3 DEF Change, OpenRequests
  <2>2. world'[Of[p]] = world[Of[p]] \/ world'[Of[p]] = world[Of[p]] + 1
    BY <1>1, <1>3 DEF Change, Touch, TypeOK
  <2> QED
    BY <2>1, <2>2, PanelStays, PanelSourceChanges
<1>4. ASSUME NEW j \in Job, FileRead(j) PROVE PanelStep(p)
  <2>1. /\ \A i \in Job \ {j} : jobs'[i] = jobs[i]
        /\ jobs'[j].op = jobs[j].op /\ jobs'[j].since = jobs[j].since
        /\ jobs[j].at = "reading" /\ jobs'[j].at \in {"asked", "done"}
        /\ UNCHANGED <<world, shown>>
    BY <1>4 DEF FileRead, TypeOK, JobRecord
  <2> QED
    BY <2>1, PanelFollows DEF IsOpen
<1>5. ASSUME NEW j \in Job, Lose(j) PROVE PanelStep(p)
  <2>1. /\ \A i \in Job \ {j} : jobs'[i] = jobs[i]
        /\ jobs'[j].op = jobs[j].op /\ jobs'[j].since = jobs[j].since
        /\ jobs[j].at \in {"asked", "answered"} /\ jobs'[j].at = "failed"
        /\ UNCHANGED <<world, shown>>
    BY <1>5 DEF Lose, TypeOK, JobRecord
  <2> QED
    BY <2>1, PanelFollows DEF IsOpen
<1>6. \E o : o \in Op
  BY DEF Op
<1> QED
  BY <1>2, <1>3, <1>4, <1>5, <1>6, NextSteps, BeginRefines, ServeRefines,
     ContinueRefines DEF Steps

LEMMA InitRefines ==
    ASSUME Init, NEW p \in Panel
    PROVE  PanelOf(p)!Init
<1>1. Of[p] \in Resource
  BY OfType DEF Op
<1>2. \A i \in Job : jobs[i].at \notin {"none", "done"} => jobs[i].since = 1
  BY DEF Init
<1>3. \A r \in OpenRequests(p) : r.since = world[Of[p]]
  BY <1>1, <1>2 DEF Init, OpenRequests
<1> QED
  BY <1>1, <1>3 DEF PanelOf!Init, Init

\* For any number of jobs, panel by panel: what is shown is what the peer had
\* at some moment of the request that showed it.
THEOREM PageImplementsPanels == Spec => EveryPanel
<1>1. Init => \A p \in Panel : PanelOf(p)!Init
  BY InitRefines
<1>2. TypeOK /\ AllDated /\ [Next]_vars => \A p \in Panel : [PanelOf(p)!Next]_(PanelOf(p)!vars)
  BY StepRefines DEF PanelStep
<1>3. Init => AllDated
  BY DatedInit
<1> QED
  BY <1>1, <1>2, <1>3, InitType, StepType, StepDated, PTL DEF Spec, EveryPanel
=============================================================================
