-------------------------------- MODULE Page --------------------------------
(***************************************************************************)
(* The requests of the web page (gui/web/assets/scripts/main.js) to the    *)
(* HTTP server of its peer.  Every button calls an async method of a       *)
(* controller: it checks its inputs, awaits a fetch, and the continuation  *)
(* writes into a panel, prints a flash, and may start an update.  Nothing  *)
(* orders the continuations of different clicks.                           *)
(*                                                                         *)
(* A job is one click (or one initialize) with all that it awaits.  The    *)
(* contents of the peer that panels show are versions: world[r] counts the *)
(* changes of resource r.                                                  *)
(***************************************************************************)
EXTENDS Integers

CONSTANTS
    MaxJobs,      \* bound: how many clicks, with the two updates on load
    MaxChanges    \* bound: how often the resources change, all together

ASSUME JobsAssumption == MaxJobs \in Nat /\ MaxJobs >= 2
ASSUME ChangesAssumption == MaxChanges \in Nat

Job == 1 .. MaxJobs
Resource == {"routing", "catalog", "names", "file", "other"}
Panel == {"table", "graph", "catalog", "upload", "searchAll", "searchFirst", "resolve"}
Write == {"addPeer", "setEntry", "addEntry", "tag"}
Op == Panel \cup Write \cup {"download", "unicast", "sendChat", "sendPrivate"}
\* The methods that exit when checkInputs fails (resolve does not).
Form == (Op \ {"table", "graph", "catalog", "upload", "resolve"})
Search == {"searchAll", "searchFirst"}

\* The resource that a request reads or changes; "file" is what the user
\* has chosen to upload, "other" what no panel shows.
Of == [o \in Op |->
    CASE o \in {"table", "graph", "addPeer", "setEntry"} -> "routing"
      [] o \in {"catalog", "addEntry"} -> "catalog"
      [] o \in {"searchAll", "searchFirst", "resolve", "tag"} -> "names"
      [] o = "upload" -> "file"
      [] OTHER -> "other"]

VARIABLES
    world,      \* world[r]: the version of resource r
    jobs,       \* jobs[j]: what job j awaits
    shown,      \* shown[p]: the version panel p last showed, 0 for none
    searching,  \* the search panels that say "searching..."
    flashes,    \* the flashes printed, with the job and method that did
    chat        \* the jobs whose message was appended to the chat

vars == <<world, jobs, shown, searching, flashes, chat>>

\* op: the method that runs.  at: "none" before the click, "reading" while
\* the FileReader works, "asked" while the peer has not handled the request,
\* "answered" with status 200, "failed" with another status or a rejected
\* fetch, "done".  since: the version of the resource when it was asked for;
\* value: the version in the answer; told: the newest version that this job
\* has told the user of.
JobRecord ==
    [op : Op, at : {"none", "reading", "asked", "answered", "failed", "done"},
     since : Nat, value : Nat, told : Nat]

TypeOK ==
    /\ world \in [Resource -> Nat]
    /\ jobs \in [Job -> JobRecord]
    /\ shown \in [Panel -> Nat]
    /\ searching \subseteq Search
    /\ flashes \subseteq [job : Job, op : Op, kind : {"success", "error"}]
    /\ chat \subseteq Job

-----------------------------------------------------------------------------
\* this.fetch(addr, ...): the request is on its way, for job j and method o.
Asked(o, told) ==
    [op |-> o, at |-> "asked", since |-> world[Of[o]], value |-> 0, told |-> told]
Ask(j, o, told) == jobs' = [jobs EXCEPT ![j] = Asked(o, told)]

PrintFlash(j, o, kind) == flashes' = flashes \cup {[job |-> j, op |-> o, kind |-> kind]}
End(j) == jobs' = [jobs EXCEPT ![j].at = "done"]

\* The next job to begin.
Fresh(j) == jobs[j].at = "none" /\ \A i \in Job : i < j => jobs[i].at # "none"

Answered(j, o) == jobs[j].op = o /\ jobs[j].at = "answered"
Failed(j, o) == jobs[j].op = o /\ jobs[j].at = "failed"

\* Variants: the catch block says nothing; it empties the panel.
SwallowError(j, o) ==
    /\ Failed(j, o)
    /\ End(j)
    /\ UNCHANGED <<world, shown, searching, flashes, chat>>
ReportAndEmpty(j, o) ==
    /\ Failed(j, o)
    /\ PrintFlash(j, o, "error")
    /\ shown' = [p \in Panel |-> IF p = o THEN 0 ELSE shown[p]]
    /\ End(j)
    /\ UNCHANGED <<world, searching, chat>>

\* What every catch block does: print the error and end.
Report(j, o) ==
    /\ Failed(j, o)
    /\ PrintFlash(j, o, "error")
    /\ End(j)
    /\ UNCHANGED <<world, shown, searching, chat>>

\* An awaited answer that only has to be announced.
Announce(j, o) ==
    /\ Answered(j, o)
    /\ PrintFlash(j, o, "success")
    /\ End(j)
    /\ UNCHANGED <<world, shown, searching, chat>>

\* Variants: the note is written into every panel; it is left there.
NoteAnywhere(o) == searching \cup {o}
NoteLeft(o) == searching

\* "searching..." is written into a search panel, and replaced by an answer.
Note(o) == IF o \in Search THEN searching \cup {o} ELSE searching
NoteReplaced(o) == searching \ {o}

\* An answer that is announced and written into the panel.
Display(j, o) ==
    /\ Answered(j, o)
    /\ shown' = [shown EXCEPT ![o] = jobs[j].value]
    /\ searching' = NoteReplaced(o)
    /\ PrintFlash(j, o, "success")
    /\ End(j)
    /\ UNCHANGED <<world, chat>>

-----------------------------------------------------------------------------
\* The page is connected: Routing.initialize and Catalog.initialize update.
Init ==
    /\ world = [r \in Resource |-> 1]
    /\ jobs = [j \in Job |->
                 CASE j = 1 -> [op |-> "table", at |-> "asked", since |-> 1, value |-> 0, told |-> 0]
                   [] j = 2 -> [op |-> "catalog", at |-> "asked", since |-> 1, value |-> 0, told |-> 0]
                   [] OTHER -> [op |-> "table", at |-> "none", since |-> 0, value |-> 0, told |-> 0]]
    /\ shown = [p \in Panel |-> 0]
    /\ searching = {}
    /\ flashes = {}
    /\ chat = {}

\* checkInputs finds an empty field: the method exits.
Reject(j, o) ==
    /\ Fresh(j) /\ o \in Form
    /\ PrintFlash(j, o, "error")
    /\ jobs' = [jobs EXCEPT ![j].op = o, ![j].at = "done"]
    /\ UNCHANGED <<world, shown, searching, chat>>

\* The inputs are filled in: the request goes out.  The two searches write
\* "searching..." into their panel first.
Submit(j, o) ==
    /\ Fresh(j) /\ o \in Form
    /\ Ask(j, o, 0)
    /\ searching' = Note(o)
    /\ UNCHANGED <<world, shown, flashes, chat>>

\* The update buttons of the routing table and of the catalog.
Update(j, o) ==
    /\ Fresh(j) /\ o \in {"table", "catalog"}
    /\ Ask(j, o, 0)
    /\ UNCHANGED <<world, shown, searching, flashes, chat>>

\* Naming.resolve does not look at what checkInputs returns: with an empty
\* name it prints the error and asks nevertheless, and the peer refuses an
\* empty name.
Resolve(j) ==
    /\ Fresh(j)
    /\ \/ Ask(j, "resolve", 0) /\ UNCHANGED flashes
       \/ /\ jobs' = [jobs EXCEPT ![j] = [Asked("resolve", 0) EXCEPT !.at = "failed"]]
          /\ PrintFlash(j, "resolve", "error")
    /\ UNCHANGED <<world, shown, searching, chat>>

\* DataSharing.upload: without a file it prints an error, else a FileReader
\* reads the file that is chosen at the time of the click.
Upload(j) ==
    /\ Fresh(j)
    /\ \/ /\ PrintFlash(j, "upload", "error")
          /\ jobs' = [jobs EXCEPT ![j].op = "upload", ![j].at = "done"]
       \/ /\ jobs' = [jobs EXCEPT ![j] = [Asked("upload", 0) EXCEPT !.at = "reading"]]
          /\ UNCHANGED flashes
    /\ UNCHANGED <<world, shown, searching, chat>>

\* The 'load' listener posts what was read.  There is no 'error' listener:
\* when the file cannot be read, the job ends without a word.
FileRead(j) ==
    /\ jobs[j].at = "reading"
    /\ \E at \in {"asked", "done"} : jobs' = [jobs EXCEPT ![j].at = at]
    /\ UNCHANGED <<world, shown, searching, flashes, chat>>

-----------------------------------------------------------------------------
\* Resource r changes.
Changes == world["routing"] + world["catalog"] + world["names"] + world["file"] - 4
Touch(r) ==
    /\ Changes < MaxChanges
    /\ world' = [world EXCEPT ![r] = @ + 1]

\* The network, another client of the peer or the user (the file input)
\* changes a resource.
Change(r) ==
    /\ r # "other" /\ Touch(r)
    /\ UNCHANGED <<jobs, shown, searching, flashes, chat>>

\* Variant: a table that was fetched before is answered from a cache.
CachedContent(j) ==
    IF jobs[j].op = "table" /\ shown["table"] > 0 THEN shown["table"] ELSE world'[Of[jobs[j].op]]

\* What an answer holds: the resource as it is then, for an upload the file
\* that was read.
Content(j) == IF jobs[j].op = "upload" THEN jobs[j].since ELSE world'[Of[jobs[j].op]]

\* The peer's HTTP handler does what request j asks and answers 200.  A
\* write may leave things as they are (AddPeer of the peer itself, an entry
\* that exists).
Serve(j) ==
    /\ jobs[j].at = "asked"
    /\ \/ UNCHANGED world
       \/ jobs[j].op \in Write /\ Touch(Of[jobs[j].op])
    /\ jobs' = [jobs EXCEPT ![j].at = "answered", ![j].value = Content(j)]
    /\ UNCHANGED <<shown, searching, flashes, chat>>

\* The handler refuses, the request or the answer is lost, or the answer
\* cannot be parsed.
Lose(j) ==
    /\ jobs[j].at \in {"asked", "answered"}
    /\ jobs' = [jobs EXCEPT ![j].at = "failed"]
    /\ UNCHANGED <<world, shown, searching, flashes, chat>>

-----------------------------------------------------------------------------
\* Routing.update, first half: the table is replaced or the error printed,
\* and in either case the graph is asked for.
ShowTable(j) ==
    /\ \/ /\ Answered(j, "table")
          /\ shown' = [shown EXCEPT !["table"] = jobs[j].value]
          /\ PrintFlash(j, "table", "success")
          /\ Ask(j, "graph", jobs[j].value)
       \/ /\ Failed(j, "table")
          /\ PrintFlash(j, "table", "error")
          /\ Ask(j, "graph", jobs[j].told)
          /\ UNCHANGED shown
    /\ UNCHANGED <<world, searching, chat>>

\* Second half: the graph is drawn, without a flash.
DrawGraph(j) ==
    \/ /\ Answered(j, "graph")
       /\ shown' = [shown EXCEPT !["graph"] = jobs[j].value]
       /\ End(j)
       /\ UNCHANGED <<world, searching, flashes, chat>>
    \/ Report(j, "graph")

\* The awaited write succeeded: say so, then update the panel it changed.
Added(j, o) ==
    /\ Answered(j, o)
    /\ PrintFlash(j, o, "success")
    /\ Ask(j, "table", jobs[j].value)
    /\ UNCHANGED <<world, shown, searching, chat>>

PeerAdded(j) == Added(j, "addPeer") \/ Report(j, "addPeer")
EntrySet(j) == Added(j, "setEntry") \/ Report(j, "setEntry")

\* Catalog.update and Catalog.add; the latter says nothing of its own.
ShowCatalog(j) == Display(j, "catalog") \/ Report(j, "catalog")
EntryAdded(j) ==
    \/ /\ Answered(j, "addEntry")
       /\ Ask(j, "catalog", jobs[j].value)
       /\ UNCHANGED <<world, shown, searching, flashes, chat>>
    \/ Report(j, "addEntry")

\* The methods of DataSharing, Search and Naming.
Uploaded(j) == Display(j, "upload") \/ Report(j, "upload")
Downloaded(j) == Announce(j, "download") \/ Report(j, "download")
SearchedAll(j) == Display(j, "searchAll") \/ Report(j, "searchAll")
SearchedFirst(j) == Display(j, "searchFirst") \/ Report(j, "searchFirst")
Resolved(j) == Display(j, "resolve") \/ Report(j, "resolve")
Tagged(j) == Announce(j, "tag") \/ Report(j, "tag")

\* Unicast.send: the message goes into the chat, without a flash.
Sent(j) ==
    \/ /\ Answered(j, "unicast")
       /\ chat' = chat \cup {j}
       /\ End(j)
       /\ UNCHANGED <<world, shown, searching, flashes>>
    \/ Report(j, "unicast")

\* Broadcast.sendChat and Broadcast.sendPrivate.
ChatSent(j) == Announce(j, "sendChat") \/ Report(j, "sendChat")
PrivateSent(j) == Announce(j, "sendPrivate") \/ Report(j, "sendPrivate")

\* What job j does next when its answer is there.
Continue(j) ==
    \/ ShowTable(j) \/ DrawGraph(j) \/ PeerAdded(j) \/ EntrySet(j)
    \/ ShowCatalog(j) \/ EntryAdded(j)
    \/ Uploaded(j) \/ Downloaded(j)
    \/ SearchedAll(j) \/ SearchedFirst(j) \/ Resolved(j) \/ Tagged(j)
    \/ Sent(j) \/ ChatSent(j) \/ PrivateSent(j)

\* The methods that the buttons call, each from the click to its last
\* continuation.
Enter(j, o) == Reject(j, o) \/ Submit(j, o)

Send(j) == Enter(j, "unicast") \/ Sent(j)
UpdateRouting(j) == Update(j, "table") \/ ShowTable(j) \/ DrawGraph(j)
AddPeer(j) == Enter(j, "addPeer") \/ PeerAdded(j)
SetEntry(j) == Enter(j, "setEntry") \/ EntrySet(j)
SendChat(j) == Enter(j, "sendChat") \/ ChatSent(j)
SendPrivate(j) == Enter(j, "sendPrivate") \/ PrivateSent(j)
UpdateCatalog(j) == Update(j, "catalog") \/ ShowCatalog(j)
AddEntry(j) == Enter(j, "addEntry") \/ EntryAdded(j)
UploadFile(j) == Upload(j) \/ FileRead(j) \/ Uploaded(j)
Download(j) == Enter(j, "download") \/ Downloaded(j)
SearchAll(j) == Enter(j, "searchAll") \/ SearchedAll(j)
SearchFirst(j) == Enter(j, "searchFirst") \/ SearchedFirst(j)
ResolveName(j) == Resolve(j) \/ Resolved(j)
Tag(j) == Enter(j, "tag") \/ Tagged(j)

Method(j) ==
    \/ Send(j) \/ SendChat(j) \/ SendPrivate(j)
    \/ UpdateRouting(j) \/ AddPeer(j) \/ SetEntry(j)
    \/ UpdateCatalog(j) \/ AddEntry(j)
    \/ UploadFile(j) \/ Download(j)
    \/ SearchAll(j) \/ SearchFirst(j)
    \/ ResolveName(j) \/ Tag(j)

Next ==
    \/ \E r \in Resource : Change(r)
    \/ \E j \in Job : Serve(j) \/ Lose(j) \/ Method(j)

\* The browser settles every fetch and every read of a file, and its event
\* loop runs every continuation.
Fairness ==
    \A j \in Job : WF_vars(FileRead(j)) /\ WF_vars(Serve(j) \/ Lose(j)) /\ WF_vars(Continue(j))

Spec == Init /\ [][Next]_vars /\ Fairness

-----------------------------------------------------------------------------
\* One job never tells the user of a state and then shows an older one: the
\* table that setEntry, addPeer or add fetches after the write has the write
\* in it, and the graph is at least as new as the table above it, although
\* updates overlap and the peer changes meanwhile.
OwnWritesRead ==
    \A j \in Job : jobs[j].at = "answered" /\ jobs[j].op \in Panel => jobs[j].value >= jobs[j].told

\* Each panel behaves as Panel promises: what it shows is what the peer had
\* at some moment of the request that showed it.
OpenRequests(p) ==
    {[id |-> j, since |-> jobs[j].since] : j \in
        {i \in Job : jobs[i].op = p /\ jobs[i].at \notin {"none", "done"}}}
PanelOf(p) == INSTANCE Panel WITH
    source <- world[Of[p]], shown <- shown[p], requests <- OpenRequests(p)
EveryPanel ==
    /\ \A p \in Panel : PanelOf(p)!Init
    /\ [][\A p \in Panel : [PanelOf(p)!Next]_(PanelOf(p)!vars)]_vars

\* What the user sees of job j when method o is done: a flash, the message in
\* the chat, the update that follows add, the drawn graph.
Told(j, o) ==
    \/ \E f \in flashes : f.job = j /\ f.op = o
    \/ o = "unicast" /\ j \in chat
    \/ o = "graph" /\ jobs[j].at = "done" /\ shown["graph"] > 0

\* Every request ends in something that the user sees, whatever fails.
RequestsEnd ==
    \A j \in Job : (jobs[j].at = "asked") ~> (jobs[j].at = "done" /\ Told(j, jobs[j].op))

\* A panel does not say "searching..." for ever unless a search of its kind
\* has failed.  (After a failure it does: the catch blocks leave it.)
SearchesEnd ==
    \A p \in Search : (p \in searching) ~>
        (p \notin searching \/ \E f \in flashes : f.op = p /\ f.kind = "error")
=============================================================================
