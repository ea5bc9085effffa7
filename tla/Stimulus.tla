------------------------------ MODULE Stimulus ------------------------------
(***************************************************************************)
(* How Stimulus (gui/web/assets/scripts/stimulus.js), on which every       *)
(* controller of the web page rests, keeps controllers connected to the    *)
(* elements that name them in data-controller.  The DOM changes at once; a *)
(* MutationObserver hands the records of the changes over later, all that  *)
(* have gathered, and what is done for a record reads the DOM of then.     *)
(*                                                                         *)
(* One chain of observers, each with tables of its own, stands between the *)
(* records and the controllers: elements with the attribute, tokens in the *)
(* attribute, scopes with reference counts, modules with contexts.         *)
(* Controllers do not change data-controller, as none of main.js does, so  *)
(* nothing changes while a batch of records is handled.                    *)
(***************************************************************************)
EXTENDS Integers, FiniteSets, Sequences

CONSTANTS
    Element,       \* 1..n, in the order of the document
    Identifier,    \* names of controllers
    NoAttribute,   \* an element without data-controller
    Attribute,     \* the values of data-controller: sequences of identifiers
    InitialParent, \* the page as it is loaded
    InitialValue,
    Needs,         \* Needs[i]: the controllers that i.initialize looks up
    MaxChanges     \* bound: changes of the DOM and of the registrations

Root == 0          \* document.documentElement
Detached == -1

\* A parent comes before its children.
IsTree(tree) ==
    /\ tree \in [Element -> Element \cup {Root, Detached}]
    /\ \A e \in Element : tree[e] \in Element => tree[e] < e

ASSUME TreeAssumption == Element \subseteq Nat \ {Root} /\ IsTree(InitialParent)

\* The values that are set are values of the attribute.
ASSUME PageAssumption ==
    /\ Attribute \ {NoAttribute} \subseteq Seq(Identifier)
    /\ InitialValue \in [Element -> Attribute]
    /\ MaxChanges \in Nat

\* A scope, and a context of it: an element with an identifier.
Scope == Element \X Identifier
Names(string) == IF string = NoAttribute THEN <<>> ELSE string

VARIABLES
    parent,     \* parent[e]: the node that e is in, Root, or Detached
    value,      \* value[e]: the attribute data-controller of e
    records,    \* the MutationRecords not handed over yet
    transient,  \* removed nodes that are still observed until then
    batch,      \* the records handed over and not handled yet
    phase,      \* of the application: "new", "waiting" for the DOM, "started"
    loading,    \* document.readyState
    elements,   \* ElementObserver.elements
    tokens,     \* TokenListObserver.tokensByElement
    references, \* ScopeObserver.scopeReferenceCounts
    scopes,     \* Router.scopesByIdentifier
    modules,    \* Router.modulesByIdentifier
    contexts,   \* Module.contextsByScope
    connected,  \* Module.connectedContexts
    calls,      \* calls[c]: connect() minus disconnect()
    missed,     \* look-ups of an initialize that found nothing
    changes     \* how many changes there have been

document == <<parent, value, records, transient>>
registered == <<contexts, connected, calls, missed>>
router == <<elements, tokens, references, scopes, modules, registered>>
vars == <<document, batch, phase, loading, router, changes>>

Record == [type : {"attributes", "added", "removed"}, element : Element]

\* The values each variable takes.
TypeOK ==
    /\ IsTree(parent)
    /\ value \in [Element -> Attribute]
    /\ records \in Seq(Record) /\ batch \in Seq(Record)
    /\ transient \subseteq Element
    /\ phase \in {"new", "waiting", "started"} /\ loading \in BOOLEAN
    /\ elements \subseteq Element
    /\ tokens \in [Element -> Seq(Identifier)]
    /\ references \in [Scope -> Nat]
    /\ scopes \subseteq Scope
    /\ modules \subseteq Identifier
    /\ contexts \subseteq Scope /\ connected \subseteq Scope
    /\ calls \in [Scope -> Int]
    /\ missed \subseteq Identifier \X UNION {Needs[i] : i \in Identifier}
    /\ changes \in 0 .. MaxChanges

-----------------------------------------------------------------------------
\* The DOM: e and what it is in.
AncestorsIn(tree) ==
    LET A[e \in Element] == {e} \cup (IF tree[e] \in Element THEN A[tree[e]] ELSE {})
    IN  A
Ancestors(e) == AncestorsIn(parent)[e]
InDocument(e) == \E a \in Ancestors(e) : parent[a] = Root
Matching == {e \in Element : value[e] # NoAttribute}

\* What matches in the subtree of e when the record is handled.
MatchingIn(e) == {d \in Matching : e \in Ancestors(d)}

-----------------------------------------------------------------------------
\* Variant: the last element comes first.
LastFirst(c, d) == c[1] > d[1]

\* Scopes that are connected in one go are so in this order: querySelectorAll
\* answers in document order, and names come as they are in the attribute.
InOrder(c, d) ==
    LET names == Names(value[c[1]]) IN
    \/ c[1] < d[1]
    \/ /\ c[1] = d[1]
       /\ \E n \in 1 .. Len(names) : names[n] = c[2] /\ \A m \in 1 .. n : names[m] # d[2]

\* The contexts in gone are disconnected, then those of the scopes with times[c]
\* above 0 connected so often.  A context that is not among those kept is made,
\* which runs initialize; it finds the contexts that are connected before it.
Connect(gone, times, kept) ==
    LET come == {c \in Scope : times[c] > 0}
        Found(c) == {d[2] : d \in (connected \ gone) \cup {x \in come : InOrder(x, c)}}
    IN  /\ contexts' = kept \cup come
        /\ connected' = (connected \ gone) \cup come
        /\ calls' = [c \in Scope |-> calls[c] - (IF c \in gone THEN 1 ELSE 0) + times[c]]
        /\ missed' = missed \cup UNION {{c[2]} \X (Needs[c[2]] \ Found(c)) : c \in come \ kept}

\* Variant: a scope is connected for each token that names it.
MatchEach(count, times) == times

\* ScopeObserver: how often the router hears of a scope with count references
\* whose name is matched that many times more, and less.
MatchScope(count, times) == IF count = 0 /\ times > 0 THEN 1 ELSE 0
UnmatchScope(count, times) == IF count > 0 /\ times >= count THEN 1 ELSE 0

\* TokenListObserver: the first place where two lists differ.
FirstDiffering(old, new) ==
    CHOOSE n \in 1 .. Len(old) + 1 :
        /\ n <= Len(new) + 1 /\ \A m \in 1 .. n - 1 : old[m] = new[m]
        /\ n <= Len(old) /\ n <= Len(new) => old[n] # new[n]

Times(i, list, first) == Cardinality({n \in first .. Len(list) : list[n] = i})

\* The lists that the observer has become new: the tokens from the first that
\* differs on are unmatched, those now in their place matched.
Unmatched(c, new) == Times(c[2], tokens[c[1]], FirstDiffering(tokens[c[1]], new[c[1]]))
Matched(c, new) == Times(c[2], new[c[1]], FirstDiffering(tokens[c[1]], new[c[1]]))

\* The references that are left in between; none is taken from 0.
Left(c, new) ==
    IF Unmatched(c, new) < references[c] THEN references[c] - Unmatched(c, new) ELSE 0

\* Router.scopeDisconnected and scopeConnected for what the ScopeObserver tells.
\* No two elements have a scope in common.
ReplaceTokens(new) ==
    LET gone == {c \in Scope : UnmatchScope(references[c], Unmatched(c, new)) > 0}
        told == [c \in Scope |-> MatchScope(Left(c, new), Matched(c, new))]
    IN  /\ tokens' = new
        /\ references' = [c \in Scope |-> Left(c, new) + Matched(c, new)]
        /\ scopes' = (scopes \ gone) \cup {c \in Scope : told[c] > 0}
        /\ Connect({c \in gone \cap contexts : c[2] \in modules},
                   [c \in Scope |-> IF c[2] \in modules THEN told[c] ELSE 0], contexts)

\* ElementObserver.addElement and removeElement for what comes to the elements
\* and what goes; the attributes of those in reread are read again.
Observe(now, reread) ==
    /\ elements' = now
    /\ ReplaceTokens([e \in Element |->
          CASE e \in elements \ now -> <<>>
            [] e \in Matching \cap now \cap (reread \cup (Element \ elements)) -> Names(value[e])
            [] OTHER -> tokens[e]])

\* The elements that are observed once a record has been handled.
AddElement(e) == IF InDocument(e) THEN elements \cup {e} ELSE elements

\* Variant: an element that has lost the attribute is left alone.
IgnoreLostAttribute(e) == IF e \in Matching THEN AddElement(e) ELSE elements

AttributeChanged(e) ==
    IF e \in elements /\ e \in Matching THEN elements
    ELSE IF e \in Matching THEN AddElement(e) ELSE elements \ {e}

ProcessMutation(r) ==
    CASE r.type = "attributes" -> AttributeChanged(r.element)
      [] r.type = "removed" -> elements \ MatchingIn(r.element)
      [] r.type = "added" /\ InDocument(r.element) -> elements \cup MatchingIn(r.element)
      [] OTHER -> elements

ScopesOf(i) == {c \in scopes : c[2] = i}

-----------------------------------------------------------------------------
Init ==
    /\ parent = InitialParent
    /\ value = InitialValue
    /\ records = <<>> /\ batch = <<>>
    /\ transient = {}
    /\ phase = "new"
    /\ loading \in BOOLEAN
    /\ elements = {}
    /\ tokens = [e \in Element |-> <<>>]
    /\ references = [c \in Scope |-> 0]
    /\ scopes = {} /\ modules = {} /\ contexts = {} /\ connected = {}
    /\ calls = [c \in Scope |-> 0]
    /\ missed = {}
    /\ changes = 0

\* What is not interrupted: the handling of a batch.
Idle == batch = <<>>

\* main() of main.js: Application.start begins to wait, then each controller
\* is registered, for which there is no scope yet.
Main ==
    /\ phase = "new"
    /\ phase' = "waiting"
    /\ modules' = Identifier
    /\ UNCHANGED <<document, batch, loading, elements, tokens, references, scopes,
                   registered, changes>>

\* DOMContentLoaded.
DomReady ==
    /\ Idle /\ loading
    /\ loading' = FALSE
    /\ UNCHANGED <<document, batch, phase, router, changes>>

\* The rest of Application.start, after the await: observe and refresh.
Start ==
    /\ phase = "waiting" /\ ~loading
    /\ phase' = "started"
    /\ Observe({e \in Matching : InDocument(e)}, {})
    /\ UNCHANGED <<document, batch, loading, modules, changes>>

-----------------------------------------------------------------------------
\* A node is observed in the document, and in what has been removed from it
\* since the last hand-over.
Observed(node) ==
    /\ phase = "started"
    /\ \/ node = Root
       \/ node \in Element /\ (InDocument(node) \/ Ancestors(node) \cap transient # {})

Queue(type, e, node) ==
    records' = IF Observed(node) THEN Append(records, [type |-> type, element |-> e]) ELSE records

MayChange == Idle /\ changes < MaxChanges /\ changes' = changes + 1

SetAttribute(e, new) ==
    /\ MayChange
    /\ new # value[e]
    /\ value' = [value EXCEPT ![e] = new]
    /\ Queue("attributes", e, e)
    /\ UNCHANGED <<parent, transient, batch, phase, loading, router>>

InsertNode(e, node) ==
    /\ MayChange
    /\ parent[e] = Detached /\ node < e
    /\ parent' = [parent EXCEPT ![e] = node]
    /\ Queue("added", e, node)
    /\ UNCHANGED <<value, transient, batch, phase, loading, router>>

RemoveNode(e) ==
    /\ MayChange
    /\ parent[e] # Detached
    /\ parent' = [parent EXCEPT ![e] = Detached]
    /\ Queue("removed", e, parent[e])
    /\ transient' = IF Observed(parent[e]) THEN transient \cup {e} ELSE transient
    /\ UNCHANGED <<value, batch, phase, loading, router>>

\* Variant: one record is handled, the others of the batch are not.
DeliverFirst ==
    /\ Idle /\ records # <<>>
    /\ batch' = <<Head(records)>>
    /\ records' = <<>>
    /\ transient' = {}
    /\ UNCHANGED <<parent, value, phase, loading, router, changes>>

\* The browser hands over all records at the end of the running script.
Deliver ==
    /\ Idle /\ records # <<>>
    /\ batch' = records
    /\ records' = <<>>
    /\ transient' = {}
    /\ UNCHANGED <<parent, value, phase, loading, router, changes>>

\* The loop of processMutations.
Process ==
    /\ ~Idle
    /\ LET r == Head(batch)
       IN  Observe(ProcessMutation(r), IF r.type = "attributes" THEN {r.element} ELSE {})
    /\ batch' = Tail(batch)
    /\ UNCHANGED <<document, phase, loading, modules, changes>>

\* Application.register and unload, later on.  A module made anew has no contexts,
\* so initialize runs again.
Register(i) ==
    /\ MayChange /\ phase # "new"
    /\ modules' = modules \cup {i}
    /\ Connect({c \in ScopesOf(i) \cap contexts : i \in modules},
               [c \in Scope |-> IF c \in ScopesOf(i) THEN 1 ELSE 0],
               {c \in contexts : c[2] # i})
    /\ UNCHANGED <<document, batch, phase, loading, elements, tokens, references, scopes>>
Unload(i) ==
    /\ MayChange /\ phase # "new" /\ i \in modules
    /\ modules' = modules \ {i}
    /\ Connect(ScopesOf(i) \cap contexts, [c \in Scope |-> 0], contexts)
    /\ UNCHANGED <<document, batch, phase, loading, elements, tokens, references, scopes>>

Next ==
    \/ Main \/ DomReady \/ Start \/ Deliver \/ Process
    \/ \E e \in Element, new \in Attribute : SetAttribute(e, new)
    \/ \E e \in Element, node \in Element \cup {Root} : InsertNode(e, node)
    \/ \E e \in Element : RemoveNode(e)
    \/ \E i \in Identifier : Register(i) \/ Unload(i)

\* The script runs, the document gets loaded, promises are resolved and the
\* records are handed over and handled.
Fairness ==
    /\ WF_vars(Main) /\ WF_vars(DomReady) /\ WF_vars(Start)
    /\ WF_vars(Deliver) /\ WF_vars(Process)

Spec == Init /\ [][Next]_vars /\ Fairness

-----------------------------------------------------------------------------
\* The scopes that the document names.
Named == {c \in Scope : InDocument(c[1]) /\ \E n \in 1 .. Len(Names(value[c[1]])) :
                                               Names(value[c[1]])[n] = c[2]}
Wanted == {c \in Named : c[2] \in modules}

\* When no record is outstanding the connected controllers are those that the
\* document names, whatever was moved, removed or renamed while the records
\* of other changes waited, and whatever was registered meanwhile.
ConnectedWhenQuiet == phase = "started" /\ records = <<>> /\ batch = <<>> => connected = Wanted

\* A controller is never connected twice or disconnected twice in a row.
CallsAlternate == \A c \in Scope : calls[c] = IF c \in connected THEN 1 ELSE 0

\* On the page as it is loaded every initialize finds the controllers that it
\* looks up: Routing, Catalog and Packets read peerInfo without a check.
NeedsFound == changes = 0 => missed = {}

\* However the page changes, the connected controllers catch up with it again
\* and again.
CatchesUp == []<>(phase = "started" /\ connected = Wanted)
=============================================================================
