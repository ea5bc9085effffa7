------------------------------ MODULE Bindings ------------------------------
(***************************************************************************)
(* How a click reaches the methods of controllers: the other half of       *)
(* gui/web/assets/scripts/stimulus.js.  An element names actions in        *)
(* data-action ("click->routing#update"); each connected controller        *)
(* watches its element's subtree, for the actions that name it, with an    *)
(* observer of its own and binds them in the dispatcher, which listens on  *)
(* the elements.  A controller also binds actions that lie in a nested     *)
(* controller of its own name: that one of them only is called is decided  *)
(* when the event comes.                                                   *)
(*                                                                         *)
(* That the router connects the controllers that data-controller names is  *)
(* shown in Stimulus and taken over here in one step.  The actions are     *)
(* clicks, like all in node.html; an action is its place in the attribute  *)
(* and the controller it names.  The tree does not change.                 *)
(***************************************************************************)
EXTENDS Integers, Sequences

CONSTANTS
    Element,             \* 1..n
    Identifier,          \* names of controllers
    Parent,              \* the tree: Parent[e] < e, 0 for the document
    Controllers,         \* the values of data-controller, as sets
    Actions,             \* the values of data-action: sequences of identifiers
    InitialControllers,  \* the page as it is loaded
    InitialActions,
    Targets,             \* Targets[e]: whose target e is (data-x-target)
    Stopping,            \* whose methods call stopImmediatePropagation
    MaxChanges           \* bound: changes of the attributes

ASSUME TreeAssumption ==
    /\ Element \subseteq Nat \ {0}
    /\ \A e \in Element : Parent[e] \in Element \cup {0} /\ Parent[e] < e

\* The values that are set are values of the attributes.
ASSUME PageAssumption ==
    /\ Controllers \subseteq SUBSET Identifier /\ Actions \subseteq Seq(Identifier)
    /\ InitialControllers \in [Element -> Controllers]
    /\ InitialActions \in [Element -> Actions]
    /\ MaxChanges \in Nat

Context == Element \X Identifier

VARIABLES
    controllers,   \* controllers[e]: data-controller of e
    actions,       \* actions[e]: data-action of e
    started,       \* dispatcher.started
    renamed,       \* the router has records of data-controller to read
    rebound,       \* the elements of which contexts have records of data-action
    connected,     \* the contexts that observe their elements
    tokens,        \* tokens[c][e]: the actions that context c last read in e
    listeners,     \* listeners[e]: the bindings of the EventListener of e
    changes        \* how many changes there have been

vars == <<controllers, actions, started, renamed, rebound, connected, tokens, listeners, changes>>

\* A binding of the action at index, in the attribute of the listener's element.
Binding == [context : Context, index : Nat \ {0}]

Ancestors[e \in Element] == {e} \cup (IF Parent[e] = 0 THEN {} ELSE Ancestors[Parent[e]])
InTree(e, root) == root \in Ancestors[e]

\* The values each variable takes.
TypeOK ==
    /\ controllers \in [Element -> Controllers]
    /\ actions \in [Element -> Actions]
    /\ started \in BOOLEAN /\ renamed \in BOOLEAN
    /\ rebound \subseteq Element
    /\ connected \subseteq Context
    /\ tokens \in [Context -> [Element -> Actions \cup {<<>>}]]
    /\ listeners \in [Element -> SUBSET Binding]
    /\ \A e \in Element : \A b \in listeners[e] : InTree(e, b.context[1])
    /\ changes \in 0 .. MaxChanges

-----------------------------------------------------------------------------
\* BindingObserver.parseValueForToken: the bindings of context c in a list of
\* actions, from place first on.
Bind(c, list, first) == {[context |-> c, index |-> n] :
    n \in {m \in 1 .. Len(list) : m >= first /\ list[m] = c[2]}}

\* TokenListObserver: the first place where two lists differ.
FirstDiffering(old, new) ==
    CHOOSE n \in 1 .. Len(old) + 1 :
        /\ n <= Len(new) + 1 /\ \A m \in 1 .. n - 1 : old[m] = new[m]
        /\ n <= Len(old) /\ n <= Len(new) => old[n] # new[n]

Tree(root) == {e \in Element : InTree(e, root)}

\* BindingObserver.start: every action in the tree is read.
StartContext(c) == [e \in Element |-> IF e \in Tree(c[1]) THEN actions[e] ELSE <<>>]

\* Variant: the observer stops, and the actions it has read stay.
StopObserver(c) == tokens[c]

\* BindingObserver.stop, disconnectAllActions: none is left.
StopContext(c) == [e \in Element |-> <<>>]

\* A context reads the records of its tree.
Reread(c) == [e \in Element |-> IF e \in rebound \cap Tree(c[1]) THEN actions[e] ELSE tokens[c][e]]

\* The contexts that are to observe their elements.
Wanted == {c \in Context : c[2] \in controllers[c[1]]}

\* What context c has read when the contexts in now observe their elements.
Read(c, now) == CASE c \in now \ connected -> StartContext(c)
                  [] c \in connected \ now -> StopContext(c)
                  [] c \in now \cap connected -> Reread(c)
                  [] OTHER -> tokens[c]

\* The list old becomes new: the bindings from the first that differs on are
\* disconnected, or connected.
Gone(c, old, new) == Bind(c, old, FirstDiffering(old, new))
Come(c, old, new) == Bind(c, new, FirstDiffering(old, new))

\* What the EventListener of e has then.  No two contexts, and no two elements,
\* have a binding in common, so that the order they are visited in does not matter.
Dispatch(e, now) ==
    (listeners[e] \ UNION {Gone(c, tokens[c][e], Read(c, now)[e]) : c \in Context})
        \cup UNION {Come(c, tokens[c][e], Read(c, now)[e]) : c \in Context}

\* The contexts in now observe their elements, and read what is outstanding.
Route(now) ==
    /\ connected' = now
    /\ tokens' = [c \in Context |-> Read(c, now)]
    /\ listeners' = [e \in Element |-> Dispatch(e, now)]

-----------------------------------------------------------------------------
Init ==
    /\ controllers = InitialControllers
    /\ actions = InitialActions
    /\ started = FALSE
    /\ renamed = FALSE
    /\ rebound = {}
    /\ connected = {}
    /\ tokens = [c \in Context |-> [e \in Element |-> <<>>]]
    /\ listeners = [e \in Element |-> {}]
    /\ changes = 0

\* Application.start: the dispatcher starts, then the router.  (The page never
\* calls stop.)
Start ==
    /\ ~started
    /\ started' = TRUE
    /\ Route(Wanted)
    /\ UNCHANGED <<controllers, actions, renamed, rebound, changes>>

MayChange == changes < MaxChanges /\ changes' = changes + 1

SetController(e, value) ==
    /\ MayChange
    /\ value # controllers[e]
    /\ controllers' = [controllers EXCEPT ![e] = value]
    /\ renamed' = started
    /\ UNCHANGED <<actions, started, rebound, connected, tokens, listeners>>

\* A record goes to each context that observes the element by now.
SetAction(e, value) ==
    /\ MayChange
    /\ value # actions[e]
    /\ actions' = [actions EXCEPT ![e] = value]
    /\ rebound' = IF \E c \in connected : InTree(e, c[1]) THEN rebound \cup {e} ELSE rebound
    /\ UNCHANGED <<controllers, started, renamed, connected, tokens, listeners>>

\* The records are handed over: to the router, then to the contexts that were
\* there before and still are.
Deliver ==
    /\ renamed \/ rebound # {}
    /\ Route(IF renamed THEN Wanted ELSE connected)
    /\ renamed' = FALSE
    /\ rebound' = {}
    /\ UNCHANGED <<controllers, actions, started, changes>>

Next ==
    \/ Start \/ Deliver
    \/ \E e \in Element, value \in Controllers : SetController(e, value)
    \/ \E e \in Element, value \in Actions : SetAction(e, value)

Spec == Init /\ [][Next]_vars

-----------------------------------------------------------------------------
\* element.closest: the nearest element that names controller i, 0 for none.
Closest(e, i) ==
    LET named == {a \in Ancestors[e] : i \in controllers[a]}
    IN  CHOOSE a \in named \cup {0} : \A b \in named : b <= a

\* Variant: the controller's element is enough.
ContainsTarget(c, target) == InTree(target, c[1])

\* Binding.willBeInvokedByEvent, for a target in the document.
WillBeInvoked(c, target) == c[1] = target \/ Closest(target, c[2]) = c[1]

\* Variant: the whole tree is searched.
FindAnywhere(c) == {e \in Tree(c[1]) : c[2] \in Targets[e]}

\* Scope.findAllElements, behind this.xTargets: the element itself, or what
\* lies in its tree and is not in a nested controller of that name.
FindAll(c) ==
    {e \in Tree(c[1]) : c[2] \in Targets[e] /\ (e = c[1] \/ Closest(e, c[2]) = c[1])}

\* A call of a method: its controller and the place of the action.  A click calls
\* the listeners from the target upward (parents have smaller numbers), and a
\* listener its bindings in the order of the attribute (EventListener.bindings).
Before(x, y) == x.element > y.element \/ (x.element = y.element /\ x.index < y.index)

\* EventListener.handleEvent on element e, with Binding.handleEvent: the calls that
\* are made if no method stops the event.
HandleEvent(e, target) ==
    {[context |-> b.context, element |-> e, index |-> b.index] :
        b \in {l \in listeners[e] : WillBeInvoked(l.context, target)}}

\* stopImmediatePropagation: none is made after one that stops the event.
UntilStopped(calls) ==
    {y \in calls : ~\E x \in calls : x.context[2] \in Stopping /\ Before(x, y)}

\* The calls that a click on target makes.
Click(target) ==
    IF started THEN UntilStopped(UNION {HandleEvent(e, target) : e \in Ancestors[target]}) ELSE {}

-----------------------------------------------------------------------------
\* When no record is outstanding the bindings are those that the attributes
\* name, whatever changed and however many records came at a time.
Quiet == started /\ ~renamed /\ rebound = {}
BindingsFollow ==
    Quiet => \A e \in Element :
        listeners[e] = UNION {Bind(c, actions[e], 1) : c \in {d \in Wanted : InTree(e, d[1])}}

\* A click on an element then calls what one who reads the page expects: around
\* the target each action once, on the nearest controller around the target that
\* has the action's name, if that encloses the action; unless an action before it
\* in the attribute, or in an element inside, stops the event.
Expected(target) ==
    LET Nearest(e, n) == [context |-> <<Closest(target, actions[e][n]), actions[e][n]>>,
                          element |-> e, index |-> n]
        enclosed(e) == {n \in 1 .. Len(actions[e]) : Closest(target, actions[e][n]) \in Ancestors[e]}
        calls == UNION {{Nearest(e, n) : n \in enclosed(e)} : e \in Ancestors[target]}
    IN  {y \in calls : \A x \in calls : x.context[2] \in Stopping =>
            \/ x.element \in Ancestors[y.element] \ {y.element}
            \/ x.element = y.element /\ x.index >= y.index}
ClickReaches == Quiet => \A target \in Element : Click(target) = Expected(target)

\* Each target belongs to one controller of its name at most, the nearest: two
\* nested panels of one kind never write into each other.
TargetsApart ==
    \A c \in Wanted : \A e \in FindAll(c) :
        \A d \in Wanted \ {c} : d[2] = c[2] => e \notin FindAll(d)
=============================================================================
