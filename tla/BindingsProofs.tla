--------------------------- MODULE BindingsProofs ---------------------------
(***************************************************************************)
(* The bindings of Bindings, for any tree and any attributes: they are     *)
(* those that the attributes name once no record is outstanding, a click   *)
(* then calls what the page says, and a target never belongs to two        *)
(* controllers of one name.                                                *)
(***************************************************************************)
EXTENDS Bindings, WellFoundedInduction, TLAPS

-----------------------------------------------------------------------------
(* The tree. *)

\* A set of natural numbers that is not empty has a least element.
LEMMA Least ==
  ASSUME NEW T \in SUBSET Nat, T # {}
  PROVE  \E n \in T : \A m \in T : n <= m
<1>1. PICK n \in T : \A m \in T : <<m, n>> \notin OpToRel(<, Nat)
  BY NatLessThanWellFounded, WFMin
<1>2. \A m \in T : ~(m < n)
  BY <1>1, Zenon DEF OpToRel
<1> QED
  BY <1>2

\* The ancestors of an element are itself and those of its parent: the sets
\* that contain the element and every parent of what they contain meet in them.
LEMMA AncestorsDef ==
  Ancestors = [e \in Element |->
                 {e} \cup (IF Parent[e] = 0 THEN {} ELSE Ancestors[Parent[e]])]
<1> DEFINE Closed(S) == \A x \in S : Parent[x] # 0 => Parent[x] \in S
           f == [e \in Element |->
                   {a \in Element : \A S \in SUBSET Element : e \in S /\ Closed(S) => a \in S}]
           Body(g, e) == {e} \cup (IF Parent[e] = 0 THEN {} ELSE g[Parent[e]])
<1>1. ASSUME NEW e \in Element PROVE e \in f[e] /\ Closed(f[e])
  <2>1. e \in f[e]
    OBVIOUS
  <2>2. ASSUME NEW x \in f[e], Parent[x] # 0 PROVE Parent[x] \in f[e]
    <3>1. x \in Element /\ Parent[x] \in Element
      BY <2>2, TreeAssumption
    <3>2. ASSUME NEW S \in SUBSET Element, e \in S, Closed(S) PROVE Parent[x] \in S
      <4>1. x \in S
        BY <3>2
      <4> QED
        BY <4>1, <3>2, <2>2
    <3> QED
      BY <3>1, <3>2
  <2> QED
    BY <2>1, <2>2
<1>2. ASSUME NEW e \in Element PROVE f[e] \subseteq Body(f, e)
  <2>1. Body(f, e) \subseteq Element
    BY TreeAssumption
  <2>2. Closed(Body(f, e))
    <3>1. ASSUME NEW x \in Body(f, e), Parent[x] # 0 PROVE Parent[x] \in Body(f, e)
      <4>1. CASE x = e
        <5>1. Parent[e] \in Element
          BY <3>1, <4>1, TreeAssumption
        <5>2. Parent[e] \in f[Parent[e]]
          BY <5>1, <1>1
        <5> QED
          BY <5>2, <3>1, <4>1
      <4>2. CASE Parent[e] # 0 /\ x \in f[Parent[e]]
        <5>1. Parent[e] \in Element
          BY <4>2, TreeAssumption
        <5>2. Closed(f[Parent[e]])
          BY <5>1, <1>1
        <5>3. Parent[x] \in f[Parent[e]]
          <6> HIDE DEF f
          <6> QED
            BY <5>2, <4>2, <3>1
        <5> QED
          BY <5>3, <4>2
      <4> QED
        BY <3>1, <4>1, <4>2
    <3> QED
      BY <3>1
  <2>3. e \in Body(f, e)
    OBVIOUS
  <2> QED
    <3> HIDE DEF Body
    <3> QED
      BY <2>1, <2>2, <2>3
<1>3. ASSUME NEW e \in Element PROVE Body(f, e) \subseteq f[e]
  <2>1. CASE Parent[e] = 0
    BY <2>1, <1>1
  <2>2. CASE Parent[e] # 0
    <3>1. Parent[e] \in Element
      BY <2>2, TreeAssumption
    <3>2. ASSUME NEW a \in f[Parent[e]] PROVE a \in f[e]
      <4>1. a \in Element
        BY <3>1, <3>2
      <4>2. ASSUME NEW S \in SUBSET Element, e \in S, Closed(S) PROVE a \in S
        <5>1. Parent[e] \in S
          BY <4>2, <2>2
        <5>2. \A T \in SUBSET Element : Parent[e] \in T /\ Closed(T) => a \in T
          BY <3>1, <3>2, Zenon
        <5> HIDE DEF Closed
        <5> QED
          BY <5>1, <5>2, <4>2, Zenon
      <4> QED
        BY <4>1, <4>2
    <3> QED
      BY <3>2, <2>2, <1>1
  <2> QED
    BY <2>1, <2>2
<1>4. f = [e \in Element |-> Body(f, e)]
  <2>1. ASSUME NEW e \in Element PROVE f[e] = Body(f, e)
    <3> HIDE DEF Body, f
    <3> QED
      BY <1>2, <1>3
  <2>2. f = [e \in Element |-> f[e]]
    OBVIOUS
  <2> HIDE DEF Body, f
  <2> QED
    BY <2>1, <2>2
<1>5. \E g : g = [e \in Element |-> Body(g, e)]
  <2> HIDE DEF Body, f
  <2> QED
    BY <1>4
<1> QED
  BY <1>5 DEF Ancestors

\* An element is its own ancestor, and the others come before it.
LEMMA AncestorsBefore ==
  ASSUME NEW e \in Element
  PROVE  e \in Ancestors[e] /\ \A a \in Ancestors[e] : a \in Element /\ a <= e
<1> DEFINE Bounded(x) == \A a \in Ancestors[x] : a \in Element /\ a <= x
           T == {x \in Element : ~Bounded(x)}
<1>1. ASSUME NEW x \in Element PROVE Ancestors[x] = {x} \cup (IF Parent[x] = 0 THEN {} ELSE Ancestors[Parent[x]])
  BY AncestorsDef
<1>2. T = {}
  <2> SUFFICES ASSUME T # {} PROVE FALSE
    OBVIOUS
  <2>1. T \in SUBSET Nat
    BY TreeAssumption
  <2>2. PICK x \in T : \A y \in T : x <= y
    <3> HIDE DEF T
    <3> QED
      BY <2>1, Least
  <2>3. x \in Element /\ ~Bounded(x)
    BY <2>2
  <2>4. PICK a \in Ancestors[x] : ~(a \in Element /\ a <= x)
    BY <2>3
  <2>5. x \in Nat /\ a # x
    BY <2>1, <2>3, <2>4
  <2>6. Parent[x] # 0 /\ a \in Ancestors[Parent[x]]
    BY <1>1, <2>3, <2>4, <2>5
  <2>7. Parent[x] \in Element /\ Parent[x] < x /\ Parent[x] \in Nat
    BY <2>6, <2>3, TreeAssumption
  <2>8. Bounded(Parent[x])
    BY <2>7, <2>5, <2>2
  <2>9. a \in Element /\ a <= Parent[x] /\ a \in Nat
    BY <2>8, <2>6, TreeAssumption
  <2> QED
    BY <2>9, <2>7, <2>5, <2>4
<1> QED
  BY <1>1, <1>2

\* Of two elements around a third the one that comes before encloses the other.
LEMMA AncestorsNested ==
  ASSUME NEW e \in Element, NEW a \in Ancestors[e], NEW b \in Ancestors[e]
  PROVE  a < b <=> a \in Ancestors[b] \ {b}
<1> DEFINE Nested(x) == \A y, z \in Ancestors[x] : y < z => y \in Ancestors[z]
           T == {x \in Element : ~Nested(x)}
<1>1. ASSUME NEW x \in Element
      PROVE  Ancestors[x] = {x} \cup (IF Parent[x] = 0 THEN {} ELSE Ancestors[Parent[x]])
  BY AncestorsDef
<1>2. T = {}
  <2> SUFFICES ASSUME T # {} PROVE FALSE
    OBVIOUS
  <2>1. T \in SUBSET Nat
    BY TreeAssumption
  <2>2. PICK x \in T : \A y \in T : x <= y
    <3> HIDE DEF T
    <3> QED
      BY <2>1, Least
  <2>3. x \in Element /\ ~Nested(x)
    BY <2>2
  <2>4. PICK y \in Ancestors[x], z \in Ancestors[x] : y < z /\ y \notin Ancestors[z]
    BY <2>3
  <2>5. /\ x \in Nat /\ y \in Element /\ y \in Nat /\ y <= x
        /\ z \in Element /\ z \in Nat /\ z <= x
    BY <2>3, <2>4, AncestorsBefore, TreeAssumption
  <2>6. z # x /\ y # x
    BY <2>4, <2>5
  <2>7. Parent[x] # 0 /\ y \in Ancestors[Parent[x]] /\ z \in Ancestors[Parent[x]]
    BY <1>1, <2>3, <2>4, <2>6
  <2>8. Parent[x] \in Element /\ Parent[x] < x /\ Parent[x] \in Nat
    BY <2>7, <2>3, TreeAssumption
  <2>9. Nested(Parent[x])
    BY <2>8, <2>5, <2>2
  <2> QED
    BY <2>9, <2>7, <2>4
<1>3. a < b => a \in Ancestors[b]
  BY <1>2
<1>4. /\ a \in Element /\ a \in Nat /\ b \in Element /\ b \in Nat
      /\ a \in Ancestors[b] => a <= b
  BY AncestorsBefore, TreeAssumption
<1> QED
  BY <1>3, <1>4

-----------------------------------------------------------------------------
(* Targets. *)

\* A bounded set of natural numbers that is not empty has a greatest element.
LEMMA Greatest ==
  ASSUME NEW T \in SUBSET Nat, T # {}, NEW bound \in Nat, \A n \in T : n <= bound
  PROVE  \E n \in T : \A m \in T : m <= n
<1> DEFINE D == {bound - n : n \in T}
<1>1. D \in SUBSET Nat /\ D # {}
  <2>1. ASSUME NEW n \in T PROVE bound - n \in Nat
    <3>1. n \in Nat /\ n <= bound
      OBVIOUS
    <3> QED
      BY <3>1
  <2> QED
    BY <2>1
<1>2. PICK d \in D : \A k \in D : d <= k
  <2> HIDE DEF D
  <2> QED
    BY <1>1, Least
<1>3. PICK n \in T : d = bound - n
  BY <1>2
<1>4. ASSUME NEW m \in T PROVE m <= n
  <2>1. bound - n <= bound - m
    BY <1>2, <1>3
  <2>2. n \in Nat /\ m \in Nat
    OBVIOUS
  <2> QED
    BY <2>1, <2>2
<1> QED
  BY <1>4

\* The nearest element that names a controller is one around the target that does
\* so, if there is any.
LEMMA ClosestNames ==
  ASSUME NEW e \in Element, NEW i
  PROVE  Closest(e, i) # 0 => Closest(e, i) \in Element /\ i \in controllers[Closest(e, i)]
<1> DEFINE named == {a \in Ancestors[e] : i \in controllers[a]}
           Nearest(a) == \A b \in named : b <= a
<1>1. /\ e \in Nat /\ \A a \in named : a \in Element /\ a \in Nat /\ a <= e
  BY AncestorsBefore, TreeAssumption
<1>2. \E a \in named \cup {0} : Nearest(a)
  <2>1. CASE named = {}
    BY <2>1
  <2>2. CASE named # {}
    <3>1. named \in SUBSET Nat /\ \A a \in named : a <= e
      BY <1>1
    <3> HIDE DEF named
    <3>2. \E a \in named : \A b \in named : b <= a
      BY <3>1, <2>2, <1>1, Greatest
    <3> QED
      BY <3>2
  <2> QED
    BY <2>1, <2>2
<1>3. Closest(e, i) = CHOOSE a \in named \cup {0} : Nearest(a)
  BY DEF Closest
<1>4. Closest(e, i) \in named \cup {0}
  <2> HIDE DEF named, Nearest
  <2> QED
    BY <1>2, <1>3
<1> QED
  BY <1>1, <1>4

\* The nearest element that names a controller is the element itself when it
\* names it.
LEMMA ClosestIsSelf ==
  ASSUME NEW e \in Element, NEW i, i \in controllers[e]
  PROVE  Closest(e, i) = e
<1> DEFINE named == {a \in Ancestors[e] : i \in controllers[a]}
           Nearest(a) == \A b \in named : b <= a
<1>1. e \in Nat /\ e \in named /\ \A a \in named : a \in Nat /\ a <= e
  BY AncestorsBefore, TreeAssumption
<1>2. e \in named \cup {0} /\ Nearest(e)
  BY <1>1
<1>3. Closest(e, i) = CHOOSE a \in named \cup {0} : Nearest(a)
  BY DEF Closest
<1>4. Closest(e, i) \in named \cup {0} /\ Nearest(Closest(e, i))
  <2> HIDE DEF named, Nearest
  <2> QED
    BY <1>2, <1>3
<1> QED
  BY <1>1, <1>4

\* TargetsApart holds in every state: what a nested controller of the name
\* encloses has that as the nearest.
LEMMA ApartInEveryState == TargetsApart
<1> SUFFICES ASSUME NEW c \in Wanted, NEW e \in FindAll(c),
                    NEW d \in Wanted \ {c}, d[2] = c[2], e \in FindAll(d)
             PROVE  FALSE
  BY DEF TargetsApart
<1>1. /\ c \in Context /\ d \in Context
      /\ c[2] \in controllers[c[1]] /\ d[2] \in controllers[d[1]]
  BY DEF Wanted
<1>2. /\ e = c[1] \/ Closest(e, c[2]) = c[1]
      /\ e = d[1] \/ Closest(e, d[2]) = d[1]
  BY DEF FindAll
<1>3. e \in Element
  BY DEF FindAll, Tree
<1>4. c[1] = d[1]
  <2>1. e = c[1] => Closest(e, c[2]) = c[1]
    BY <1>1, <1>3, ClosestIsSelf
  <2>2. e = d[1] => Closest(e, d[2]) = d[1]
    BY <1>1, <1>3, ClosestIsSelf
  <2> QED
    BY <2>1, <2>2, <1>2
<1>5. c = d
  BY <1>1, <1>4 DEF Context
<1> QED
  BY <1>5

\* Whatever the attributes become, no target belongs to two controllers of one
\* name (Scope.findAllElements, Scope.containsElement).
THEOREM TargetsBelongToOne == Spec => []TargetsApart
<1>1. TargetsApart
  BY ApartInEveryState
<1> QED
  BY <1>1, PTL

-----------------------------------------------------------------------------
(* Lists of actions. *)

\* Two lists have a first place where they differ, and equal beginnings before.
LEMMA FirstDiffers ==
  ASSUME NEW old \in Seq(Identifier), NEW new \in Seq(Identifier)
  PROVE  LET n == FirstDiffering(old, new)
         IN  /\ n \in 1 .. Len(old) + 1 /\ n <= Len(new) + 1
             /\ \A m \in 1 .. n - 1 : old[m] = new[m]
<1> DEFINE First(n) == /\ n <= Len(new) + 1 /\ \A m \in 1 .. n - 1 : old[m] = new[m]
                       /\ n <= Len(old) /\ n <= Len(new) => old[n] # new[n]
           D == {n \in Nat \ {0} : n > Len(old) \/ n > Len(new) \/ old[n] # new[n]}
<1>1. Len(old) \in Nat /\ Len(new) \in Nat
  OBVIOUS
<1>2. D \in SUBSET Nat /\ Len(old) + 1 \in D /\ Len(new) + 1 \in D
  BY <1>1
<1>3. PICK n \in D : \A m \in D : n <= m
  <2> HIDE DEF D
  <2> QED
    BY <1>2, Least
<1>4. n \in 1 .. Len(old) + 1 /\ n <= Len(new) + 1 /\ n \in Nat
  BY <1>1, <1>2, <1>3
<1>5. \A m \in 1 .. n - 1 : old[m] = new[m]
  <2>1. ASSUME NEW m \in 1 .. n - 1 PROVE old[m] = new[m]
    <3>1. m \in Nat \ {0} /\ m \notin D
      BY <1>3, <1>4
    <3> QED
      BY <3>1
  <2> QED
    BY <2>1
<1>6. First(n)
  BY <1>3, <1>4, <1>5
<1>7. FirstDiffering(old, new) = CHOOSE k \in 1 .. Len(old) + 1 : First(k)
  BY DEF FirstDiffering
<1>8. FirstDiffering(old, new) \in 1 .. Len(old) + 1 /\ First(FirstDiffering(old, new))
  <2> HIDE DEF First
  <2> QED
    BY <1>4, <1>6, <1>7
<1> QED
  BY <1>8

\* Replacing the bindings from the first place that differs on replaces them all.
LEMMA ReplacedAll ==
  ASSUME NEW c, NEW old \in Seq(Identifier), NEW new \in Seq(Identifier)
  PROVE  Bind(c, new, 1) = (Bind(c, old, 1) \ Gone(c, old, new)) \cup Come(c, old, new)
<1> DEFINE n == FirstDiffering(old, new)
           B(k) == [context |-> c, index |-> k]
<1>1. n \in 1 .. Len(old) + 1 /\ n <= Len(new) + 1 /\ \A m \in 1 .. n - 1 : old[m] = new[m]
  BY FirstDiffers
<1>2. Len(old) \in Nat /\ Len(new) \in Nat /\ n \in Nat /\ n >= 1
  BY <1>1
<1> HIDE DEF n
<1>3. \A k, m : B(k) = B(m) => k = m
  OBVIOUS
<1>4. ASSUME NEW list \in Seq(Identifier), NEW first \in Nat, NEW k \in Int
      PROVE  B(k) \in Bind(c, list, first) <=> k \in 1 .. Len(list) /\ k >= first /\ list[k] = c[2]
  <2>1. Bind(c, list, first) = {B(m) : m \in {l \in 1 .. Len(list) : l >= first /\ list[l] = c[2]}}
    BY DEF Bind
  <2> HIDE DEF B
  <2> QED
    BY <2>1, <1>3
<1>5. ASSUME NEW b, NEW list \in Seq(Identifier), NEW first \in Nat, b \in Bind(c, list, first)
      PROVE  \E k \in Int : b = B(k)
  BY <1>5 DEF Bind
<1>6. Gone(c, old, new) = Bind(c, old, n) /\ Come(c, old, new) = Bind(c, new, n)
  BY DEF Gone, Come, n
<1>7. ASSUME NEW k \in Int
      PROVE  B(k) \in Bind(c, new, 1)
               <=> B(k) \in (Bind(c, old, 1) \ Bind(c, old, n)) \cup Bind(c, new, n)
  <2>1. k \in 1 .. n - 1 => k \in 1 .. Len(old) /\ k \in 1 .. Len(new) /\ old[k] = new[k]
    BY <1>1, <1>2
  <2>2. /\ B(k) \in Bind(c, new, 1) <=> k \in 1 .. Len(new) /\ k >= 1 /\ new[k] = c[2]
        /\ B(k) \in Bind(c, old, 1) <=> k \in 1 .. Len(old) /\ k >= 1 /\ old[k] = c[2]
        /\ B(k) \in Bind(c, new, n) <=> k \in 1 .. Len(new) /\ k >= n /\ new[k] = c[2]
        /\ B(k) \in Bind(c, old, n) <=> k \in 1 .. Len(old) /\ k >= n /\ old[k] = c[2]
    BY <1>2, <1>4
  <2> HIDE DEF B
  <2> QED
    BY <2>1, <2>2, <1>2
<1> QED
  <2>1. ASSUME NEW b
        PROVE  b \in Bind(c, new, 1)
                 <=> b \in (Bind(c, old, 1) \ Bind(c, old, n)) \cup Bind(c, new, n)
    <3>1. (\E k \in Int : b = B(k))
            => (b \in Bind(c, new, 1)
                  <=> b \in (Bind(c, old, 1) \ Bind(c, old, n)) \cup Bind(c, new, n))
      BY <1>7
    <3>2. b \in Bind(c, new, 1) \/ b \in Bind(c, old, 1) \/ b \in Bind(c, new, n)
            => \E k \in Int : b = B(k)
      BY <1>2, <1>5
    <3> QED
      BY <3>1, <3>2
  <2> QED
    BY <2>1, <1>6

\* A binding carries its context.
LEMMA BindingsOf ==
  ASSUME NEW c, NEW list, NEW first, NEW b \in Bind(c, list, first)
  PROVE  b.context = c
BY DEF Bind

\* No action, no binding.
LEMMA NothingBound == \A c : Bind(c, <<>>, 1) = {}
BY DEF Bind

-----------------------------------------------------------------------------
(* The inductive invariant. *)

VarsType ==
    /\ controllers \in [Element -> Controllers]
    /\ actions \in [Element -> Actions]
    /\ started \in BOOLEAN /\ renamed \in BOOLEAN
    /\ rebound \subseteq Element
    /\ connected \subseteq Context
    /\ tokens \in [Context -> [Element -> Actions \cup {<<>>}]]
    /\ listeners = [e \in Element |-> listeners[e]]
    /\ changes \in 0 .. MaxChanges

\* Without an outstanding record of data-controller the contexts that observe
\* are those that the document names; before the start there are none, nor records.
Settled ==
    /\ started /\ ~renamed => connected = Wanted
    /\ ~started => connected = {} /\ ~renamed

\* What a context has read is what its tree names, but for outstanding records;
\* a context that has stopped has read nothing.
TokensFollow == \A c \in Context, e \in Element :
    IF c \in connected /\ InTree(e, c[1])
    THEN e \notin rebound => tokens[c][e] = actions[e]
    ELSE tokens[c][e] = <<>>

\* The dispatcher has the bindings of what the contexts have read, and no other.
Listening == \A e \in Element : listeners[e] = UNION {Bind(c, tokens[c][e], 1) : c \in Context}

IInv == VarsType /\ Settled /\ TokensFollow /\ Listening

\* What a context reads is a list of actions.
LEMMA ReadType ==
  ASSUME VarsType, NEW now \in SUBSET Context, NEW c \in Context
  PROVE  Read(c, now) \in [Element -> Actions \cup {<<>>}]
<1> DEFINE R == [Element -> Actions \cup {<<>>}]
<1>1. StartContext(c) \in R /\ StopContext(c) \in R /\ tokens[c] \in R
  BY DEF VarsType, StartContext, StopContext
<1>2. Reread(c) \in R
  BY DEF VarsType, Reread
<1> QED
  BY <1>1, <1>2 DEF Read

\* What the contexts have read is a list of identifiers.
LEMMA ListOfIdentifiers ==
  ASSUME NEW list \in Actions \cup {<<>>}
  PROVE  list \in Seq(Identifier)
<1>1. <<>> \in Seq(Identifier)
  OBVIOUS
<1> QED
  BY <1>1, PageAssumption

\* When the contexts that are to observe do so, each has read all that its tree
\* names.
LEMMA RouteReads ==
  ASSUME VarsType, TokensFollow, NEW now \in SUBSET Context,
         NEW c \in Context, NEW e \in Element
  PROVE  Read(c, now)[e] = IF c \in now /\ InTree(e, c[1]) THEN actions[e] ELSE <<>>
<1>1. e \in Tree(c[1]) <=> InTree(e, c[1])
  BY DEF Tree
<1>2. CASE c \in now \ connected
  BY <1>1, <1>2 DEF Read, StartContext
<1>3. CASE c \in connected \ now
  BY <1>3 DEF Read, StopContext
<1>4. CASE c \in now \cap connected
  <2>1. Read(c, now)[e] = IF e \in rebound /\ InTree(e, c[1]) THEN actions[e] ELSE tokens[c][e]
    BY <1>1, <1>4 DEF Read, Reread
  <2> QED
    BY <2>1, <1>4 DEF TokensFollow
<1>5. CASE c \notin now /\ c \notin connected
  <2>1. Read(c, now) = tokens[c]
    BY <1>5 DEF Read
  <2> QED
    BY <2>1, <1>5 DEF TokensFollow
<1> QED
  BY <1>2, <1>3, <1>4, <1>5

\* The dispatcher follows what the contexts read: bindings carry their context,
\* so that those of one are not disconnected for another.
LEMMA DispatchFollows ==
  ASSUME VarsType, Listening, NEW now \in SUBSET Context, NEW e \in Element
  PROVE  Dispatch(e, now) = UNION {Bind(c, Read(c, now)[e], 1) : c \in Context}
<1> DEFINE Old(c) == tokens[c][e]
           New(c) == Read(c, now)[e]
<1>1. ASSUME NEW c \in Context PROVE Old(c) \in Seq(Identifier) /\ New(c) \in Seq(Identifier)
  <2>1. Old(c) \in Actions \cup {<<>>}
    BY DEF VarsType
  <2>2. New(c) \in Actions \cup {<<>>}
    BY ReadType
  <2> QED
    BY <2>1, <2>2, ListOfIdentifiers
<1>2. Dispatch(e, now) =
        ((UNION {Bind(c, Old(c), 1) : c \in Context}) \ UNION {Gone(c, Old(c), New(c)) : c \in Context})
          \cup UNION {Come(c, Old(c), New(c)) : c \in Context}
  BY DEF Dispatch, Listening
<1> HIDE DEF Old, New
<1>3. ASSUME NEW c \in Context
      PROVE  Bind(c, New(c), 1) = (Bind(c, Old(c), 1) \ Gone(c, Old(c), New(c))) \cup Come(c, Old(c), New(c))
  BY <1>1, ReplacedAll
<1>4. ASSUME NEW c \in Context, NEW b
      PROVE  /\ b \in Bind(c, Old(c), 1) => b.context = c
             /\ b \in Gone(c, Old(c), New(c)) => b.context = c
  BY BindingsOf DEF Gone
<1>5. ASSUME NEW b
      PROVE  b \in Dispatch(e, now) <=> \E c \in Context : b \in Bind(c, New(c), 1)
  <2>1. b \in Dispatch(e, now)
          <=> \/ /\ \E c \in Context : b \in Bind(c, Old(c), 1)
                 /\ \A c \in Context : b \notin Gone(c, Old(c), New(c))
              \/ \E c \in Context : b \in Come(c, Old(c), New(c))
    BY <1>2
  <2>2. ASSUME NEW c \in Context, b \in Bind(c, New(c), 1) PROVE b \in Dispatch(e, now)
    <3>1. b \in Come(c, Old(c), New(c)) \/ (b \in Bind(c, Old(c), 1) /\ b \notin Gone(c, Old(c), New(c)))
      BY <1>3, <2>2
    <3>2. CASE b \in Bind(c, Old(c), 1) /\ b \notin Gone(c, Old(c), New(c))
      <4>1. \A d \in Context : b \notin Gone(d, Old(d), New(d))
        BY <3>2, <1>4
      <4> QED
        BY <4>1, <3>2, <2>1
    <3> QED
      BY <3>1, <3>2, <2>1
  <2>3. ASSUME b \in Dispatch(e, now) PROVE \E c \in Context : b \in Bind(c, New(c), 1)
    BY <2>1, <2>3, <1>3
  <2> QED
    BY <2>2, <2>3
<1> QED
  BY <1>5 DEF New

\* When the contexts that are to observe do so, types and the invariants of
\* what is read and bound hold again, and nothing is outstanding.
LEMMA RouteStep ==
  ASSUME VarsType, TokensFollow, Listening, NEW now \in SUBSET Context,
         Route(now), UNCHANGED actions
  PROVE  /\ connected' = now
         /\ tokens' \in [Context -> [Element -> Actions \cup {<<>>}]]
         /\ listeners' = [x \in Element |-> listeners'[x]]
         /\ TokensFollow' /\ Listening'
<1>1. /\ connected' = now
      /\ tokens' = [c \in Context |-> Read(c, now)]
      /\ listeners' = [e \in Element |-> Dispatch(e, now)]
  BY DEF Route
<1>2. tokens' \in [Context -> [Element -> Actions \cup {<<>>}]]
  BY <1>1, ReadType
<1>3. listeners' = [x \in Element |-> listeners'[x]]
  BY <1>1
<1>4. TokensFollow'
  <2>1. ASSUME NEW c \in Context, NEW e \in Element
        PROVE  tokens'[c][e] = IF c \in connected' /\ InTree(e, c[1]) THEN actions'[e] ELSE <<>>
    BY <1>1, RouteReads
  <2> QED
    BY <2>1 DEF TokensFollow
<1>5. Listening'
  <2>1. ASSUME NEW e \in Element
        PROVE  listeners'[e] = UNION {Bind(c, tokens'[c][e], 1) : c \in Context}
    <3>1. listeners'[e] = UNION {Bind(c, Read(c, now)[e], 1) : c \in Context}
      BY <1>1, DispatchFollows
    <3>2. \A c \in Context : tokens'[c] = Read(c, now)
      BY <1>1
    <3> QED
      BY <3>1, <3>2
  <2> QED
    BY <2>1 DEF Listening
<1> QED
  BY <1>1, <1>2, <1>3, <1>4, <1>5

\* The contexts that the document names are contexts.
LEMMA WantedType == Wanted \in SUBSET Context
BY DEF Wanted

\* Nothing is bound on the page as it is loaded.
LEMMA InitBindings == Init => IInv
<1> SUFFICES ASSUME Init PROVE IInv
  OBVIOUS
<1> USE DEF Init
<1>1. VarsType
  <2>1. tokens \in [Context -> [Element -> Actions \cup {<<>>}]]
    OBVIOUS
  <2>2. listeners = [e \in Element |-> listeners[e]]
    OBVIOUS
  <2>3. changes \in 0 .. MaxChanges
    BY PageAssumption
  <2> QED
    BY <2>1, <2>2, <2>3, PageAssumption DEF VarsType
<1>2. Settled
  BY DEF Settled
<1>3. TokensFollow
  BY DEF TokensFollow
<1>4. Listening
  <2>1. ASSUME NEW e \in Element PROVE listeners[e] = UNION {Bind(c, tokens[c][e], 1) : c \in Context}
    <3>1. listeners[e] = {}
      OBVIOUS
    <3>2. \A c \in Context : Bind(c, tokens[c][e], 1) = {}
      BY NothingBound
    <3> QED
      BY <3>1, <3>2
  <2> QED
    BY <2>1 DEF Listening
<1> QED
  BY <1>1, <1>2, <1>3, <1>4 DEF IInv

\* Every step keeps the invariant.
LEMMA NextBindings == IInv /\ [Next]_vars => IInv'
<1> SUFFICES ASSUME IInv, [Next]_vars PROVE IInv'
  OBVIOUS
<1> USE DEF IInv
<1>1. ASSUME Start PROVE IInv'
  <2>1. /\ ~started /\ started' = TRUE /\ Route(Wanted)
        /\ UNCHANGED <<controllers, actions, renamed, rebound, changes>>
    BY <1>1 DEF Start
  <2>2. /\ connected' = Wanted
        /\ tokens' \in [Context -> [Element -> Actions \cup {<<>>}]]
        /\ listeners' = [x \in Element |-> listeners'[x]]
        /\ TokensFollow' /\ Listening'
    BY <2>1, RouteStep, WantedType
  <2>3. VarsType'
    BY <2>1, <2>2, WantedType DEF VarsType
  <2>4. Settled'
    BY <2>1, <2>2 DEF Settled, Wanted
  <2> QED
    BY <2>2, <2>3, <2>4
<1>2. ASSUME Deliver PROVE IInv'
  <2> DEFINE now == IF renamed THEN Wanted ELSE connected
  <2>1. /\ Route(now) /\ renamed' = FALSE /\ rebound' = {}
        /\ UNCHANGED <<controllers, actions, started, changes>>
    BY <1>2 DEF Deliver
  <2>2. now \in SUBSET Context
    BY WantedType DEF VarsType
  <2> HIDE DEF now
  <2>3. /\ connected' = now
        /\ tokens' \in [Context -> [Element -> Actions \cup {<<>>}]]
        /\ listeners' = [x \in Element |-> listeners'[x]]
        /\ TokensFollow' /\ Listening'
    BY <2>1, <2>2, RouteStep
  <2>4. VarsType'
    BY <2>1, <2>2, <2>3 DEF VarsType
  <2>5. Settled'
    <3>1. Wanted' = Wanted
      BY <2>1 DEF Wanted
    <3>2. ~started => connected = {} /\ ~renamed
      BY DEF Settled
    <3> QED
      BY <3>1, <3>2, <2>1, <2>3 DEF Settled, now
  <2> QED
    BY <2>3, <2>4, <2>5
<1>3. ASSUME NEW e \in Element, NEW value \in Controllers, SetController(e, value) PROVE IInv'
  <2>1. /\ changes < MaxChanges /\ changes' = changes + 1
        /\ controllers' = [controllers EXCEPT ![e] = value] /\ renamed' = started
        /\ UNCHANGED <<actions, started, rebound, connected, tokens, listeners>>
    BY <1>3 DEF SetController, MayChange
  <2>2. VarsType'
    BY <2>1, PageAssumption DEF VarsType
  <2>3. Settled'
    BY <2>1 DEF Settled
  <2>4. TokensFollow' /\ Listening'
    BY <2>1 DEF TokensFollow, Listening
  <2> QED
    BY <2>2, <2>3, <2>4
<1>4. ASSUME NEW e \in Element, NEW value \in Actions, SetAction(e, value) PROVE IInv'
  <2>1. /\ changes < MaxChanges /\ changes' = changes + 1
        /\ actions' = [actions EXCEPT ![e] = value]
        /\ rebound' = IF \E c \in connected : InTree(e, c[1]) THEN rebound \cup {e} ELSE rebound
        /\ UNCHANGED <<controllers, started, renamed, connected, tokens, listeners>>
    BY <1>4 DEF SetAction, MayChange
  <2>2. VarsType'
    BY <2>1, PageAssumption DEF VarsType
  <2>3. Settled'
    BY <2>1 DEF Settled, Wanted
  <2>4. TokensFollow'
    <3>1. ASSUME NEW c \in Context, NEW x \in Element, c \in connected, InTree(x, c[1]), x \notin rebound'
          PROVE  tokens[c][x] = actions'[x]
      <4>1. x # e /\ x \notin rebound
        BY <3>1, <2>1
      <4>2. actions'[x] = actions[x]
        BY <4>1, <2>1 DEF VarsType
      <4> QED
        BY <4>1, <4>2, <3>1 DEF TokensFollow
    <3> QED
      BY <3>1, <2>1 DEF TokensFollow
  <2>5. Listening'
    BY <2>1 DEF Listening
  <2> QED
    BY <2>2, <2>3, <2>4, <2>5
<1>5. ASSUME UNCHANGED vars PROVE IInv'
  <2>1. VarsType'
    BY <1>5 DEF vars, VarsType
  <2>2. Settled'
    BY <1>5 DEF vars, Settled, Wanted
  <2>3. TokensFollow' /\ Listening'
    BY <1>5 DEF vars, TokensFollow, Listening
  <2> QED
    BY <2>1, <2>2, <2>3
<1> QED
  BY <1>1, <1>2, <1>3, <1>4, <1>5 DEF Next

\* The invariant gives TypeOK: a binding lies in the tree of its controller.
LEMMA TypesFromInvariant == IInv => TypeOK
<1> SUFFICES ASSUME IInv PROVE TypeOK
  OBVIOUS
<1> USE DEF IInv
<1>1. ASSUME NEW e \in Element, NEW b \in listeners[e]
      PROVE  b \in Binding /\ InTree(e, b.context[1])
  <2>1. PICK c \in Context : b \in Bind(c, tokens[c][e], 1)
    BY DEF Listening
  <2>2. PICK n \in 1 .. Len(tokens[c][e]) : b = [context |-> c, index |-> n]
    BY <2>1 DEF Bind
  <2>3. tokens[c][e] \in Seq(Identifier)
    BY ListOfIdentifiers DEF VarsType
  <2>4. n \in Nat \ {0}
    BY <2>2, <2>3
  <2>5. tokens[c][e] # <<>>
    BY <2>1, NothingBound
  <2>6. InTree(e, c[1])
    BY <2>5 DEF TokensFollow
  <2> QED
    BY <2>2, <2>4, <2>6 DEF Binding
<1> QED
  BY <1>1 DEF VarsType, TypeOK

\* With nothing outstanding the invariant says what the bindings are.
LEMMA FollowFromInvariant == IInv => BindingsFollow
<1> SUFFICES ASSUME IInv, Quiet, NEW e \in Element
             PROVE  listeners[e] = UNION {Bind(c, actions[e], 1) : c \in {d \in Wanted : InTree(e, d[1])}}
  BY DEF BindingsFollow
<1> USE DEF IInv
<1>1. connected = Wanted /\ e \notin rebound
  BY DEF Quiet, Settled
<1>2. listeners[e] = UNION {Bind(c, tokens[c][e], 1) : c \in Context}
  BY DEF Listening
<1>3. ASSUME NEW c \in Context
      PROVE  Bind(c, tokens[c][e], 1) =
               IF c \in Wanted /\ InTree(e, c[1]) THEN Bind(c, actions[e], 1) ELSE {}
  BY <1>1, NothingBound DEF TokensFollow
<1> QED
  BY <1>2, <1>3, WantedType

\* With nothing outstanding a listener calls each action of its element that the
\* nearest controller of its name around the target encloses, on that controller.
LEMMA HandlesNearest ==
  ASSUME IInv, Quiet, NEW target \in Element, NEW e \in Ancestors[target]
  PROVE  HandleEvent(e, target) =
           {[context |-> <<Closest(target, actions[e][n]), actions[e][n]>>, element |-> e, index |-> n] :
              n \in {m \in 1 .. Len(actions[e]) : Closest(target, actions[e][m]) \in Ancestors[e]}}
<1> DEFINE enclosed == {m \in 1 .. Len(actions[e]) : Closest(target, actions[e][m]) \in Ancestors[e]}
           Nearest(n) == [context |-> <<Closest(target, actions[e][n]), actions[e][n]>>,
                          element |-> e, index |-> n]
           Of(b) == [context |-> b.context, element |-> e, index |-> b.index]
<1>1. e \in Element
  BY AncestorsBefore
<1>2. listeners[e] = UNION {Bind(c, actions[e], 1) : c \in {d \in Wanted : InTree(e, d[1])}}
  BY <1>1, FollowFromInvariant DEF BindingsFollow
<1>3. actions[e] \in Seq(Identifier)
  BY <1>1, PageAssumption DEF IInv, VarsType
<1>4. ASSUME NEW b \in listeners[e], WillBeInvoked(b.context, target)
      PROVE  b.index \in enclosed /\ Of(b) = Nearest(b.index)
  <2>1. PICK c \in Wanted : InTree(e, c[1]) /\ b \in Bind(c, actions[e], 1)
    BY <1>2
  <2>2. PICK n \in 1 .. Len(actions[e]) : actions[e][n] = c[2] /\ b = [context |-> c, index |-> n]
    BY <2>1 DEF Bind
  <2>3. c \in Element \X Identifier /\ c[2] \in controllers[c[1]]
    BY <2>1 DEF Wanted, Context
  <2>4. Closest(target, c[2]) = c[1]
    <3>1. c[1] = target \/ Closest(target, c[2]) = c[1]
      BY <1>4, <2>2 DEF WillBeInvoked
    <3> QED
      BY <3>1, <2>3, ClosestIsSelf
  <2>5. c = <<c[1], c[2]>>
    BY <2>3
  <2> QED
    BY <2>1, <2>2, <2>4, <2>5 DEF InTree
<1>5. ASSUME NEW n \in enclosed
      PROVE  \E b \in listeners[e] : WillBeInvoked(b.context, target) /\ Of(b) = Nearest(n)
  <2> DEFINE i == actions[e][n]
             a == Closest(target, i)
             b == [context |-> <<a, i>>, index |-> n]
  <2>1. n \in 1 .. Len(actions[e]) /\ n >= 1 /\ a \in Ancestors[e] /\ i \in Identifier
    BY <1>3, <1>5
  <2>2. a \in Element /\ a # 0
    BY <1>1, <2>1, AncestorsBefore, TreeAssumption
  <2>3. i \in controllers[a]
    BY <2>2, ClosestNames
  <2>4. <<a, i>> \in Wanted /\ InTree(e, <<a, i>>[1])
    BY <2>1, <2>2, <2>3 DEF Wanted, Context, InTree
  <2>5. b \in Bind(<<a, i>>, actions[e], 1)
    BY <2>1 DEF Bind
  <2>6. b \in listeners[e]
    <3> HIDE DEF b, a, i
    <3> QED
      BY <1>2, <2>4, <2>5
  <2>7. WillBeInvoked(b.context, target) /\ Of(b) = Nearest(n)
    BY DEF WillBeInvoked
  <2> QED
    BY <2>6, <2>7
<1>6. HandleEvent(e, target) = {Of(b) : b \in {l \in listeners[e] : WillBeInvoked(l.context, target)}}
  BY DEF HandleEvent
<1> HIDE DEF Of, Nearest, enclosed
<1>7. HandleEvent(e, target) = {Nearest(n) : n \in enclosed}
  BY <1>4, <1>5, <1>6
<1> QED
  BY <1>7 DEF Nearest, enclosed

\* Then a click calls what the reader of the page expects.
LEMMA ClicksFromInvariant == IInv => ClickReaches
<1> SUFFICES ASSUME IInv, Quiet, NEW target \in Element
             PROVE  Click(target) = Expected(target)
  BY DEF ClickReaches
<1> DEFINE Nearest(e, n) == [context |-> <<Closest(target, actions[e][n]), actions[e][n]>>,
                             element |-> e, index |-> n]
           enclosed(e) == {n \in 1 .. Len(actions[e]) : Closest(target, actions[e][n]) \in Ancestors[e]}
           calls == UNION {{Nearest(e, n) : n \in enclosed(e)} : e \in Ancestors[target]}
<1>1. \A e \in Ancestors[target] : HandleEvent(e, target) = {Nearest(e, n) : n \in enclosed(e)}
  BY HandlesNearest
<1>2. Click(target) = UntilStopped(calls)
  <2>1. Click(target) = UntilStopped(UNION {HandleEvent(e, target) : e \in Ancestors[target]})
    BY DEF Click, Quiet
  <2>2. UNION {HandleEvent(e, target) : e \in Ancestors[target]} = calls
    <3> HIDE DEF Nearest, enclosed
    <3> QED
      BY <1>1
  <2> QED
    BY <2>1, <2>2
<1>3. Expected(target) = {y \in calls : \A x \in calls : x.context[2] \in Stopping =>
            \/ x.element \in Ancestors[y.element] \ {y.element}
            \/ x.element = y.element /\ x.index >= y.index}
  BY DEF Expected
<1>4. ASSUME NEW x \in calls PROVE x.element \in Ancestors[target] /\ x.index \in Int
  <2>1. PICK e \in Ancestors[target] : \E n \in enclosed(e) : x = Nearest(e, n)
    BY <1>4
  <2> QED
    BY <2>1
<1> HIDE DEF calls
<1>5. ASSUME NEW x \in calls, NEW y \in calls
      PROVE  ~Before(x, y) <=> \/ x.element \in Ancestors[y.element] \ {y.element}
                               \/ x.element = y.element /\ x.index >= y.index
  <2>1. x.element < y.element <=> x.element \in Ancestors[y.element] \ {y.element}
    BY <1>4, AncestorsNested
  <2>2. x.element \in Nat /\ y.element \in Nat /\ x.index \in Int /\ y.index \in Int
    BY <1>4, AncestorsBefore, TreeAssumption
  <2> QED
    BY <2>1, <2>2 DEF Before
<1> QED
  BY <1>2, <1>3, <1>5 DEF UntilStopped

\* The invariant holds in every state.
LEMMA BindingsInvariant == Spec => []IInv
BY InitBindings, NextBindings, PTL DEF Spec

\* The variables of Bindings keep their types, and a binding lies in the tree of
\* its controller's element.
THEOREM BindingsTypeCorrect == Spec => []TypeOK
BY BindingsInvariant, TypesFromInvariant, PTL

\* However many attributes change, in whatever batches their records come: when
\* none is outstanding the dispatcher has the bindings that the attributes name.
THEOREM BindingsAreThoseNamed == Spec => []BindingsFollow
BY BindingsInvariant, FollowFromInvariant, PTL

\* Whatever the attributes have become, a click calls each action around the target
\* once, on the nearest controller of its name, and none after one that stops the
\* event.
THEOREM ClicksReach == Spec => []ClickReaches
BY BindingsInvariant, ClicksFromInvariant, PTL
=============================================================================
