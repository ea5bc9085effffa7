--------------------------- MODULE StimulusProofs ---------------------------
(***************************************************************************)
(* The controllers of Stimulus, for any page and any changes: they are     *)
(* those that the document names once no record is outstanding, none is    *)
(* connected or disconnected twice in a row, and on load each finds those  *)
(* that it looks up.                                                       *)
(***************************************************************************)
EXTENDS Stimulus, FiniteSetTheorems, WellFoundedInduction, TLAPS

-----------------------------------------------------------------------------
(* The tree. *)

\* A set of natural numbers that is not empty has a least element.
LEMMA Least ==
  ASSUME NEW T \in SUBSET Nat, T # {}
  PROVE  \E n \in T : \A m \in T : n <= m
<1>1. PICK n \in T : \A m \in T : <<m, n>> \notin OpToRel(<, Nat)
  BY NatLessThanWellFounded, WFMin
<1>2. \A m \in T : ~(m < n)
  BY <1>1, Zenon DEF OpToRel
<1> QED
  BY <1>2

\* The ancestors of an element are itself and those of its parent: the sets
\* that contain the element and every parent of what they contain meet in them.
LEMMA AncestorsDef ==
  ASSUME NEW tree
  PROVE  AncestorsIn(tree) = [e \in Element |->
           {e} \cup (IF tree[e] \in Element THEN AncestorsIn(tree)[tree[e]] ELSE {})]
<1> DEFINE Closed(S) == \A x \in S : tree[x] \in Element => tree[x] \in S
           f == [e \in Element |->
                   {a \in Element : \A S \in SUBSET Element : e \in S /\ Closed(S) => a \in S}]
           Body(g, e) == {e} \cup (IF tree[e] \in Element THEN g[tree[e]] ELSE {})
<1>1. ASSUME NEW e \in Element PROVE e \in f[e] /\ Closed(f[e])
  <2>1. e \in f[e]
    OBVIOUS
  <2>2. ASSUME NEW x \in f[e], tree[x] \in Element PROVE tree[x] \in f[e]
    <3>1. x \in Element /\ tree[x] \in Element
      BY <2>2, TreeAssumption
    <3>2. ASSUME NEW S \in SUBSET Element, e \in S, Closed(S) PROVE tree[x] \in S
      <4>1. x \in S
        BY <3>2
      <4> QED
        BY <4>1, <3>2, <2>2
    <3> QED
      BY <3>1, <3>2
  <2> QED
    BY <2>1, <2>2
<1>2. ASSUME NEW e \in Element PROVE f[e] \subseteq Body(f, e)
  <2>1. Body(f, e) \subseteq Element
    BY TreeAssumption
  <2>2. Closed(Body(f, e))
    <3>1. ASSUME NEW x \in Body(f, e), tree[x] \in Element PROVE tree[x] \in Body(f, e)
      <4>1. CASE x = e
        <5>1. tree[e] \in Element
          BY <3>1, <4>1, TreeAssumption
        <5>2. tree[e] \in f[tree[e]]
          BY <5>1, <1>1
        <5> QED
          BY <5>2, <3>1, <4>1
      <4>2. CASE tree[e] \in Element /\ x \in f[tree[e]]
        <5>1. tree[e] \in Element
          BY <4>2, TreeAssumption
        <5>2. Closed(f[tree[e]])
          BY <5>1, <1>1
        <5>3. tree[x] \in f[tree[e]]
          <6> HIDE DEF f
          <6> QED
            BY <5>2, <4>2, <3>1
        <5> QED
          BY <5>3, <4>2
      <4> QED
        BY <3>1, <4>1, <4>2
    <3> QED
      BY <3>1
  <2>3. e \in Body(f, e)
    OBVIOUS
  <2> QED
    <3> HIDE DEF Body
    <3> QED
      BY <2>1, <2>2, <2>3
<1>3. ASSUME NEW e \in Element PROVE Body(f, e) \subseteq f[e]
  <2>1. CASE tree[e] \notin Element
    BY <2>1, <1>1
  <2>2. CASE tree[e] \in Element
    <3>1. tree[e] \in Element
      BY <2>2, TreeAssumption
    <3>2. ASSUME NEW a \in f[tree[e]] PROVE a \in f[e]
      <4>1. a \in Element
        BY <3>1, <3>2
      <4>2. ASSUME NEW S \in SUBSET Element, e \in S, Closed(S) PROVE a \in S
        <5>1. tree[e] \in S
          BY <4>2, <2>2
        <5> QED
          BY <5>1, <4>2, <3>1, <3>2
      <4> QED
        BY <4>1, <4>2
    <3> QED
      BY <3>2, <2>2, <1>1
  <2> QED
    BY <2>1, <2>2
<1>4. f = [e \in Element |-> Body(f, e)]
  <2>1. ASSUME NEW e \in Element PROVE f[e] = Body(f, e)
    <3> HIDE DEF Body, f
    <3> QED
      BY <1>2, <1>3
  <2>2. f = [e \in Element |-> f[e]]
    OBVIOUS
  <2> HIDE DEF Body, f
  <2> QED
    BY <2>1, <2>2
<1>5. \E g : g = [e \in Element |-> Body(g, e)]
  <2> HIDE DEF Body, f
  <2> QED
    BY <1>4
<1> QED
  BY <1>5 DEF AncestorsIn

\* What holds of an element whenever it holds of its parent holds of all.
LEMMA FromRoot ==
  ASSUME NEW tree, IsTree(tree), NEW S,
         \A e \in Element : (tree[e] \in Element => tree[e] \in S) => e \in S
  PROVE  \A e \in Element : e \in S
<1> DEFINE T == Element \ S
<1> SUFFICES ASSUME T # {} PROVE FALSE
  OBVIOUS
<1>1. T \in SUBSET Nat
  BY TreeAssumption
<1>2. PICK e \in T : \A m \in T : e <= m
  <2> HIDE DEF T
  <2> QED
    BY <1>1, Least
<1>3. tree[e] \in Element /\ tree[e] < e /\ tree[e] \in T
  BY <1>2 DEF IsTree
<1>4. e \in Nat /\ tree[e] \in Nat
  BY <1>1, <1>2, <1>3
<1> QED
  BY <1>2, <1>3, <1>4

\* An element is in the document of a tree.
InDoc(tree, e) == \E a \in AncestorsIn(tree)[e] : tree[a] = Root

\* One step from an element to its parent.
LEMMA TreeStep ==
  ASSUME NEW tree, IsTree(tree), NEW e \in Element
  PROVE  /\ AncestorsIn(tree)[e] =
              {e} \cup (IF tree[e] \in Element THEN AncestorsIn(tree)[tree[e]] ELSE {})
         /\ InDoc(tree, e) <=> tree[e] = Root \/ (tree[e] \in Element /\ InDoc(tree, tree[e]))
<1>1. AncestorsIn(tree)[e] =
        {e} \cup (IF tree[e] \in Element THEN AncestorsIn(tree)[tree[e]] ELSE {})
  BY AncestorsDef
<1>2. Root \notin Element
  BY TreeAssumption
<1> QED
  BY <1>1, <1>2 DEF InDoc

\* An element is its own ancestor, and the others come before it.
LEMMA AncestorsBefore ==
  ASSUME NEW tree, IsTree(tree), NEW e \in Element
  PROVE  /\ e \in AncestorsIn(tree)[e]
         /\ \A a \in AncestorsIn(tree)[e] : a \in Element /\ a <= e
<1> DEFINE Anc(x) == AncestorsIn(tree)[x]
           S == {x \in Element : \A a \in Anc(x) : a \in Element /\ a <= x}
<1>1. ASSUME NEW x \in Element, tree[x] \in Element => tree[x] \in S PROVE x \in S
  <2>1. Anc(x) = {x} \cup (IF tree[x] \in Element THEN Anc(tree[x]) ELSE {})
    BY TreeStep
  <2>2. ASSUME NEW a \in Anc(x) PROVE a \in Element /\ a <= x
    <3>1. CASE a = x
      BY <3>1, TreeAssumption
    <3>2. CASE a # x
      <4>1. tree[x] \in Element /\ a \in Anc(tree[x])
        BY <2>1, <3>2
      <4>2. a \in Element /\ a <= tree[x] /\ tree[x] < x
        BY <4>1, <1>1 DEF IsTree
      <4>3. a \in Nat /\ tree[x] \in Nat /\ x \in Nat
        BY <4>1, <4>2, TreeAssumption
      <4> QED
        BY <4>2, <4>3
    <3> QED
      BY <3>1, <3>2
  <2> QED
    BY <2>2
<1>2. \A x \in Element : x \in S
  <2> HIDE DEF S
  <2> QED
    BY <1>1, FromRoot
<1>3. e \in Anc(e)
  BY TreeStep
<1> QED
  BY <1>2, <1>3

\* What encloses an element has its ancestors among those of the element, and is
\* in the document when that is.
LEMMA AncestorsOf ==
  ASSUME NEW tree, IsTree(tree), NEW e \in Element, NEW a \in AncestorsIn(tree)[e]
  PROVE  /\ AncestorsIn(tree)[a] \subseteq AncestorsIn(tree)[e]
         /\ InDoc(tree, a) <=> InDoc(tree, e)
<1> DEFINE Anc(x) == AncestorsIn(tree)[x]
           P(x) == \A b \in Anc(x) : Anc(b) \subseteq Anc(x) /\ (InDoc(tree, b) <=> InDoc(tree, x))
           S == {x \in Element : P(x)}
<1>1. ASSUME NEW x \in Element, tree[x] \in Element => tree[x] \in S PROVE x \in S
  <2>1. Anc(x) = {x} \cup (IF tree[x] \in Element THEN Anc(tree[x]) ELSE {})
    BY TreeStep
  <2>2. tree[x] \in Element => (InDoc(tree, x) <=> InDoc(tree, tree[x]))
    BY TreeStep, TreeAssumption
  <2>3. ASSUME NEW b \in Anc(x)
        PROVE  Anc(b) \subseteq Anc(x) /\ (InDoc(tree, b) <=> InDoc(tree, x))
    <3>1. CASE b = x
      BY <3>1
    <3>2. CASE b # x
      <4>1. tree[x] \in Element /\ b \in Anc(tree[x])
        BY <2>1, <3>2
      <4>2. Anc(b) \subseteq Anc(tree[x]) /\ (InDoc(tree, b) <=> InDoc(tree, tree[x]))
        BY <4>1, <1>1
      <4> HIDE DEF Anc
      <4> QED
        BY <4>1, <4>2, <2>1, <2>2
    <3> QED
      BY <3>1, <3>2
  <2> QED
    BY <2>3
<1>2. \A x \in Element : x \in S
  <2> HIDE DEF S
  <2> QED
    BY <1>1, FromRoot
<1> QED
  BY <1>2

\* A node that is removed takes what it encloses out of the document, with the
\* ancestors up to itself; all else stays.
LEMMA NodeRemoved ==
  ASSUME NEW tree, IsTree(tree), NEW r \in Element, NEW e \in Element,
         NEW now, IsTree(now), now[r] = Detached, \A x \in Element \ {r} : now[x] = tree[x]
  PROVE  /\ r \notin AncestorsIn(tree)[e] =>
               /\ AncestorsIn(now)[e] = AncestorsIn(tree)[e]
               /\ InDoc(now, e) <=> InDoc(tree, e)
         /\ r \in AncestorsIn(tree)[e] =>
               /\ r \in AncestorsIn(now)[e]
               /\ AncestorsIn(tree)[e] = AncestorsIn(now)[e] \cup
                    (IF tree[r] \in Element THEN AncestorsIn(tree)[tree[r]] ELSE {})
               /\ ~InDoc(now, e)
<1> DEFINE Old(x) == AncestorsIn(tree)[x]
           New(x) == AncestorsIn(now)[x]
           Above == IF tree[r] \in Element THEN Old(tree[r]) ELSE {}
           P(x) == /\ r \notin Old(x) => New(x) = Old(x) /\ (InDoc(now, x) <=> InDoc(tree, x))
                   /\ r \in Old(x) => /\ r \in New(x) /\ Old(x) = New(x) \cup Above
                                      /\ ~InDoc(now, x)
           S == {x \in Element : P(x)}
<1>1. Detached \notin Element /\ Root \notin Element /\ Root # Detached
  BY TreeAssumption DEF Root, Detached
<1>2. ASSUME NEW x \in Element, tree[x] \in Element => tree[x] \in S PROVE x \in S
  <2>1. /\ Old(x) = {x} \cup (IF tree[x] \in Element THEN Old(tree[x]) ELSE {})
        /\ New(x) = {x} \cup (IF now[x] \in Element THEN New(now[x]) ELSE {})
        /\ InDoc(tree, x) <=> tree[x] = Root \/ (tree[x] \in Element /\ InDoc(tree, tree[x]))
        /\ InDoc(now, x) <=> now[x] = Root \/ (now[x] \in Element /\ InDoc(now, now[x]))
    BY TreeStep
  <2>2. CASE x = r
    <3>1. New(x) = {x} /\ ~InDoc(now, x)
      BY <2>1, <2>2, <1>1
    <3> HIDE DEF Old, New
    <3> QED
      BY <3>1, <2>1, <2>2
  <2>3. CASE x # r /\ tree[x] \in Element
    <3>1. now[x] = tree[x] /\ tree[x] # Root
      BY <2>3, <1>1
    <3>2. P(tree[x])
      BY <2>3, <1>2
    <3>3. /\ Old(x) = {x} \cup Old(tree[x]) /\ New(x) = {x} \cup New(tree[x])
          /\ InDoc(tree, x) <=> InDoc(tree, tree[x])
          /\ InDoc(now, x) <=> InDoc(now, tree[x])
      BY <2>1, <2>3, <3>1
    <3> HIDE DEF Old, New, Above
    <3> QED
      BY <3>2, <3>3, <2>3
  <2>4. CASE x # r /\ tree[x] \notin Element
    <3>1. /\ Old(x) = {x} /\ New(x) = {x}
          /\ InDoc(tree, x) <=> InDoc(now, x)
      BY <2>1, <2>4
    <3> HIDE DEF Old, New, Above
    <3> QED
      BY <3>1, <2>4
  <2> QED
    BY <2>2, <2>3, <2>4
<1>3. \A x \in Element : x \in S
  <2> HIDE DEF S
  <2> QED
    BY <1>2, FromRoot
<1>4. P(e)
  BY <1>3
<1> QED
  BY <1>4

\* A node that is inserted takes what it encloses to where it is put; all else
\* stays.
LEMMA NodeInserted ==
  ASSUME NEW tree, IsTree(tree), NEW x \in Element, tree[x] = Detached,
         NEW node \in Element \cup {Root}, node < x, NEW e \in Element,
         NEW now, IsTree(now), now[x] = node, \A d \in Element \ {x} : now[d] = tree[d]
  PROVE  /\ AncestorsIn(tree)[e] \subseteq AncestorsIn(now)[e]
         /\ InDoc(tree, e) => /\ AncestorsIn(now)[e] = AncestorsIn(tree)[e]
                              /\ InDoc(now, e)
         /\ InDoc(now, e) /\ ~InDoc(tree, e) =>
               x \in AncestorsIn(now)[e] /\ (node = Root \/ InDoc(tree, node))
<1>1. ASSUME NEW d \in Element
      PROVE  /\ x \notin AncestorsIn(now)[d] =>
                   /\ AncestorsIn(tree)[d] = AncestorsIn(now)[d]
                   /\ InDoc(tree, d) <=> InDoc(now, d)
             /\ x \in AncestorsIn(now)[d] =>
                   /\ AncestorsIn(tree)[d] \subseteq AncestorsIn(now)[d]
                   /\ ~InDoc(tree, d)
  BY NodeRemoved
<1>2. ASSUME InDoc(now, e), ~InDoc(tree, e)
      PROVE  x \in AncestorsIn(now)[e] /\ (node = Root \/ InDoc(tree, node))
  <2>1. x \in AncestorsIn(now)[e]
    BY <1>1, <1>2
  <2>2. InDoc(now, x)
    BY <2>1, <1>2, AncestorsOf
  <2>3. node = Root \/ (node \in Element /\ InDoc(now, node))
    BY <2>2, TreeStep
  <2>4. node \in Element => x \notin AncestorsIn(now)[node]
    <3>1. x \in Nat /\ (node \in Element => node \in Nat)
      BY TreeAssumption
    <3> QED
      BY <3>1, AncestorsBefore
  <2> QED
    BY <2>1, <2>3, <2>4, <1>1
<1> QED
  BY <1>1, <1>2

-----------------------------------------------------------------------------
(* Lists of tokens. *)

\* Two lists have a first place where they differ, and equal beginnings before.
LEMMA FirstDiffers ==
  ASSUME NEW old \in Seq(Identifier), NEW new \in Seq(Identifier)
  PROVE  LET n == FirstDiffering(old, new)
         IN  /\ n \in 1 .. Len(old) + 1 /\ n <= Len(new) + 1
             /\ \A m \in 1 .. n - 1 : old[m] = new[m]
<1> DEFINE First(n) == /\ n <= Len(new) + 1 /\ \A m \in 1 .. n - 1 : old[m] = new[m]
                       /\ n <= Len(old) /\ n <= Len(new) => old[n] # new[n]
           D == {n \in Nat \ {0} : n > Len(old) \/ n > Len(new) \/ old[n] # new[n]}
<1>1. Len(old) \in Nat /\ Len(new) \in Nat
  OBVIOUS
<1>2. D \in SUBSET Nat /\ Len(old) + 1 \in D /\ Len(new) + 1 \in D
  BY <1>1
<1>3. PICK n \in D : \A m \in D : n <= m
  <2> HIDE DEF D
  <2> QED
    BY <1>2, Least
<1>4. n \in 1 .. Len(old) + 1 /\ n <= Len(new) + 1 /\ n \in Nat
  BY <1>1, <1>2, <1>3
<1>5. \A m \in 1 .. n - 1 : old[m] = new[m]
  <2>1. ASSUME NEW m \in 1 .. n - 1 PROVE old[m] = new[m]
    <3>1. m \in Nat \ {0} /\ m \notin D
      BY <1>3, <1>4
    <3> QED
      BY <3>1
  <2> QED
    BY <2>1
<1>6. First(n)
  BY <1>3, <1>4, <1>5
<1>7. FirstDiffering(old, new) = CHOOSE k \in 1 .. Len(old) + 1 : First(k)
  BY DEF FirstDiffering
<1>8. FirstDiffering(old, new) \in 1 .. Len(old) + 1 /\ First(FirstDiffering(old, new))
  <2> HIDE DEF First
  <2> QED
    BY <1>4, <1>6, <1>7
<1> QED
  BY <1>8

\* Equal beginnings name a scope equally often, so that what is left of its
\* references is what the beginning names.
LEMMA TimesSplit ==
  ASSUME NEW old \in Seq(Identifier), NEW new \in Seq(Identifier), NEW i
  PROVE  LET n == FirstDiffering(old, new) IN
         \E k \in Nat : /\ Times(i, old, n) \in Nat /\ Times(i, new, n) \in Nat
                        /\ Times(i, old, 1) = k + Times(i, old, n)
                        /\ Times(i, new, 1) = k + Times(i, new, n)
<1> DEFINE n == FirstDiffering(old, new)
           Front(list) == {m \in 1 .. n - 1 : list[m] = i}
<1>1. n \in 1 .. Len(old) + 1 /\ n <= Len(new) + 1 /\ \A m \in 1 .. n - 1 : old[m] = new[m]
  BY FirstDiffers
<1>2. Len(old) \in Nat /\ Len(new) \in Nat /\ n \in Nat /\ n >= 1
  BY <1>1
<1> HIDE DEF n
<1>3. ASSUME NEW list \in Seq(Identifier), n <= Len(list) + 1
      PROVE  /\ Times(i, list, n) \in Nat /\ Cardinality(Front(list)) \in Nat
             /\ Times(i, list, 1) = Cardinality(Front(list)) + Times(i, list, n)
  <2> DEFINE Rest == {m \in n .. Len(list) : list[m] = i}
             All == {m \in 1 .. Len(list) : list[m] = i}
  <2>1. Len(list) \in Nat
    OBVIOUS
  <2>2. IsFiniteSet(1 .. Len(list))
    BY <2>1, FS_Interval
  <2>3. Front(list) \subseteq 1 .. Len(list) /\ Rest \subseteq 1 .. Len(list)
    BY <2>1, <1>2, <1>3
  <2>4. IsFiniteSet(Front(list)) /\ IsFiniteSet(Rest)
    BY <2>2, <2>3, FS_Subset
  <2>5. Front(list) \cup Rest = All /\ Front(list) \cap Rest = {}
    BY <2>1, <1>2, <1>3
  <2>6. Times(i, list, n) = Cardinality(Rest) /\ Times(i, list, 1) = Cardinality(All)
    BY DEF Times
  <2> HIDE DEF Front, Rest, All
  <2>7. /\ Cardinality(Front(list)) \in Nat /\ Cardinality(Rest) \in Nat
        /\ Cardinality(Front(list) \cap Rest) = 0
    BY <2>4, <2>5, FS_CardinalityType, FS_EmptySet
  <2>8. Cardinality(All) = Cardinality(Front(list)) + Cardinality(Rest) - 0
    BY <2>4, <2>5, <2>7, FS_Union
  <2> QED
    BY <2>6, <2>7, <2>8
<1>4. Front(old) = Front(new)
  BY <1>1
<1>5. n <= Len(old) + 1
  BY <1>1, <1>2
<1> DEFINE k == Cardinality(Front(old))
<1>6. /\ k \in Nat
      /\ Times(i, old, n) \in Nat /\ Times(i, old, 1) = k + Times(i, old, n)
  BY <1>3, <1>5
<1>7. Times(i, new, n) \in Nat /\ Times(i, new, 1) = k + Times(i, new, n)
  <2> HIDE DEF Front
  <2> QED
    BY <1>1, <1>3, <1>4
<1> HIDE DEF k
<1> QED
  BY <1>6, <1>7 DEF n

\* A list names an identifier as soon as one of its tokens is that.
LEMMA TimesPositive ==
  ASSUME NEW list \in Seq(Identifier), NEW i
  PROVE  Times(i, list, 1) \in Nat /\ (Times(i, list, 1) > 0 <=> \E n \in 1 .. Len(list) : list[n] = i)
<1> DEFINE All == {m \in 1 .. Len(list) : list[m] = i}
<1>1. Len(list) \in Nat
  OBVIOUS
<1>2. IsFiniteSet(All)
  <2>1. IsFiniteSet(1 .. Len(list)) /\ All \subseteq 1 .. Len(list)
    BY <1>1, FS_Interval
  <2> HIDE DEF All
  <2> QED
    BY <2>1, FS_Subset
<1>3. Times(i, list, 1) = Cardinality(All)
  BY DEF Times
<1>4. Cardinality(All) \in Nat /\ (Cardinality(All) = 0 <=> All = {})
  <2> HIDE DEF All
  <2> QED
    BY <1>2, FS_CardinalityType, FS_EmptySet
<1>5. All # {} <=> \E n \in 1 .. Len(list) : list[n] = i
  OBVIOUS
<1> HIDE DEF All
<1> QED
  BY <1>3, <1>4, <1>5

-----------------------------------------------------------------------------
(* The inductive invariant. *)

\* Each table has what the one below it has told: a scope as many references as
\* tokens name it, a context connected as its scope and module are there.
Counted ==
    /\ \A c \in Scope : references[c] = Times(c[2], tokens[c[1]], 1)
    /\ scopes = {c \in Scope : references[c] > 0}
    /\ connected = {c \in scopes : c[2] \in modules}
    /\ connected \subseteq contexts
    /\ CallsAlternate

\* The records that are still to be handled, in that order.
pending == IF batch = <<>> THEN records ELSE batch
Rec(t, e) == [type |-> t, element |-> e]
Outstanding(t, e) == \E n \in 1 .. Len(pending) : pending[n] = Rec(t, e)

\* Records are handed over when those before have been handled, who has been
\* removed is observed until then, and before the start nothing is there.
Handing ==
    /\ batch # <<>> => records = <<>>
    /\ \A e \in Element, n \in 1 .. Len(records) : records[n] = Rec("removed", e) => e \in transient
    /\ phase # "started" => elements = {} /\ records = <<>> /\ batch = <<>>

\* What has been read in an element is what it names, or a record will have it
\* read again.
TokensRead == \A e \in Element :
    IF e \in elements
    THEN (e \in Matching /\ tokens[e] = Names(value[e])) \/ Outstanding("attributes", e)
    ELSE tokens[e] = <<>>

\* An element that is observed is in the document, or a record will have it left,
\* be it that of the attribute which it has lost.
InPlace == \A e \in elements :
    \/ InDocument(e)
    \/ \E r \in Ancestors(e) : Outstanding("removed", r)
    \/ batch # <<>> /\ e \notin Matching

\* Record n, 0 for those handled before, has element e observed; none after it
\* undoes that.
Brings(n, e) ==
    \/ n = 0 /\ e \in elements
    \/ /\ n \in 1 .. Len(pending)
       /\ pending[n] = Rec("attributes", e) \/ \E a \in Ancestors(e) : pending[n] = Rec("added", a)
Lasts(n, e) == \A m \in 1 .. Len(pending), r \in Ancestors(e) : pending[m] = Rec("removed", r) => m < n

\* Every element that names a controller is observed, or will be.
AllComing ==
    phase = "started" =>
        \A e \in Matching : InDocument(e) => \E n \in 0 .. Len(pending) : Brings(n, e) /\ Lasts(n, e)

IInv == TypeOK /\ Counted /\ Handing /\ TokensRead /\ InPlace /\ AllComing

\* The types of the tables of the router.
RegisteredOK ==
    /\ contexts \subseteq Scope /\ connected \subseteq Scope
    /\ calls \in [Scope -> Int]
    /\ missed \subseteq Identifier \X UNION {Needs[i] : i \in Identifier}
TablesOK ==
    /\ tokens \in [Element -> Seq(Identifier)]
    /\ references \in [Scope -> Nat]
    /\ scopes \subseteq Scope
    /\ RegisteredOK

-----------------------------------------------------------------------------
(* The tables of the router. *)

\* Connecting and disconnecting contexts keeps the types.
LEMMA ConnectTypes ==
  ASSUME RegisteredOK, NEW gone \in SUBSET Scope, NEW times \in [Scope -> Nat],
         NEW kept \in SUBSET Scope, Connect(gone, times, kept)
  PROVE  RegisteredOK'
<1> DEFINE come == {c \in Scope : times[c] > 0}
           Found(c) == {d[2] : d \in (connected \ gone) \cup {x \in come : InOrder(x, c)}}
<1>1. /\ contexts' = kept \cup come
      /\ connected' = (connected \ gone) \cup come
      /\ calls' = [c \in Scope |-> calls[c] - (IF c \in gone THEN 1 ELSE 0) + times[c]]
      /\ missed' = missed \cup UNION {{c[2]} \X (Needs[c[2]] \ Found(c)) : c \in come \ kept}
  BY Zenon DEF Connect
<1> HIDE DEF Found
<1>2. contexts' \subseteq Scope /\ connected' \subseteq Scope
  BY <1>1 DEF RegisteredOK
<1>3. calls' \in [Scope -> Int]
  <2>1. ASSUME NEW c \in Scope
        PROVE  calls[c] - (IF c \in gone THEN 1 ELSE 0) + times[c] \in Int
    <3>1. calls[c] \in Int /\ times[c] \in Int
      BY DEF RegisteredOK
    <3> QED
      BY <3>1
  <2> QED
    BY <1>1, <2>1
<1>4. missed' \subseteq Identifier \X UNION {Needs[i] : i \in Identifier}
  <2>1. ASSUME NEW c \in Scope
        PROVE  {c[2]} \X (Needs[c[2]] \ Found(c)) \subseteq Identifier \X UNION {Needs[i] : i \in Identifier}
    BY DEF Scope
  <2> QED
    BY <1>1, <2>1 DEF RegisteredOK
<1> QED
  BY <1>2, <1>3, <1>4 DEF RegisteredOK

\* What becomes of one scope when the tokens of its element are replaced: it gets
\* the references that the new tokens give it, the router hears of it at most once
\* before and after, and it hears of its end if it hears of its beginning.
LEMMA ScopeReplaced ==
  ASSUME TablesOK, Counted, NEW new \in [Element -> Seq(Identifier)], NEW c \in Scope
  PROVE  LET gone == UnmatchScope(references[c], Unmatched(c, new)) > 0
             told == MatchScope(Left(c, new), Matched(c, new))
         IN  /\ Left(c, new) + Matched(c, new) = Times(c[2], new[c[1]], 1)
             /\ Left(c, new) + Matched(c, new) \in Nat
             /\ told \in {0, 1}
             /\ gone => references[c] > 0
             /\ told > 0 => gone \/ references[c] = 0
             /\ Left(c, new) + Matched(c, new) > 0 <=> (references[c] > 0 /\ ~gone) \/ told > 0
<1>1. c[1] \in Element /\ tokens[c[1]] \in Seq(Identifier) /\ new[c[1]] \in Seq(Identifier)
  BY DEF TablesOK, Scope
<1>2. PICK k \in Nat :
         /\ Unmatched(c, new) \in Nat /\ Matched(c, new) \in Nat
         /\ Times(c[2], tokens[c[1]], 1) = k + Unmatched(c, new)
         /\ Times(c[2], new[c[1]], 1) = k + Matched(c, new)
  BY <1>1, TimesSplit DEF Unmatched, Matched
<1>3. references[c] = k + Unmatched(c, new)
  BY <1>2 DEF Counted
<1>4. Left(c, new) = k
  BY <1>2, <1>3 DEF Left
<1> QED
  BY <1>2, <1>3, <1>4 DEF UnmatchScope, MatchScope

\* The observers tell one another what they need to know when tokens are replaced
\* (TokenListObserver, ScopeObserver, Router).
LEMMA TokensReplaced ==
  ASSUME TablesOK, Counted, NEW new \in [Element -> Seq(Identifier)],
         ReplaceTokens(new), modules' = modules
  PROVE  TablesOK' /\ Counted'
<1> DEFINE Gone(c) == UnmatchScope(references[c], Unmatched(c, new)) > 0
           Told(c) == MatchScope(Left(c, new), Matched(c, new))
           After(c) == Left(c, new) + Matched(c, new)
           gone == {c \in Scope : Gone(c)}
           told == [c \in Scope |-> Told(c)]
           leave == {c \in gone \cap contexts : c[2] \in modules}
           times == [c \in Scope |-> IF c[2] \in modules THEN told[c] ELSE 0]
<1>1. /\ tokens' = new
      /\ references' = [c \in Scope |-> After(c)]
      /\ scopes' = (scopes \ gone) \cup {c \in Scope : told[c] > 0}
      /\ Connect(leave, times, contexts)
  BY Zenon DEF ReplaceTokens
<1>2. ASSUME NEW c \in Scope
      PROVE  /\ After(c) = Times(c[2], new[c[1]], 1) /\ After(c) \in Nat
             /\ Told(c) \in {0, 1}
             /\ Gone(c) => references[c] > 0
             /\ Told(c) > 0 => Gone(c) \/ references[c] = 0
             /\ After(c) > 0 <=> (references[c] > 0 /\ ~Gone(c)) \/ Told(c) > 0
  BY ScopeReplaced
<1> HIDE DEF Gone, Told, After
<1>3. /\ leave \in SUBSET Scope /\ times \in [Scope -> Nat]
      /\ contexts \in SUBSET Scope /\ RegisteredOK
  <2>1. RegisteredOK
    BY DEF TablesOK
  <2>2. contexts \in SUBSET Scope
    BY <2>1 DEF RegisteredOK
  <2>3. leave \in SUBSET Scope
    OBVIOUS
  <2>4. \A c \in Scope : told[c] \in Nat
    BY <1>2
  <2>5. times \in [Scope -> Nat]
    <3> HIDE DEF told
    <3> QED
      BY <2>4
  <2> QED
    BY <2>1, <2>2, <2>3, <2>5, Zenon
<1>4. TablesOK'
  <2>1. RegisteredOK'
    <3> HIDE DEF leave, times
    <3> QED
      BY <1>1, <1>3, ConnectTypes
  <2> QED
    BY <1>1, <1>2, <2>1 DEF TablesOK
<1>5. \A c \in Scope : references'[c] = After(c) /\ told[c] = Told(c)
  BY <1>1
<1>6. /\ contexts' = contexts \cup {c \in Scope : times[c] > 0}
      /\ connected' = (connected \ leave) \cup {c \in Scope : times[c] > 0}
      /\ calls' = [c \in Scope |-> calls[c] - (IF c \in leave THEN 1 ELSE 0) + times[c]]
  <2> HIDE DEF leave, times
  <2> QED
    BY <1>1 DEF Connect
<1>7. scopes' = {c \in Scope : references'[c] > 0}
  <2>1. ASSUME NEW c \in Scope PROVE c \in scopes' <=> After(c) > 0
    BY <1>1, <1>2 DEF Counted
  <2> QED
    BY <2>1, <1>1, <1>5 DEF TablesOK
<1>8. ASSUME NEW c \in Scope
      PROVE  /\ c \in connected' <=> c \in scopes' /\ c[2] \in modules
             /\ c \in connected' => c \in contexts'
             /\ calls'[c] = IF c \in connected' THEN 1 ELSE 0
  <2>1. /\ c \in scopes <=> references[c] > 0
        /\ c \in connected <=> c \in scopes /\ c[2] \in modules
        /\ c \in connected => c \in contexts
        /\ calls[c] = IF c \in connected THEN 1 ELSE 0
    BY DEF Counted, CallsAlternate
  <2>2. /\ times[c] = IF c[2] \in modules THEN Told(c) ELSE 0
        /\ c \in leave <=> Gone(c) /\ c \in contexts /\ c[2] \in modules
        /\ c \in scopes' <=> (c \in scopes /\ ~Gone(c)) \/ Told(c) > 0
    BY <1>1, <1>5
  <2>3. references[c] \in Nat
    BY DEF TablesOK
  <2>4. /\ c \in contexts' <=> c \in contexts \/ times[c] > 0
        /\ c \in connected' <=> (c \in connected /\ c \notin leave) \/ times[c] > 0
        /\ calls'[c] = calls[c] - (IF c \in leave THEN 1 ELSE 0) + times[c]
    BY <1>6
  <2> HIDE DEF leave, times
  <2> QED
    BY <2>1, <2>2, <2>3, <2>4, <1>2
<1>9. connected' = {c \in scopes' : c[2] \in modules'} /\ connected' \subseteq contexts'
  BY <1>4, <1>8 DEF TablesOK, RegisteredOK
<1>10. \A c \in Scope : references'[c] = Times(c[2], tokens'[c[1]], 1)
  BY <1>1, <1>2, <1>5
<1> QED
  BY <1>4, <1>7, <1>8, <1>9, <1>10 DEF Counted, CallsAlternate

\* Registering a controller, anew or not, connects it for every scope of its name
\* (Router.loadDefinition).
LEMMA RegisterCounts ==
  ASSUME TablesOK, Counted, NEW i \in Identifier, Register(i)
  PROVE  TablesOK' /\ Counted'
<1> DEFINE leave == {c \in ScopesOf(i) \cap contexts : i \in modules}
           times == [c \in Scope |-> IF c \in ScopesOf(i) THEN 1 ELSE 0]
           kept == {c \in contexts : c[2] # i}
<1>1. /\ modules' = modules \cup {i} /\ Connect(leave, times, kept)
      /\ tokens' = tokens /\ references' = references /\ scopes' = scopes
  BY Zenon DEF Register
<1>2. /\ leave \in SUBSET Scope /\ times \in [Scope -> Nat]
      /\ kept \in SUBSET Scope /\ RegisteredOK
  BY DEF TablesOK, RegisteredOK
<1>3. RegisteredOK'
  <2> HIDE DEF leave, times, kept
  <2> QED
    BY <1>1, <1>2, ConnectTypes
<1>4. TablesOK'
  BY <1>1, <1>3 DEF TablesOK
<1>5. /\ contexts' = kept \cup {c \in Scope : times[c] > 0}
      /\ connected' = (connected \ leave) \cup {c \in Scope : times[c] > 0}
      /\ calls' = [c \in Scope |-> calls[c] - (IF c \in leave THEN 1 ELSE 0) + times[c]]
  <2> HIDE DEF leave, times, kept
  <2> QED
    BY <1>1 DEF Connect
<1>6. ASSUME NEW c \in Scope
      PROVE  /\ c \in connected' <=> c \in scopes' /\ c[2] \in modules'
             /\ c \in connected' => c \in contexts'
             /\ calls'[c] = IF c \in connected' THEN 1 ELSE 0
  <2>1. /\ c \in connected <=> c \in scopes /\ c[2] \in modules
        /\ c \in connected => c \in contexts
        /\ calls[c] = IF c \in connected THEN 1 ELSE 0
    BY DEF Counted, CallsAlternate
  <2>2. /\ times[c] = IF c \in scopes /\ c[2] = i THEN 1 ELSE 0
        /\ c \in leave <=> c \in scopes /\ c[2] = i /\ c \in contexts /\ i \in modules
        /\ c \in kept <=> c \in contexts /\ c[2] # i
    BY DEF ScopesOf
  <2>3. /\ c \in contexts' <=> c \in kept \/ times[c] > 0
        /\ c \in connected' <=> (c \in connected /\ c \notin leave) \/ times[c] > 0
        /\ calls'[c] = calls[c] - (IF c \in leave THEN 1 ELSE 0) + times[c]
    BY <1>5
  <2> HIDE DEF leave, times, kept
  <2> QED
    BY <2>1, <2>2, <2>3, <1>1
<1>7. connected' = {c \in scopes' : c[2] \in modules'} /\ connected' \subseteq contexts'
  BY <1>4, <1>6 DEF TablesOK, RegisteredOK
<1> QED
  BY <1>1, <1>4, <1>6, <1>7 DEF Counted, CallsAlternate

\* Unloading a controller disconnects it for every scope of its name
\* (Router.unloadIdentifier).
LEMMA UnloadCounts ==
  ASSUME TablesOK, Counted, NEW i \in Identifier, Unload(i)
  PROVE  TablesOK' /\ Counted'
<1> DEFINE leave == ScopesOf(i) \cap contexts
           times == [c \in Scope |-> 0]
<1>1. /\ modules' = modules \ {i} /\ Connect(leave, times, contexts)
      /\ tokens' = tokens /\ references' = references /\ scopes' = scopes
  BY Zenon DEF Unload
<1>2. /\ leave \in SUBSET Scope /\ times \in [Scope -> Nat]
      /\ contexts \in SUBSET Scope /\ RegisteredOK
  BY DEF TablesOK, RegisteredOK
<1>3. RegisteredOK'
  <2> HIDE DEF leave, times
  <2> QED
    BY <1>1, <1>2, ConnectTypes
<1>4. TablesOK'
  BY <1>1, <1>3 DEF TablesOK
<1>5. /\ contexts' = contexts \cup {c \in Scope : times[c] > 0}
      /\ connected' = (connected \ leave) \cup {c \in Scope : times[c] > 0}
      /\ calls' = [c \in Scope |-> calls[c] - (IF c \in leave THEN 1 ELSE 0) + times[c]]
  <2> HIDE DEF leave, times
  <2> QED
    BY <1>1 DEF Connect
<1>6. ASSUME NEW c \in Scope
      PROVE  /\ c \in connected' <=> c \in scopes' /\ c[2] \in modules'
             /\ c \in connected' => c \in contexts'
             /\ calls'[c] = IF c \in connected' THEN 1 ELSE 0
  <2>1. /\ c \in connected <=> c \in scopes /\ c[2] \in modules
        /\ c \in connected => c \in contexts
        /\ calls[c] = IF c \in connected THEN 1 ELSE 0
    BY DEF Counted, CallsAlternate
  <2>2. times[c] = 0 /\ (c \in leave <=> c \in scopes /\ c[2] = i /\ c \in contexts)
    BY DEF ScopesOf
  <2>3. /\ c \in contexts' <=> c \in contexts \/ times[c] > 0
        /\ c \in connected' <=> (c \in connected /\ c \notin leave) \/ times[c] > 0
        /\ calls'[c] = calls[c] - (IF c \in leave THEN 1 ELSE 0) + times[c]
    BY <1>5
  <2>4. i \in modules
    BY DEF Unload
  <2> HIDE DEF leave, times
  <2> QED
    BY <2>1, <2>2, <2>3, <2>4, <1>1
<1>7. connected' = {c \in scopes' : c[2] \in modules'} /\ connected' \subseteq contexts'
  BY <1>4, <1>6 DEF TablesOK, RegisteredOK
<1> QED
  BY <1>1, <1>4, <1>6, <1>7 DEF Counted, CallsAlternate

-----------------------------------------------------------------------------
(* What is observed. *)

\* Values of the attribute are lists of names.
LEMMA NamesAreLists ==
  ASSUME TypeOK, NEW e \in Element
  PROVE  Names(value[e]) \in Seq(Identifier)
BY PageAssumption DEF TypeOK, Names

\* The elements that are observed from now on, and what is read in each
\* (ElementObserver.addElement, removeElement, processAttributeChange).
LEMMA ObserveReads ==
  ASSUME TypeOK, Counted, NEW now \in SUBSET Element, NEW reread,
         Observe(now, reread), modules' = modules
  PROVE  /\ TablesOK' /\ Counted' /\ elements' = now
         /\ \A e \in Element :
              /\ e \in elements \ now => tokens'[e] = <<>>
              /\ e \in Matching \cap now \cap (reread \cup (Element \ elements)) =>
                    tokens'[e] = Names(value[e])
              /\ /\ e \notin elements \ now
                 /\ e \notin Matching \cap now \cap (reread \cup (Element \ elements))
                 => tokens'[e] = tokens[e]
<1> DEFINE Read(e) == CASE e \in elements \ now -> <<>>
                        [] e \in Matching \cap now \cap (reread \cup (Element \ elements)) -> Names(value[e])
                        [] OTHER -> tokens[e]
           new == [e \in Element |-> Read(e)]
<1>1. elements' = now /\ ReplaceTokens(new)
  BY Zenon DEF Observe
<1>2. TablesOK
  BY DEF TypeOK, TablesOK, RegisteredOK
<1>3. ASSUME NEW e \in Element
      PROVE  /\ e \in elements \ now => Read(e) = <<>>
             /\ e \in Matching \cap now \cap (reread \cup (Element \ elements)) => Read(e) = Names(value[e])
             /\ /\ e \notin elements \ now
                /\ e \notin Matching \cap now \cap (reread \cup (Element \ elements))
                => Read(e) = tokens[e]
  <2>1. e \in elements \ now => e \notin Matching \cap now \cap (reread \cup (Element \ elements))
    OBVIOUS
  <2> QED
    BY <2>1, Zenon
<1>4. ASSUME NEW e \in Element PROVE Read(e) \in Seq(Identifier)
  <2>1. Names(value[e]) \in Seq(Identifier) /\ tokens[e] \in Seq(Identifier) /\ <<>> \in Seq(Identifier)
    BY NamesAreLists DEF TypeOK
  <2> HIDE DEF Read
  <2> QED
    BY <1>3, <2>1
<1> HIDE DEF Read
<1>5. new \in [Element -> Seq(Identifier)]
  BY <1>4
<1> HIDE DEF new
<1>6. TablesOK' /\ Counted' /\ tokens' = new
  <2>1. tokens' = new
    BY <1>1, Zenon DEF ReplaceTokens
  <2> QED
    BY <1>1, <1>2, <1>5, <2>1, TokensReplaced
<1> QED
  BY <1>1, <1>3, <1>6 DEF new

\* Which records are outstanding when one has been queued, or none.
LEMMA QueueAppends ==
  ASSUME TypeOK, Idle, batch' = batch, NEW t \in {"attributes", "added", "removed"},
         NEW e \in Element, NEW node, Queue(t, e, node)
  PROVE  /\ records' \in Seq(Record)
         /\ pending = records /\ pending' = records' /\ Len(pending) \in Nat
         /\ \A n \in 1 .. Len(pending) : n \in 1 .. Len(pending') /\ pending'[n] = pending[n]
         /\ Observed(node) => /\ Len(pending) + 1 \in 1 .. Len(pending')
                              /\ pending'[Len(pending) + 1] = Rec(t, e)
         /\ ~Observed(node) => records' = records
         /\ \A n \in 1 .. Len(pending') :
              \/ n \in 1 .. Len(pending)
              \/ Observed(node) /\ n = Len(pending) + 1 /\ pending'[n] = Rec(t, e)
<1>1. pending = records /\ pending' = records'
  BY DEF Idle, pending
<1>2. Rec(t, e) \in Record
  BY DEF Rec, Record
<1>3. records \in Seq(Record)
  BY DEF TypeOK
<1>4. records' = IF Observed(node) THEN Append(records, Rec(t, e)) ELSE records
  BY DEF Queue, Rec
<1>5. Len(records) \in Nat
  BY <1>3
<1>6. CASE Observed(node)
  <2>1. /\ Append(records, Rec(t, e)) \in Seq(Record)
        /\ Len(Append(records, Rec(t, e))) = Len(records) + 1
        /\ \A n \in 1 .. Len(records) : Append(records, Rec(t, e))[n] = records[n]
        /\ Append(records, Rec(t, e))[Len(records) + 1] = Rec(t, e)
    BY <1>2, <1>3
  <2> QED
    BY <1>1, <1>4, <1>5, <1>6, <2>1
<1>7. CASE ~Observed(node)
  BY <1>1, <1>3, <1>4, <1>5, <1>7
<1> QED
  BY <1>6, <1>7

\* Types of records differ.
LEMMA RecordsDiffer ==
  ASSUME NEW t, NEW e, NEW u, NEW d, Rec(t, e) = Rec(u, d)
  PROVE  t = u /\ e = d
BY DEF Rec

\* What the invariant is about besides the tables of the router.
LastInv == Handing /\ TokensRead /\ InPlace /\ AllComing

\* An element that is observed but has left the document left it with what was
\* removed since the last records were handed over, and is still watched.
LEMMA WatchedUntilThen ==
  ASSUME TypeOK, Handing, InPlace, Idle, NEW e \in elements
  PROVE  Observed(e) /\ phase = "started"
<1>1. phase = "started" /\ e \in Element
  BY DEF Handing, TypeOK
<1>2. CASE InDocument(e)
  BY <1>1, <1>2 DEF Observed
<1>3. ASSUME NEW r \in Ancestors(e), Outstanding("removed", r) PROVE Ancestors(e) \cap transient # {}
  <2>1. r \in Element
    BY <1>1, AncestorsBefore DEF Ancestors, TypeOK
  <2>2. r \in transient
    BY <1>3, <2>1 DEF Outstanding, Handing, pending, Idle
  <2> QED
    BY <2>2
<1> QED
  BY <1>1, <1>2, <1>3 DEF InPlace, Idle, Observed

\* data-controller of an element changes.
LEMMA SetAttributeKeeps ==
  ASSUME TypeOK, LastInv, NEW e \in Element, NEW new \in Attribute, SetAttribute(e, new)
  PROVE  LastInv'
<1> USE DEF LastInv
<1>1. /\ Idle /\ batch' = batch /\ Queue("attributes", e, e)
      /\ parent' = parent /\ transient' = transient /\ phase' = phase
      /\ elements' = elements /\ tokens' = tokens
      /\ value' = [value EXCEPT ![e] = new]
  BY DEF SetAttribute, MayChange, router
<1>2. PICK last \in Nat :
      /\ last = Len(pending) + 1 /\ pending = records /\ pending' = records' /\ Len(pending) \in Nat
      /\ \A n \in 1 .. Len(pending) : n \in 1 .. Len(pending') /\ pending'[n] = pending[n]
      /\ Observed(e) => last \in 1 .. Len(pending') /\ pending'[last] = Rec("attributes", e)
      /\ ~Observed(e) => records' = records
      /\ \A n \in 1 .. Len(pending') :
           n \in 1 .. Len(pending) \/ (Observed(e) /\ n = last /\ pending'[n] = Rec("attributes", e))
  <2>1. Len(pending) \in Nat
    BY <1>1, QueueAppends
  <2> QED
    BY <2>1, <1>1, QueueAppends
<1>3. \A t, d : Outstanding(t, d) => Outstanding(t, d)'
  BY <1>2 DEF Outstanding
<1>4. \A d \in Element : Ancestors(d)' = Ancestors(d) /\ (InDocument(d)' <=> InDocument(d))
  BY <1>1 DEF Ancestors, InDocument
<1>5. \A d \in Element \ {e} : value'[d] = value[d] /\ (d \in Matching' <=> d \in Matching)
  BY <1>1 DEF Matching, TypeOK
<1>6. \A n \in 1 .. Len(pending') : \A r : pending'[n] = Rec("removed", r) =>
         n \in 1 .. Len(pending) /\ pending[n] = Rec("removed", r)
  <2>1. \A r : Rec("attributes", e) # Rec("removed", r)
    BY RecordsDiffer
  <2> QED
    BY <1>2, <2>1
<1>7. Handing'
  <2>1. phase # "started" => ~Observed(e)
    BY DEF Observed
  <2> QED
    BY <1>1, <1>2, <1>6, <2>1 DEF Handing, Idle
<1>8. TokensRead'
  <2>1. ASSUME NEW d \in Element
        PROVE  IF d \in elements'
               THEN (d \in Matching' /\ tokens'[d] = Names(value'[d])) \/ Outstanding("attributes", d)'
               ELSE tokens'[d] = <<>>
    <3>1. CASE d # e
      BY <3>1, <1>1, <1>3, <1>5 DEF TokensRead
    <3>2. CASE d = e /\ e \in elements
      <4>1. Observed(e)
        BY <3>2, <1>1, WatchedUntilThen
      <4> QED
        BY <4>1, <3>2, <1>1, <1>2 DEF Outstanding
    <3>3. CASE d = e /\ e \notin elements
      BY <3>3, <1>1 DEF TokensRead
    <3> QED
      BY <3>1, <3>2, <3>3
  <2> QED
    BY <2>1 DEF TokensRead
<1>9. InPlace'
  <2>1. elements \subseteq Element
    BY DEF TypeOK
  <2> QED
    BY <1>1, <1>3, <1>4, <2>1 DEF InPlace, Idle
<1>10. AllComing'
  <2> SUFFICES ASSUME phase' = "started", NEW d \in Element, d \in Matching', InDocument(d)'
               PROVE  \E n \in 0 .. Len(pending') : Brings(n, d)' /\ Lasts(n, d)'
    BY DEF AllComing, Matching
  <2>1. phase = "started" /\ InDocument(d) /\ Ancestors(d)' = Ancestors(d)
    BY <1>1, <1>4
  <2>2. CASE d # e
    <3>1. PICK n \in 0 .. Len(pending) : Brings(n, d) /\ Lasts(n, d)
      BY <2>1, <2>2, <1>5 DEF AllComing
    <3>2. n \in 0 .. Len(pending')
      BY <3>1, <1>2
    <3>3. Brings(n, d)'
      BY <3>1, <2>1, <1>1, <1>2 DEF Brings
    <3>4. Lasts(n, d)'
      BY <3>1, <2>1, <1>6 DEF Lasts
    <3> QED
      BY <3>2, <3>3, <3>4
  <2>3. CASE d = e
    <3>1. Observed(e)
      BY <2>1, <2>3 DEF Observed
    <3>2. last \in 0 .. Len(pending') /\ Brings(last, d)'
      BY <3>1, <2>3, <1>2 DEF Brings
    <3>3. Lasts(last, d)'
      BY <1>2, <1>6 DEF Lasts
    <3> QED
      BY <3>2, <3>3
  <2> QED
    BY <2>2, <2>3
<1> QED
  BY <1>7, <1>8, <1>9, <1>10

\* A node is inserted.
LEMMA InsertNodeKeeps ==
  ASSUME TypeOK, LastInv, NEW x \in Element, NEW node \in Element \cup {Root}, InsertNode(x, node)
  PROVE  IsTree(parent') /\ LastInv'
<1> USE DEF LastInv
<1>1. /\ Idle /\ batch' = batch /\ Queue("added", x, node)
      /\ parent[x] = Detached /\ node < x /\ parent' = [parent EXCEPT ![x] = node]
      /\ value' = value /\ transient' = transient /\ phase' = phase
      /\ elements' = elements /\ tokens' = tokens
  BY DEF InsertNode, MayChange, router
<1>2. PICK last \in Nat :
      /\ last = Len(pending) + 1 /\ pending = records /\ pending' = records'
      /\ Len(pending) \in Nat
      /\ \A n \in 1 .. Len(pending) : n \in 1 .. Len(pending') /\ pending'[n] = pending[n]
      /\ Observed(node) => last \in 1 .. Len(pending') /\ pending'[last] = Rec("added", x)
      /\ ~Observed(node) => records' = records
      /\ \A n \in 1 .. Len(pending') :
           n \in 1 .. Len(pending) \/ (Observed(node) /\ n = last /\ pending'[n] = Rec("added", x))
  <2>1. Len(pending) \in Nat
    BY <1>1, QueueAppends
  <2> QED
    BY <2>1, <1>1, QueueAppends
<1>3. \A t, d : Outstanding(t, d) => Outstanding(t, d)'
  BY <1>2 DEF Outstanding
<1>4. /\ IsTree(parent) /\ IsTree(parent') /\ parent'[x] = node
      /\ \A d \in Element \ {x} : parent'[d] = parent[d]
  BY <1>1 DEF TypeOK, IsTree
<1>5. ASSUME NEW d \in Element
      PROVE  /\ Ancestors(d) \subseteq Ancestors(d)'
             /\ InDocument(d) => Ancestors(d)' = Ancestors(d) /\ InDocument(d)'
             /\ InDocument(d)' /\ ~InDocument(d) => x \in Ancestors(d)' /\ (node = Root \/ InDocument(node))
  <2>1. /\ AncestorsIn(parent)[d] \subseteq AncestorsIn(parent')[d]
        /\ InDoc(parent, d) => AncestorsIn(parent')[d] = AncestorsIn(parent)[d] /\ InDoc(parent', d)
        /\ InDoc(parent', d) /\ ~InDoc(parent, d) =>
             x \in AncestorsIn(parent')[d] /\ (node = Root \/ InDoc(parent, node))
    <3>1. node < x /\ parent[x] = Detached
      BY <1>1
    <3> QED
      BY <3>1, <1>4, NodeInserted
  <2> QED
    BY <2>1 DEF Ancestors, InDocument, InDoc
<1>6. \A n \in 1 .. Len(pending') : \A r : pending'[n] = Rec("removed", r) =>
         n \in 1 .. Len(pending) /\ pending[n] = Rec("removed", r)
  <2>1. \A r : Rec("added", x) # Rec("removed", r)
    BY RecordsDiffer
  <2> QED
    BY <1>2, <2>1
<1>7. Handing'
  <2>1. phase # "started" => ~Observed(node)
    BY DEF Observed
  <2> QED
    BY <1>1, <1>2, <1>6, <2>1 DEF Handing, Idle
<1>8. TokensRead'
  BY <1>1, <1>3 DEF TokensRead, Matching
<1>9. InPlace'
  <2>1. elements \subseteq Element
    BY DEF TypeOK
  <2>2. ASSUME NEW d \in elements
        PROVE  InDocument(d)' \/ \E r \in Ancestors(d)' : Outstanding("removed", r)'
    BY <2>1, <1>1, <1>3, <1>5 DEF InPlace, Idle
  <2> QED
    BY <2>2, <1>1 DEF InPlace
<1>10. AllComing'
  <2> SUFFICES ASSUME phase' = "started", NEW d \in Element, d \in Matching', InDocument(d)'
               PROVE  \E n \in 0 .. Len(pending') : Brings(n, d)' /\ Lasts(n, d)'
    BY DEF AllComing, Matching
  <2>1. phase = "started" /\ d \in Matching
    BY <1>1 DEF Matching
  <2>2. CASE InDocument(d)
    <3>1. PICK n \in 0 .. Len(pending) : Brings(n, d) /\ Lasts(n, d)
      BY <2>1, <2>2 DEF AllComing
    <3>2. Ancestors(d)' = Ancestors(d)
      BY <1>5, <2>2
    <3>3. n \in 0 .. Len(pending')
      BY <3>1, <1>2
    <3>4. Brings(n, d)'
      BY <3>1, <3>2, <1>1, <1>2 DEF Brings
    <3>5. Lasts(n, d)'
      BY <3>1, <3>2, <1>6 DEF Lasts
    <3> QED
      BY <3>3, <3>4, <3>5
  <2>3. CASE ~InDocument(d)
    <3>1. x \in Ancestors(d)' /\ Observed(node)
      BY <1>5, <2>1, <2>3 DEF Observed
    <3>2. last \in 0 .. Len(pending') /\ Brings(last, d)'
      BY <3>1, <1>2 DEF Brings
    <3>3. Lasts(last, d)'
      BY <1>2, <1>6 DEF Lasts
    <3> QED
      BY <3>2, <3>3
  <2> QED
    BY <2>2, <2>3
<1> QED
  BY <1>4, <1>7, <1>8, <1>9, <1>10

\* A node is removed, from the document or from what has been removed before.
LEMMA RemoveNodeKeeps ==
  ASSUME TypeOK, LastInv, NEW x \in Element, RemoveNode(x)
  PROVE  IsTree(parent') /\ LastInv'
<1> USE DEF LastInv
<1>1. /\ Idle /\ batch' = batch /\ Queue("removed", x, parent[x])
      /\ parent' = [parent EXCEPT ![x] = Detached]
      /\ transient' = IF Observed(parent[x]) THEN transient \cup {x} ELSE transient
      /\ value' = value /\ phase' = phase
      /\ elements' = elements /\ tokens' = tokens
  BY DEF RemoveNode, MayChange, router
<1>2. PICK last \in Nat :
      /\ last = Len(pending) + 1 /\ pending = records /\ pending' = records'
      /\ Len(pending) \in Nat
      /\ \A n \in 1 .. Len(pending) : n \in 1 .. Len(pending') /\ pending'[n] = pending[n]
      /\ Observed(parent[x]) => last \in 1 .. Len(pending') /\ pending'[last] = Rec("removed", x)
      /\ ~Observed(parent[x]) => records' = records
      /\ \A n \in 1 .. Len(pending') :
           \/ n \in 1 .. Len(pending)
           \/ Observed(parent[x]) /\ n = last /\ pending'[n] = Rec("removed", x)
  <2>1. Len(pending) \in Nat
    BY <1>1, QueueAppends
  <2> QED
    BY <2>1, <1>1, QueueAppends
<1>3. /\ \A t, d : Outstanding(t, d) => Outstanding(t, d)'
      /\ Observed(parent[x]) => Outstanding("removed", x)'
  BY <1>2 DEF Outstanding
<1>4. /\ IsTree(parent) /\ IsTree(parent') /\ parent'[x] = Detached
      /\ \A d \in Element \ {x} : parent'[d] = parent[d]
  BY <1>1, TreeAssumption DEF TypeOK, IsTree, Detached
<1>5. ASSUME NEW d \in Element
      PROVE  /\ x \notin Ancestors(d) => Ancestors(d)' = Ancestors(d)
             /\ x \notin Ancestors(d) /\ InDocument(d)' => InDocument(d)
             /\ x \notin Ancestors(d) /\ InDocument(d) => InDocument(d)'
             /\ x \in Ancestors(d) =>
                  /\ x \in Ancestors(d)' /\ ~InDocument(d)'
                  /\ \A r \in Ancestors(d) \ Ancestors(d)' :
                       parent[x] \in Element /\ r \in Ancestors(parent[x])
  <2>1. /\ x \notin AncestorsIn(parent)[d] =>
             /\ AncestorsIn(parent')[d] = AncestorsIn(parent)[d]
             /\ InDoc(parent', d) <=> InDoc(parent, d)
        /\ x \in AncestorsIn(parent)[d] =>
             /\ x \in AncestorsIn(parent')[d] /\ ~InDoc(parent', d)
             /\ AncestorsIn(parent)[d] = AncestorsIn(parent')[d] \cup
                  (IF parent[x] \in Element THEN AncestorsIn(parent)[parent[x]] ELSE {})
    BY <1>4, NodeRemoved
  <2> QED
    BY <2>1 DEF Ancestors, InDocument, InDoc
<1>6. ASSUME phase = "started", InDocument(x) PROVE Observed(parent[x])
  <2>1. parent[x] = Root \/ (parent[x] \in Element /\ InDocument(parent[x]))
    BY <1>4, <1>6, TreeStep DEF InDocument, InDoc, Ancestors
  <2> QED
    BY <2>1, <1>6 DEF Observed
<1>7. ASSUME NEW d \in Element, x \in Ancestors(d), InDocument(d) PROVE InDocument(x)
  BY <1>4, <1>7, AncestorsOf DEF InDocument, InDoc, Ancestors
<1>8. Handing'
  <2>1. phase # "started" => ~Observed(parent[x])
    BY DEF Observed
  <2>2. ASSUME NEW e \in Element, NEW n \in 1 .. Len(records'), records'[n] = Rec("removed", e)
        PROVE  e \in transient'
    <3>1. CASE n \in 1 .. Len(records)
      BY <3>1, <2>2, <1>1, <1>2 DEF Handing
    <3>2. CASE Observed(parent[x]) /\ records'[n] = Rec("removed", x)
      BY <3>2, <2>2, <1>1, RecordsDiffer
    <3> QED
      BY <3>1, <3>2, <1>2
  <2> QED
    BY <1>1, <1>2, <2>1, <2>2 DEF Handing, Idle
<1>9. TokensRead'
  BY <1>1, <1>3 DEF TokensRead, Matching
<1>10. InPlace'
  <2>1. elements \subseteq Element
    BY DEF TypeOK
  <2>2. ASSUME NEW d \in elements
        PROVE  InDocument(d)' \/ \E r \in Ancestors(d)' : Outstanding("removed", r)'
    <3>1. d \in Element /\ phase = "started"
      BY <2>1 DEF Handing
    <3>2. CASE x \notin Ancestors(d)
      BY <3>1, <3>2, <1>1, <1>3, <1>5 DEF InPlace, Idle
    <3>3. CASE x \in Ancestors(d) /\ InDocument(d)
      <4>1. Observed(parent[x])
        BY <3>1, <3>3, <1>6, <1>7
      <4> QED
        BY <4>1, <3>1, <3>3, <1>3, <1>5
    <3>4. CASE x \in Ancestors(d) /\ ~InDocument(d)
      <4>1. PICK r \in Ancestors(d) : Outstanding("removed", r)
        BY <3>4, <1>1 DEF InPlace, Idle
      <4>2. CASE r \in Ancestors(d)'
        BY <4>1, <4>2, <1>3
      <4>3. CASE r \notin Ancestors(d)'
        <5>1. parent[x] \in Element /\ r \in Ancestors(parent[x])
          BY <4>1, <4>3, <3>1, <3>4, <1>5
        <5>2. r \in Element
          BY <5>1, <1>4, AncestorsBefore DEF Ancestors
        <5>3. r \in transient
          BY <4>1, <5>2, <1>2 DEF Outstanding, Handing
        <5>4. Observed(parent[x])
          BY <5>1, <5>3, <3>1 DEF Observed
        <5> QED
          BY <5>4, <3>1, <3>4, <1>3, <1>5
      <4> QED
        BY <4>2, <4>3
    <3> QED
      BY <3>2, <3>3, <3>4
  <2> QED
    BY <2>2, <1>1 DEF InPlace
<1>11. AllComing'
  <2> SUFFICES ASSUME phase' = "started", NEW d \in Element, d \in Matching', InDocument(d)'
               PROVE  \E n \in 0 .. Len(pending') : Brings(n, d)' /\ Lasts(n, d)'
    BY DEF AllComing, Matching
  <2>1. phase = "started" /\ d \in Matching
    BY <1>1 DEF Matching
  <2>2. x \notin Ancestors(d) /\ InDocument(d) /\ Ancestors(d)' = Ancestors(d)
    BY <1>5
  <2>3. PICK n \in 0 .. Len(pending) : Brings(n, d) /\ Lasts(n, d)
    BY <2>1, <2>2 DEF AllComing
  <2>4. n \in 0 .. Len(pending') /\ Brings(n, d)'
    BY <2>2, <2>3, <1>1, <1>2 DEF Brings
  <2>5. Lasts(n, d)'
    <3>1. ASSUME NEW m \in 1 .. Len(pending'), NEW r \in Ancestors(d), pending'[m] = Rec("removed", r)
          PROVE  m < n
      <4>1. CASE m \in 1 .. Len(pending)
        BY <4>1, <3>1, <2>3, <1>2 DEF Lasts
      <4>2. CASE pending'[m] = Rec("removed", x)
        BY <4>2, <3>1, <2>2, RecordsDiffer
      <4> QED
        BY <4>1, <4>2, <1>2
    <3> QED
      BY <3>1, <2>2 DEF Lasts
  <2> QED
    BY <2>4, <2>5
<1> QED
  BY <1>4, <1>8, <1>9, <1>10, <1>11

\* The records are handed over: they stay outstanding until they are handled.
LEMMA DeliverKeeps ==
  ASSUME TypeOK, LastInv, Deliver
  PROVE  LastInv'
<1> USE DEF LastInv
<1>1. /\ batch = <<>> /\ records # <<>> /\ batch' = records /\ records' = <<>>
      /\ parent' = parent /\ value' = value /\ phase' = phase
      /\ elements' = elements /\ tokens' = tokens
  BY DEF Deliver, Idle, router
<1>2. pending' = pending
  BY <1>1 DEF pending
<1>3. \A e \in Element : Ancestors(e)' = Ancestors(e) /\ (InDocument(e)' <=> InDocument(e))
  BY <1>1 DEF Ancestors, InDocument
<1>4. \A t, d : Outstanding(t, d) => Outstanding(t, d)'
  BY <1>2 DEF Outstanding
<1>5. Matching' = Matching
  BY <1>1 DEF Matching
<1>6. Handing'
  BY <1>1 DEF Handing
<1>7. TokensRead'
  BY <1>1, <1>4, <1>5 DEF TokensRead
<1>8. InPlace'
  <2>1. elements \subseteq Element
    BY DEF TypeOK
  <2> QED
    BY <1>1, <1>3, <1>4, <2>1 DEF InPlace
<1>9. AllComing'
  <2> SUFFICES ASSUME phase' = "started", NEW d \in Element, d \in Matching', InDocument(d)'
               PROVE  \E n \in 0 .. Len(pending') : Brings(n, d)' /\ Lasts(n, d)'
    BY DEF AllComing, Matching
  <2>1. PICK n \in 0 .. Len(pending) : Brings(n, d) /\ Lasts(n, d)
    BY <1>1, <1>3, <1>5 DEF AllComing
  <2>2. Brings(n, d)' /\ Lasts(n, d)'
    BY <2>1, <1>1, <1>2, <1>3 DEF Brings, Lasts
  <2> QED
    BY <2>1, <2>2, <1>2
<1> QED
  BY <1>6, <1>7, <1>8, <1>9

\* The observers start: all that the document holds is read.
LEMMA StartKeeps ==
  ASSUME TypeOK, Counted, LastInv, Start
  PROVE  TablesOK' /\ Counted' /\ elements' \subseteq Element /\ LastInv'
<1> USE DEF LastInv
<1> DEFINE now == {e \in Matching : InDocument(e)}
<1>1. /\ phase' = "started" /\ phase # "started" /\ Observe(now, {}) /\ modules' = modules
      /\ parent' = parent /\ value' = value /\ records' = records /\ transient' = transient
      /\ batch' = batch
  BY Zenon DEF Start, document
<1>2. elements = {} /\ records = <<>> /\ batch = <<>>
  BY <1>1 DEF Handing
<1>3. now \in SUBSET Element
  BY DEF Matching
<1> HIDE DEF now
<1>4. /\ TablesOK' /\ Counted' /\ elements' = now
      /\ \A e \in Element : /\ e \in Matching \cap now => tokens'[e] = Names(value[e])
                            /\ e \notin now => tokens'[e] = tokens[e]
  BY <1>1, <1>2, <1>3, ObserveReads
<1>5. /\ Matching' = Matching /\ pending' = <<>>
      /\ \A e \in Element : Ancestors(e)' = Ancestors(e) /\ (InDocument(e)' <=> InDocument(e))
  BY <1>1, <1>2 DEF Matching, pending, Ancestors, InDocument
<1>6. Handing'
  BY <1>1, <1>2 DEF Handing
<1>7. TokensRead'
  <2>1. ASSUME NEW e \in Element
        PROVE  IF e \in elements'
               THEN e \in Matching' /\ tokens'[e] = Names(value'[e])
               ELSE tokens'[e] = <<>>
    <3>1. tokens[e] = <<>>
      BY <1>2 DEF TokensRead
    <3>2. e \in now => e \in Matching
      BY DEF now
    <3> QED
      BY <3>1, <3>2, <1>1, <1>4, <1>5
  <2> QED
    BY <2>1 DEF TokensRead
<1>8. InPlace'
  BY <1>3, <1>4, <1>5 DEF InPlace, now
<1>9. AllComing'
  <2> SUFFICES ASSUME NEW d \in Element, d \in Matching', InDocument(d)'
               PROVE  \E n \in 0 .. Len(pending') : Brings(n, d)' /\ Lasts(n, d)'
    BY DEF AllComing, Matching
  <2>1. d \in elements'
    BY <1>4, <1>5 DEF now
  <2>2. Len(pending') = 0
    BY <1>5
  <2>3. Brings(0, d)'
    BY <2>1 DEF Brings
  <2>4. Lasts(0, d)'
    BY <2>2 DEF Lasts
  <2> QED
    BY <2>2, <2>3, <2>4
<1> QED
  BY <1>3, <1>4, <1>6, <1>7, <1>8, <1>9

\* What the handling of a record does to the set of elements that are observed: it
\* keeps those that it is not about, brings who matches and is in the document, and
\* takes who does not match or was removed (ElementObserver.processMutation).
LEMMA Processed ==
  ASSUME TypeOK, NEW t \in {"attributes", "added", "removed"}, NEW x \in Element, NEW e \in Element
  PROVE  LET now == ProcessMutation(Rec(t, x)) IN
         /\ now \subseteq Element
         /\ e \in now \ elements => e \in Matching /\ InDocument(e)
         /\ e \in elements \ now =>
              \/ t = "attributes" /\ e = x /\ e \notin Matching
              \/ t = "removed" /\ x \in Ancestors(e) /\ e \in Matching
         /\ e \in now /\ e \in Matching => ~(t = "removed" /\ x \in Ancestors(e))
         /\ e \in now => ~(t = "attributes" /\ e = x /\ e \notin Matching)
         /\ /\ e \in Matching /\ InDocument(e)
            /\ (t = "attributes" /\ e = x) \/ (t = "added" /\ x \in Ancestors(e))
            => e \in now
<1> DEFINE r == Rec(t, x)
<1>1. r.type = t /\ r.element = x
  BY DEF Rec
<1> HIDE DEF r
<1>2. /\ t = "attributes" => ProcessMutation(r) = AttributeChanged(x)
      /\ t = "removed" => ProcessMutation(r) = elements \ MatchingIn(x)
      /\ t = "added" /\ InDocument(x) => ProcessMutation(r) = elements \cup MatchingIn(x)
      /\ t = "added" /\ ~InDocument(x) => ProcessMutation(r) = elements
  BY <1>1 DEF ProcessMutation
<1>3. x \in Ancestors(e) => (InDocument(x) <=> InDocument(e))
  <2>1. IsTree(parent)
    BY DEF TypeOK
  <2> QED
    BY <2>1, AncestorsOf DEF InDocument, InDoc, Ancestors
<1>4. elements \subseteq Element /\ Matching \subseteq Element /\ MatchingIn(x) \subseteq Matching
  BY DEF TypeOK, Matching, MatchingIn
<1>5. e \in MatchingIn(x) <=> e \in Matching /\ x \in Ancestors(e)
  BY DEF MatchingIn
<1>6. CASE t = "attributes"
  BY <1>2, <1>4, <1>6 DEF AttributeChanged, AddElement, r
<1>7. CASE t = "added"
  BY <1>2, <1>3, <1>4, <1>5, <1>7 DEF r
<1>8. CASE t = "removed"
  BY <1>2, <1>4, <1>5, <1>8 DEF r
<1> QED
  BY <1>6, <1>7, <1>8

\* A record is handled.
LEMMA ProcessKeeps ==
  ASSUME TypeOK, Counted, LastInv, Process
  PROVE  TablesOK' /\ Counted' /\ elements' \subseteq Element /\ LastInv'
<1> USE DEF LastInv
<1>1. PICK t \in {"attributes", "added", "removed"}, x \in Element : Head(batch) = Rec(t, x)
  <2>1. batch # <<>> /\ batch \in Seq(Record)
    BY DEF Process, Idle, TypeOK
  <2>2. Head(batch) \in Record
    BY <2>1
  <2> QED
    BY <2>2 DEF Record, Rec
<1> DEFINE now == ProcessMutation(Rec(t, x))
           reread == IF t = "attributes" THEN {x} ELSE {}
<1>2. /\ batch # <<>> /\ batch' = Tail(batch) /\ Observe(now, reread) /\ modules' = modules
      /\ parent' = parent /\ value' = value /\ records' = records /\ transient' = transient
      /\ phase' = phase
  <2>1. Rec(t, x).type = t /\ Rec(t, x).element = x
    BY DEF Rec
  <2>2. Observe(ProcessMutation(Head(batch)),
                IF Head(batch).type = "attributes" THEN {Head(batch).element} ELSE {})
    BY Zenon DEF Process
  <2>3. (IF Head(batch).type = "attributes" THEN {Head(batch).element} ELSE {}) = reread
    BY <1>1, <2>1
  <2> HIDE DEF reread
  <2>4. Observe(now, reread)
    BY <1>1, <2>2, <2>3
  <2> QED
    BY <2>4 DEF Process, Idle, document
<1>3. \A e \in Element :
         /\ now \subseteq Element
         /\ e \in now \ elements => e \in Matching /\ InDocument(e)
         /\ e \in elements \ now =>
              \/ t = "attributes" /\ e = x /\ e \notin Matching
              \/ t = "removed" /\ x \in Ancestors(e) /\ e \in Matching
         /\ e \in now /\ e \in Matching => ~(t = "removed" /\ x \in Ancestors(e))
         /\ e \in now => ~(t = "attributes" /\ e = x /\ e \notin Matching)
         /\ /\ e \in Matching /\ InDocument(e)
            /\ (t = "attributes" /\ e = x) \/ (t = "added" /\ x \in Ancestors(e))
            => e \in now
  BY Processed
<1>4. now \in SUBSET Element
  BY <1>3
<1> HIDE DEF now
<1>5. /\ TablesOK' /\ Counted' /\ elements' = now
      /\ \A e \in Element :
           /\ e \in elements \ now => tokens'[e] = <<>>
           /\ e \in Matching \cap now \cap (reread \cup (Element \ elements)) =>
                 tokens'[e] = Names(value[e])
           /\ /\ e \notin elements \ now
              /\ e \notin Matching \cap now \cap (reread \cup (Element \ elements))
              => tokens'[e] = tokens[e]
  BY <1>2, <1>4, ObserveReads
<1>6. /\ records = <<>> /\ phase = "started"
  BY <1>2 DEF Handing
<1>7. /\ Len(pending) \in Nat /\ Len(pending') \in Nat /\ Len(pending) = Len(pending') + 1
      /\ pending[1] = Rec(t, x)
      /\ \A n \in 1 .. Len(pending') : pending'[n] = pending[n + 1]
      /\ batch' # <<>> <=> 1 \in 1 .. Len(pending')
  <2>1. batch \in Seq(Record) /\ pending = batch
    BY <1>2 DEF TypeOK, pending
  <2>2. pending' = batch'
    BY <1>2, <1>6 DEF pending
  <2>3. /\ Len(batch) \in Nat /\ Len(Tail(batch)) = Len(batch) - 1 /\ Len(batch) >= 1
        /\ batch[1] = Head(batch) /\ Tail(batch) \in Seq(Record)
        /\ \A n \in 1 .. Len(Tail(batch)) : Tail(batch)[n] = batch[n + 1]
    BY <2>1, <1>2
  <2>4. Tail(batch) # <<>> <=> Len(Tail(batch)) # 0
    BY <2>3
  <2> QED
    BY <2>1, <2>2, <2>3, <2>4, <1>1, <1>2
<1>8. /\ Matching' = Matching
      /\ \A e \in Element : Ancestors(e)' = Ancestors(e) /\ (InDocument(e)' <=> InDocument(e))
  BY <1>2 DEF Matching, Ancestors, InDocument
<1>9. ASSUME NEW u, NEW d, Outstanding(u, d), Rec(u, d) # Rec(t, x)
      PROVE  Outstanding(u, d)' /\ batch' # <<>>
  <2>1. PICK n \in 1 .. Len(pending) : pending[n] = Rec(u, d)
    BY <1>9 DEF Outstanding
  <2>2. n # 1
    BY <2>1, <1>7, <1>9
  <2>3. n - 1 \in 1 .. Len(pending') /\ pending'[n - 1] = pending[n]
    BY <2>1, <2>2, <1>7
  <2>4. Outstanding(u, d)'
    BY <2>1, <2>3 DEF Outstanding
  <2> QED
    BY <2>3, <2>4, <1>7
<1>10. ASSUME NEW d \in Element, d \in elements, Outstanding("attributes", d)
       PROVE  \/ t = "attributes" /\ x = d
              \/ Outstanding("attributes", d)' /\ batch' # <<>>
  BY <1>9, <1>10, RecordsDiffer
<1>11. Handing'
  BY <1>2, <1>6 DEF Handing
<1>12. TokensRead'
  <2>1. ASSUME NEW e \in Element
        PROVE  IF e \in elements'
               THEN (e \in Matching' /\ tokens'[e] = Names(value'[e])) \/ Outstanding("attributes", e)'
               ELSE tokens'[e] = <<>>
    <3>1. CASE e \in now /\ e \notin elements
      BY <3>1, <1>2, <1>3, <1>5, <1>8
    <3>2. CASE e \in now /\ e \in elements /\ t = "attributes" /\ x = e
      BY <3>2, <1>2, <1>3, <1>5, <1>8
    <3>3. CASE e \in now /\ e \in elements /\ ~(t = "attributes" /\ x = e)
      <4>1. tokens'[e] = tokens[e]
        BY <3>3, <1>5
      <4> QED
        BY <4>1, <3>3, <1>2, <1>5, <1>8, <1>10 DEF TokensRead
    <3>4. CASE e \notin now
      BY <3>4, <1>5 DEF TokensRead
    <3> QED
      BY <3>1, <3>2, <3>3, <3>4
  <2> QED
    BY <2>1 DEF TokensRead
<1>13. InPlace'
  <2>1. ASSUME NEW e \in now
        PROVE  \/ InDocument(e)
               \/ \E r \in Ancestors(e) : Outstanding("removed", r)'
               \/ batch' # <<>> /\ e \notin Matching
    <3>1. e \in Element
      BY <1>4
    <3>2. CASE e \notin elements
      BY <3>1, <3>2, <1>3
    <3>3. CASE e \in elements /\ e \notin Matching
      <4>1. Outstanding("attributes", e)
        BY <3>1, <3>3 DEF TokensRead
      <4> QED
        BY <4>1, <3>1, <3>3, <1>3, <1>10
    <3>4. CASE e \in elements /\ e \in Matching /\ ~InDocument(e)
      <4>1. PICK r \in Ancestors(e) : Outstanding("removed", r)
        BY <3>4 DEF InPlace
      <4>2. Rec("removed", r) # Rec(t, x)
        <5>1. ~(t = "removed" /\ x = r)
          BY <4>1, <3>1, <3>4, <1>3
        <5> QED
          BY <5>1, RecordsDiffer
      <4> QED
        BY <4>1, <4>2, <1>9
    <3> QED
      BY <3>2, <3>3, <3>4
  <2> QED
    BY <2>1, <1>4, <1>5, <1>8 DEF InPlace
<1>14. AllComing'
  <2> SUFFICES ASSUME NEW d \in Element, d \in Matching, InDocument(d)
               PROVE  \E n \in 0 .. Len(pending') : Brings(n, d)' /\ Lasts(n, d)'
    BY <1>8 DEF AllComing, Matching
  <2>1. PICK n \in 0 .. Len(pending) : Brings(n, d) /\ Lasts(n, d)
    BY <1>6 DEF AllComing
  <2>2. Ancestors(d)' = Ancestors(d)
    BY <1>8
  <2>3. ASSUME NEW k \in Nat, NEW m \in 1 .. Len(pending'), NEW r \in Ancestors(d),
               pending'[m] = Rec("removed", r), n <= k + 1
        PROVE  m < k
    <3>1. m + 1 \in 1 .. Len(pending) /\ pending[m + 1] = Rec("removed", r)
      BY <2>3, <1>7
    <3>2. m + 1 < n
      BY <3>1, <2>1 DEF Lasts
    <3> QED
      BY <3>2, <2>1, <2>3, <1>7
  <2>4. CASE n >= 2
    <3>1. PICK k \in Nat : k = n - 1
      BY <2>4, <2>1
    <3>2. k \in 0 .. Len(pending') /\ k \in 1 .. Len(pending') /\ pending'[k] = pending[n]
      BY <3>1, <2>1, <2>4, <1>7
    <3>3. Brings(k, d)'
      BY <3>2, <2>1, <2>2, <2>4 DEF Brings
    <3>4. Lasts(k, d)'
      BY <3>1, <2>2, <2>3, <2>1 DEF Lasts
    <3> QED
      BY <3>2, <3>3, <3>4
  <2>5. CASE n < 2
    <3>1. d \in now
      <4>1. CASE n = 1
        <5>1. Rec(t, x) = Rec("attributes", d) \/ \E a \in Ancestors(d) : Rec(t, x) = Rec("added", a)
          BY <4>1, <2>1, <1>7 DEF Brings
        <5>2. (t = "attributes" /\ d = x) \/ (t = "added" /\ x \in Ancestors(d))
          BY <5>1, RecordsDiffer
        <5> QED
          BY <5>2, <1>3
      <4>2. CASE n = 0
        <5>1. d \in elements
          BY <4>2, <2>1 DEF Brings
        <5>2. ~(t = "removed" /\ x \in Ancestors(d))
          <6>1. 1 \in 1 .. Len(pending)
            BY <1>7
          <6> QED
            BY <6>1, <4>2, <2>1, <1>7 DEF Lasts
        <5> QED
          BY <5>1, <5>2, <1>3
      <4> QED
        BY <4>1, <4>2, <2>1, <2>5, <1>7
    <3>2. Brings(0, d)'
      BY <3>1, <1>5 DEF Brings
    <3>3. Lasts(0, d)'
      <4>1. n <= 0 + 1
        BY <2>1, <2>5, <1>7
      <4> QED
        BY <4>1, <2>2, <2>3 DEF Lasts
    <3> QED
      BY <3>2, <3>3, <1>7
  <2> QED
    BY <2>4, <2>5, <2>1, <1>7
<1> QED
  BY <1>4, <1>5, <1>11, <1>12, <1>13, <1>14

-----------------------------------------------------------------------------
(* The invariant holds. *)

\* Steps that change neither the document nor what is observed.
LEMMA LastInvStays ==
  ASSUME TypeOK, LastInv, parent' = parent, value' = value, records' = records,
         transient' = transient, batch' = batch, elements' = elements, tokens' = tokens,
         phase' = phase \/ (phase' # "started" /\ phase # "started")
  PROVE  LastInv'
<1> USE DEF LastInv
<1>1. /\ Matching' = Matching /\ pending' = pending
      /\ \A e \in Element : Ancestors(e)' = Ancestors(e) /\ (InDocument(e)' <=> InDocument(e))
  BY DEF Matching, pending, Ancestors, InDocument
<1>2. \A t, d : Outstanding(t, d) => Outstanding(t, d)'
  BY <1>1 DEF Outstanding
<1>3. Handing'
  BY DEF Handing
<1>4. TokensRead'
  BY <1>1, <1>2 DEF TokensRead
<1>5. InPlace'
  <2>1. elements \subseteq Element
    BY DEF TypeOK
  <2> QED
    BY <1>1, <1>2, <2>1 DEF InPlace
<1>6. AllComing'
  <2> SUFFICES ASSUME phase' = "started", NEW d \in Element, d \in Matching', InDocument(d)'
               PROVE  \E n \in 0 .. Len(pending') : Brings(n, d)' /\ Lasts(n, d)'
    BY DEF AllComing, Matching
  <2>1. PICK n \in 0 .. Len(pending) : Brings(n, d) /\ Lasts(n, d)
    BY <1>1 DEF AllComing
  <2>2. Brings(n, d)' /\ Lasts(n, d)'
    BY <2>1, <1>1 DEF Brings, Lasts
  <2> QED
    BY <2>1, <2>2, <1>1
<1> QED
  BY <1>3, <1>4, <1>5, <1>6

\* The tables stay when they are not touched, or when modules come before there is
\* any scope.
LEMMA CountedStays ==
  ASSUME TypeOK, Counted, tokens' = tokens, references' = references, scopes' = scopes,
         modules' = modules \/ scopes = {}, registered' = registered
  PROVE  TablesOK' /\ Counted'
<1>1. contexts' = contexts /\ connected' = connected /\ calls' = calls /\ missed' = missed
  BY DEF registered
<1>2. TablesOK'
  BY <1>1 DEF TypeOK, TablesOK, RegisteredOK
<1>3. connected' = {c \in scopes' : c[2] \in modules'}
  BY <1>1 DEF Counted
<1> QED
  BY <1>1, <1>2, <1>3 DEF Counted, CallsAlternate

\* Nothing is named in an empty list.
LEMMA TimesNone ==
  ASSUME NEW i
  PROVE  Times(i, <<>>, 1) = 0
<1>1. {n \in 1 .. Len(<<>>) : <<>>[n] = i} = {}
  OBVIOUS
<1> QED
  BY <1>1, FS_EmptySet DEF Times

\* The invariant holds at first.
LEMMA IInvInit == Init => IInv
<1> SUFFICES ASSUME Init PROVE IInv
  OBVIOUS
<1>1. TypeOK
  BY TreeAssumption, PageAssumption DEF Init, TypeOK
<1>2. Counted
  <2>1. ASSUME NEW c \in Scope PROVE references[c] = 0 /\ Times(c[2], tokens[c[1]], 1) = 0
    <3>1. tokens[c[1]] = <<>>
      BY DEF Init, Scope
    <3> QED
      BY <3>1, TimesNone DEF Init
  <2>2. scopes = {c \in Scope : references[c] > 0}
    BY <2>1 DEF Init
  <2> QED
    BY <2>1, <2>2 DEF Counted, CallsAlternate, Init
<1>3. Handing /\ TokensRead /\ InPlace /\ AllComing
  BY DEF Init, Handing, TokensRead, InPlace, AllComing
<1> QED
  BY <1>1, <1>2, <1>3 DEF IInv

\* Every step keeps it.
LEMMA IInvStep == IInv /\ [Next]_vars => IInv'
<1> SUFFICES ASSUME IInv, [Next]_vars PROVE IInv'
  OBVIOUS
<1>1. TypeOK /\ Counted /\ LastInv /\ TablesOK
  BY DEF IInv, LastInv, TypeOK, TablesOK, RegisteredOK
<1>2. ASSUME TablesOK', Counted', LastInv', IsTree(parent'), value' \in [Element -> Attribute],
             records' \in Seq(Record), batch' \in Seq(Record), transient' \subseteq Element,
             phase' \in {"new", "waiting", "started"}, loading' \in BOOLEAN,
             elements' \subseteq Element, modules' \subseteq Identifier,
             changes' \in 0 .. MaxChanges
      PROVE  IInv'
  BY <1>2 DEF IInv, LastInv, TypeOK, TablesOK, RegisteredOK
<1>3. /\ IsTree(parent) /\ value \in [Element -> Attribute] /\ records \in Seq(Record)
      /\ batch \in Seq(Record) /\ transient \subseteq Element
      /\ phase \in {"new", "waiting", "started"} /\ loading \in BOOLEAN
      /\ elements \subseteq Element /\ modules \subseteq Identifier /\ changes \in 0 .. MaxChanges
  BY <1>1 DEF TypeOK
<1>4. MayChange => changes' \in 0 .. MaxChanges
  BY <1>3, PageAssumption DEF MayChange
<1>5. CASE Main
  <2>1. /\ phase = "new" /\ phase' = "waiting" /\ modules' = Identifier
        /\ parent' = parent /\ value' = value /\ records' = records /\ transient' = transient
        /\ batch' = batch /\ loading' = loading /\ elements' = elements /\ tokens' = tokens
        /\ references' = references /\ scopes' = scopes /\ registered' = registered
        /\ changes' = changes
    BY <1>5 DEF Main, document
  <2>2. scopes = {}
    <3>1. ASSUME NEW c \in Scope PROVE ~(references[c] > 0)
      <4>1. tokens[c[1]] = <<>>
        BY <1>1, <2>1 DEF LastInv, Handing, TokensRead, Scope
      <4>2. references[c] = 0
        BY <4>1, <1>1, TimesNone DEF Counted
      <4> QED
        BY <4>2
    <3> QED
      BY <3>1, <1>1 DEF Counted
  <2>3. TablesOK' /\ Counted'
    BY <2>1, <2>2, <1>1, CountedStays
  <2>4. LastInv'
    BY <2>1, <1>1, LastInvStays
  <2> QED
    BY <2>1, <2>3, <2>4, <1>2, <1>3
<1>6. CASE DomReady
  <2>1. UNCHANGED <<document, batch, phase, router, changes>> /\ loading' = FALSE
    BY <1>6 DEF DomReady
  <2>2. TablesOK' /\ Counted'
    BY <2>1, <1>1, CountedStays DEF router
  <2>3. LastInv'
    BY <2>1, <1>1, LastInvStays DEF router, document
  <2> QED
    BY <2>1, <2>2, <2>3, <1>2, <1>3 DEF router, document
<1>7. CASE Start
  <2>1. TablesOK' /\ Counted' /\ elements' \subseteq Element /\ LastInv'
    BY <1>1, <1>7, StartKeeps
  <2> QED
    BY <2>1, <1>2, <1>3, <1>7 DEF Start, document
<1>8. CASE Deliver
  <2>1. LastInv'
    BY <1>1, <1>8, DeliverKeeps
  <2>2. /\ UNCHANGED <<parent, value, phase, loading, router, changes>>
        /\ batch' = records /\ records' = <<>> /\ transient' = {}
    BY <1>8 DEF Deliver
  <2>3. TablesOK' /\ Counted'
    BY <2>2, <1>1, CountedStays DEF router
  <2> QED
    BY <2>1, <2>2, <2>3, <1>2, <1>3 DEF router
<1>9. CASE Process
  <2>1. TablesOK' /\ Counted' /\ elements' \subseteq Element /\ LastInv'
    BY <1>1, <1>9, ProcessKeeps
  <2>2. batch' \in Seq(Record)
    BY <1>3, <1>9 DEF Process, Idle
  <2> QED
    BY <2>1, <2>2, <1>2, <1>3, <1>9 DEF Process, document
<1>10. ASSUME NEW e \in Element, NEW new \in Attribute, SetAttribute(e, new) PROVE IInv'
  <2>1. LastInv'
    BY <1>1, <1>10, SetAttributeKeeps
  <2>2. /\ UNCHANGED <<parent, transient, batch, phase, loading, router>>
        /\ value' = [value EXCEPT ![e] = new] /\ MayChange /\ Queue("attributes", e, e)
    BY <1>10 DEF SetAttribute
  <2>3. TablesOK' /\ Counted'
    BY <2>2, <1>1, CountedStays DEF router
  <2>4. records' \in Seq(Record)
    BY <2>2, <1>1, QueueAppends DEF MayChange
  <2> QED
    BY <2>1, <2>2, <2>3, <2>4, <1>2, <1>3, <1>4 DEF router
<1>11. ASSUME NEW e \in Element, NEW node \in Element \cup {Root}, InsertNode(e, node) PROVE IInv'
  <2>1. IsTree(parent') /\ LastInv'
    BY <1>1, <1>11, InsertNodeKeeps
  <2>2. /\ UNCHANGED <<value, transient, batch, phase, loading, router>>
        /\ MayChange /\ Queue("added", e, node)
    BY <1>11 DEF InsertNode
  <2>3. TablesOK' /\ Counted'
    BY <2>2, <1>1, CountedStays DEF router
  <2>4. records' \in Seq(Record)
    BY <2>2, <1>1, QueueAppends DEF MayChange
  <2> QED
    BY <2>1, <2>2, <2>3, <2>4, <1>2, <1>3, <1>4 DEF router
<1>12. ASSUME NEW e \in Element, RemoveNode(e) PROVE IInv'
  <2>1. IsTree(parent') /\ LastInv'
    BY <1>1, <1>12, RemoveNodeKeeps
  <2>2. /\ UNCHANGED <<value, batch, phase, loading, router>>
        /\ MayChange /\ Queue("removed", e, parent[e])
        /\ transient' \subseteq Element
    BY <1>12, <1>3 DEF RemoveNode
  <2>3. TablesOK' /\ Counted'
    BY <2>2, <1>1, CountedStays DEF router
  <2>4. records' \in Seq(Record)
    BY <2>2, <1>1, QueueAppends DEF MayChange
  <2> QED
    BY <2>1, <2>2, <2>3, <2>4, <1>2, <1>3, <1>4 DEF router
<1>13. ASSUME NEW i \in Identifier, Register(i) PROVE IInv'
  <2>1. TablesOK' /\ Counted'
    BY <1>1, <1>13, RegisterCounts
  <2>2. UNCHANGED <<document, batch, phase, loading, elements, tokens>> /\ MayChange
        /\ modules' = modules \cup {i}
    BY <1>13 DEF Register
  <2>3. LastInv'
    BY <2>2, <1>1, LastInvStays DEF document
  <2> QED
    BY <2>1, <2>2, <2>3, <1>2, <1>3, <1>4 DEF document
<1>14. ASSUME NEW i \in Identifier, Unload(i) PROVE IInv'
  <2>1. TablesOK' /\ Counted'
    BY <1>1, <1>14, UnloadCounts
  <2>2. UNCHANGED <<document, batch, phase, loading, elements, tokens>> /\ MayChange
        /\ modules' = modules \ {i}
    BY <1>14 DEF Unload
  <2>3. LastInv'
    BY <2>2, <1>1, LastInvStays DEF document
  <2> QED
    BY <2>1, <2>2, <2>3, <1>2, <1>3, <1>4 DEF document
<1>15. CASE UNCHANGED vars
  <2>1. UNCHANGED <<document, batch, phase, loading, router, changes>>
    BY <1>15 DEF vars
  <2>2. TablesOK' /\ Counted'
    BY <2>1, <1>1, CountedStays DEF router
  <2>3. LastInv'
    BY <2>1, <1>1, LastInvStays DEF router, document
  <2> QED
    BY <2>1, <2>2, <2>3, <1>2, <1>3 DEF router, document
<1> QED
  BY <1>5, <1>6, <1>7, <1>8, <1>9, <1>10, <1>11, <1>12, <1>13, <1>14, <1>15 DEF Next

\* The invariant holds in every state.
LEMMA Invariant == Spec => []IInv
<1> QED
  BY IInvInit, IInvStep, PTL DEF Spec

\* In every state the variables keep their types, whatever changes in the document
\* and is registered.
THEOREM StimulusTypeCorrect == Spec => []TypeOK
<1>1. IInv => TypeOK
  BY DEF IInv
<1> QED
  BY <1>1, Invariant, PTL

\* No controller is connected or disconnected twice in a row, however often its
\* element names it and however many records are handed over (ScopeObserver counts).
THEOREM CallsDoAlternate == Spec => []CallsAlternate
<1>1. IInv => CallsAlternate
  BY DEF IInv, Counted
<1> QED
  BY <1>1, Invariant, PTL

\* What is observed when nothing is outstanding is what matches in the document.
LEMMA QuietTokens ==
  ASSUME IInv, phase = "started", records = <<>>, batch = <<>>, NEW e \in Element
  PROVE  tokens[e] = IF InDocument(e) THEN Names(value[e]) ELSE <<>>
<1>1. pending = <<>> /\ Len(pending) = 0
  BY DEF pending
<1>2. \A t, d : ~Outstanding(t, d)
  BY <1>1 DEF Outstanding
<1>3. e \in elements => e \in Matching /\ tokens[e] = Names(value[e]) /\ InDocument(e)
  BY <1>2 DEF IInv, TokensRead, InPlace
<1>4. e \notin elements => tokens[e] = <<>>
  BY DEF IInv, TokensRead
<1>5. e \in Matching /\ InDocument(e) => e \in elements
  BY <1>1 DEF IInv, AllComing, Brings
<1>6. e \notin Matching => Names(value[e]) = <<>>
  BY DEF Matching, Names
<1> QED
  BY <1>3, <1>4, <1>5, <1>6

\* Once no record is outstanding the connected controllers are those that the
\* document names and somebody has registered (ElementObserver to Router).
THEOREM ConnectedAreThoseNamed == Spec => []ConnectedWhenQuiet
<1>1. ASSUME IInv, phase = "started", records = <<>>, batch = <<>> PROVE connected = Wanted
  <2>1. ASSUME NEW c \in Scope PROVE c \in scopes <=> c \in Named
    <3>1. c[1] \in Element
      BY DEF Scope
    <3>2. tokens[c[1]] = IF InDocument(c[1]) THEN Names(value[c[1]]) ELSE <<>>
      BY <1>1, <3>1, QuietTokens
    <3>3. tokens[c[1]] \in Seq(Identifier)
      BY <1>1, <3>1 DEF IInv, TypeOK
    <3>4. c \in scopes <=> \E n \in 1 .. Len(tokens[c[1]]) : tokens[c[1]][n] = c[2]
      BY <1>1, <3>3, TimesPositive DEF IInv, Counted
    <3> QED
      BY <3>2, <3>4 DEF Named
  <2>2. scopes \subseteq Scope /\ Named \subseteq Scope
    BY <1>1 DEF IInv, TypeOK, Named
  <2>3. connected = {c \in scopes : c[2] \in modules}
    BY <1>1 DEF IInv, Counted
  <2> QED
    BY <2>1, <2>2, <2>3 DEF Wanted
<1>2. IInv => ConnectedWhenQuiet
  BY <1>1 DEF ConnectedWhenQuiet
<1> QED
  BY <1>2, Invariant, PTL

-----------------------------------------------------------------------------
(* What initialize looks up on the page as it is loaded. *)

\* Whatever a controller on the page as it is loaded needs is on the page before
\* it: in an element that comes before or in its own attribute.
NeedsComeFirst ==
    \A e \in Element : InDoc(InitialParent, e) =>
        \A n \in 1 .. Len(Names(InitialValue[e])) : \A j \in Needs[Names(InitialValue[e])[n]] :
            \E d \in Element : \E m \in 1 .. Len(Names(InitialValue[d])) :
                /\ Names(InitialValue[d])[m] = j /\ InDoc(InitialParent, d)
                /\ d < e \/ (d = e /\ m < n)

\* As long as nothing has changed the page is the one that was loaded, and no
\* context has been made before the start.
AsLoaded ==
    changes = 0 =>
        /\ parent = InitialParent /\ value = InitialValue
        /\ records = <<>> /\ batch = <<>>
        /\ phase # "started" => contexts = {}
        /\ phase = "waiting" => modules = Identifier
        /\ missed = {}

\* What a name stands before in a list is found by whom the list names so first.
LEMMA FirstNamed ==
  ASSUME NEW list \in Seq(Identifier), NEW k \in 1 .. Len(list)
  PROVE  \E n \in 1 .. Len(list) : list[n] = list[k] /\ \A m \in 1 .. n - 1 : list[m] # list[k]
<1> DEFINE T == {n \in 1 .. Len(list) : list[n] = list[k]}
<1>1. T \in SUBSET Nat /\ k \in T
  OBVIOUS
<1>2. PICK n \in T : \A m \in T : n <= m
  <2> HIDE DEF T
  <2> QED
    BY <1>1, Least
<1>3. ASSUME NEW m \in 1 .. n - 1 PROVE list[m] # list[k]
  <2>1. Len(list) \in Nat /\ n \in 1 .. Len(list)
    BY <1>2
  <2>2. m \in 1 .. Len(list) /\ ~(n <= m)
    BY <2>1
  <2> QED
    BY <2>2, <1>2
<1> QED
  BY <1>2, <1>3

\* The controllers that the start connects find what they need.
LEMMA StartFinds ==
  ASSUME NeedsComeFirst, IInv, AsLoaded, changes = 0, Start
  PROVE  missed' = {}
<1> DEFINE now == {e \in Matching : InDocument(e)}
           new == [e \in Element |->
                    CASE e \in elements \ now -> <<>>
                      [] e \in Matching \cap now \cap ({} \cup (Element \ elements)) -> Names(value[e])
                      [] OTHER -> tokens[e]]
<1>1. /\ phase = "waiting" /\ elements = {} /\ contexts = {} /\ missed = {} /\ modules = Identifier
      /\ parent = InitialParent /\ value = InitialValue
  BY DEF Start, IInv, Handing, AsLoaded
<1>2. ReplaceTokens(new)
  BY Zenon DEF Start, Observe
<1>3. ASSUME NEW e \in Element
      PROVE  new[e] = (IF InDocument(e) THEN Names(value[e]) ELSE <<>>) /\ new[e] \in Seq(Identifier)
  <2>1. tokens[e] = <<>>
    BY <1>1 DEF IInv, TokensRead
  <2>2. e \notin Matching => Names(value[e]) = <<>>
    BY DEF Matching, Names
  <2>3. /\ e \in now => new[e] = Names(value[e])
        /\ e \notin now => new[e] = tokens[e]
    BY <1>1 DEF Matching
  <2>4. Names(value[e]) \in Seq(Identifier) /\ <<>> \in Seq(Identifier)
    BY NamesAreLists DEF IInv
  <2>5. e \in now <=> e \in Matching /\ InDocument(e)
    OBVIOUS
  <2> HIDE DEF now, new
  <2> QED
    BY <2>1, <2>2, <2>3, <2>4, <2>5
<1>4. new \in [Element -> Seq(Identifier)]
  <2>1. new = [e \in Element |-> new[e]]
    OBVIOUS
  <2> HIDE DEF new
  <2> QED
    BY <2>1, <1>3
<1> HIDE DEF now, new
<1> DEFINE Gone(c) == UnmatchScope(references[c], Unmatched(c, new)) > 0
           Told(c) == MatchScope(Left(c, new), Matched(c, new))
           gone == {c \in Scope : Gone(c)}
           told == [c \in Scope |-> Told(c)]
           leave == {c \in gone \cap contexts : c[2] \in modules}
           times == [c \in Scope |-> IF c[2] \in modules THEN told[c] ELSE 0]
           come == {c \in Scope : times[c] > 0}
           Found(c) == {d[2] : d \in (connected \ leave) \cup {x \in come : InOrder(x, c)}}
<1>5. missed' = missed \cup UNION {{c[2]} \X (Needs[c[2]] \ Found(c)) : c \in come \ contexts}
  <2>1. Connect(leave, times, contexts)
    BY <1>2, Zenon DEF ReplaceTokens
  <2> HIDE DEF leave, times
  <2> QED
    BY <2>1, Zenon DEF Connect
<1>6. ASSUME NEW c \in Scope
      PROVE  c \in come <=> InDocument(c[1]) /\ \E n \in 1 .. Len(Names(value[c[1]])) :
                                                    Names(value[c[1]])[n] = c[2]
  <2>1. TablesOK /\ Counted /\ c[1] \in Element /\ c[2] \in Identifier
    BY DEF IInv, TypeOK, TablesOK, RegisteredOK, Scope
  <2>2. references[c] = 0
    <3>1. tokens[c[1]] = <<>>
      BY <1>1, <2>1 DEF IInv, TokensRead
    <3> QED
      BY <3>1, <2>1, TimesNone DEF Counted
  <2>3. Told(c) \in {0, 1} /\ (Told(c) > 0 <=> Times(c[2], new[c[1]], 1) > 0)
    BY <2>1, <2>2, <1>4, ScopeReplaced
  <2>4. times[c] = Told(c)
    BY <1>1, <2>1
  <2>5. Times(c[2], new[c[1]], 1) > 0 <=> \E n \in 1 .. Len(new[c[1]]) : new[c[1]][n] = c[2]
    BY <2>1, <1>3, TimesPositive
  <2>6. c \in come <=> times[c] > 0
    OBVIOUS
  <2> HIDE DEF Told, times, come
  <2>7. c \in come <=> \E n \in 1 .. Len(new[c[1]]) : new[c[1]][n] = c[2]
    BY <2>3, <2>4, <2>5, <2>6
  <2>8. new[c[1]] = IF InDocument(c[1]) THEN Names(value[c[1]]) ELSE <<>>
    BY <2>1, <1>3
  <2> QED
    BY <2>7, <2>8
<1>7. \A e \in Element : InDocument(e) <=> InDoc(InitialParent, e)
  BY <1>1 DEF InDocument, InDoc, Ancestors
<1>8. come \subseteq Scope
  OBVIOUS
<1> HIDE DEF come, leave
<1>9. ASSUME NEW c \in come, NEW j \in Needs[c[2]] PROVE j \in Found(c)
  <2>1. c \in Scope /\ c[1] \in Element
    BY <1>8 DEF Scope
  <2> DEFINE list == Names(value[c[1]])
  <2>2. list \in Seq(Identifier)
    BY <2>1, NamesAreLists DEF IInv
  <2>3. InDocument(c[1]) /\ \E k \in 1 .. Len(list) : list[k] = c[2]
    BY <2>1, <1>6, <1>9
  <2>4. PICK n \in 1 .. Len(list) : list[n] = c[2] /\ \A m \in 1 .. n - 1 : list[m] # c[2]
    BY <2>2, <2>3, FirstNamed
  <2>5. PICK d \in Element : \E m \in 1 .. Len(Names(value[d])) :
           /\ Names(value[d])[m] = j /\ InDocument(d)
           /\ d < c[1] \/ (d = c[1] /\ m < n)
    <3>1. InDoc(InitialParent, c[1]) /\ value = InitialValue
      BY <2>1, <2>3, <1>1, <1>7
    <3>2. list = Names(InitialValue[c[1]])
      BY <3>1
    <3>3. n \in 1 .. Len(Names(InitialValue[c[1]]))
      BY <3>2
    <3>4. Names(InitialValue[c[1]])[n] = c[2]
      BY <3>2, <2>4
    <3>5. j \in Needs[Names(InitialValue[c[1]])[n]]
      BY <3>4, <1>9
    <3> HIDE DEF list
    <3>6. PICK d \in Element : \E m \in 1 .. Len(Names(InitialValue[d])) :
             /\ Names(InitialValue[d])[m] = j /\ InDoc(InitialParent, d)
             /\ d < c[1] \/ (d = c[1] /\ m < n)
      <4> DEFINE Before(e, k, i) == \E d \in Element : \E m \in 1 .. Len(Names(InitialValue[d])) :
                                      /\ Names(InitialValue[d])[m] = i /\ InDoc(InitialParent, d)
                                      /\ d < e \/ (d = e /\ m < k)
      <4>1. \A e \in Element : InDoc(InitialParent, e) =>
              \A k \in 1 .. Len(Names(InitialValue[e])) :
                \A i \in Needs[Names(InitialValue[e])[k]] : Before(e, k, i)
        BY DEF NeedsComeFirst
      <4> HIDE DEF Before
      <4>2. Before(c[1], n, j)
        BY <4>1, <3>1, <2>1, <3>3, <3>5
      <4> QED
        BY <4>2 DEF Before
    <3> QED
      BY <3>1, <3>6, <1>7
  <2>6. PICK m \in 1 .. Len(Names(value[d])) :
           /\ Names(value[d])[m] = j /\ InDocument(d)
           /\ d < c[1] \/ (d = c[1] /\ m < n)
    BY <2>5
  <2> DEFINE x == <<d, j>>
  <2>7. x \in Scope /\ x[1] = d /\ x[2] = j
    <3>1. Names(value[d]) \in Seq(Identifier)
      BY NamesAreLists DEF IInv
    <3>2. j \in Identifier
      BY <3>1, <2>6
    <3> QED
      BY <3>2 DEF Scope
  <2> HIDE DEF x
  <2>8. x \in come
    BY <2>6, <2>7, <1>6
  <2>9. InOrder(x, c)
    <3>1. CASE d < c[1]
      BY <3>1, <2>7 DEF InOrder
    <3>2. CASE d = c[1] /\ m < n
      <4>1. \A k \in 1 .. m : list[k] # c[2]
        BY <3>2, <2>2, <2>4, <2>6
      <4> QED
        BY <4>1, <3>2, <2>6, <2>7 DEF InOrder
    <3> QED
      BY <3>1, <3>2, <2>6
  <2> QED
    BY <2>7, <2>8, <2>9
<1>10. \A c \in come : Needs[c[2]] \ Found(c) = {}
  BY <1>9
<1> HIDE DEF Found
<1> QED
  BY <1>1, <1>5, <1>10

\* While nothing changes the page stays as it was loaded.
LEMMA AsLoadedStep ==
  ASSUME NeedsComeFirst
  PROVE  IInv /\ AsLoaded /\ [Next]_vars => AsLoaded'
<1> SUFFICES ASSUME IInv, AsLoaded, [Next]_vars, changes' = 0
             PROVE  /\ parent' = InitialParent /\ value' = InitialValue
                    /\ records' = <<>> /\ batch' = <<>>
                    /\ phase' # "started" => contexts' = {}
                    /\ phase' = "waiting" => modules' = Identifier
                    /\ missed' = {}
  BY DEF AsLoaded
<1>1. changes \in Nat
  BY DEF IInv, TypeOK
<1>2. ~MayChange
  BY <1>1 DEF MayChange
<1>3. CASE Main
  BY <1>3 DEF Main, AsLoaded, document, registered
<1>4. CASE DomReady
  BY <1>4 DEF DomReady, AsLoaded, document, router, registered
<1>5. CASE Start
  <2>1. changes = 0
    BY <1>5 DEF Start
  <2>2. missed' = {}
    BY <1>5, <2>1, StartFinds
  <2> QED
    BY <2>1, <2>2, <1>5 DEF Start, AsLoaded, document
<1>6. CASE Deliver
  BY <1>6 DEF Deliver, AsLoaded
<1>7. CASE Process
  BY <1>7 DEF Process, Idle, AsLoaded
<1>8. CASE UNCHANGED vars
  BY <1>8 DEF vars, AsLoaded, document, router, registered
<1> QED
  BY <1>2, <1>3, <1>4, <1>5, <1>6, <1>7, <1>8
     DEF Next, SetAttribute, InsertNode, RemoveNode, Register, Unload

\* If what controllers need comes before them on the page as it is loaded, as the
\* panels of node.html have it, every initialize finds what it looks up
\* (Module.connectContextForScope, in document order).
THEOREM InitializeFinds ==
  ASSUME NeedsComeFirst
  PROVE  Spec => []NeedsFound
<1>1. Init => AsLoaded
  BY DEF Init, AsLoaded
<1>2. IInv /\ AsLoaded /\ [Next]_vars => AsLoaded'
  BY AsLoadedStep
<1>3. AsLoaded => NeedsFound
  BY DEF AsLoaded, NeedsFound
<1> QED
  BY <1>1, <1>2, <1>3, Invariant, PTL DEF Spec
=============================================================================
