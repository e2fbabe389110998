----------------------------- MODULE ListProofs -----------------------------
(***************************************************************************)
(* Proofs about List, for every finite set of nodes and every set of       *)
(* handles and items: the lists stay well linked, the library keeps the    *)
(* promise of ListSpec, and it loses nodes in the two known ways only.     *)
(***************************************************************************)
EXTENDS List, SequenceTheorems, FiniteSetTheorems, TLAPS

-----------------------------------------------------------------------------
(* The walk along the next links.                                          *)

\* A nonempty set of numbers has a least element.
LEMMA LeastNumber ==
    ASSUME NEW T, T \subseteq Nat, T # {}
    PROVE  \E k \in T : \A j \in T : k <= j
<1> DEFINE R == OpToRel(<, Nat)
<1>1. IsWellFoundedOn(R, Nat)
  BY NatLessThanWellFounded
<1> HIDE DEF R
<1>2. PICK k \in T : \A j \in T : <<j, k>> \notin R
  BY <1>1, WFMin
<1>3. ASSUME NEW j \in T
      PROVE  k <= j
  <2>1. <<j, k>> \notin R
    BY <1>2
  <2>2. ~ (j < k)
    BY <2>1 DEF R, OpToRel
  <2> QED
    BY <2>2
<1> QED
  BY <1>3

\* The element of s at position i, if it has one.
Nth(s, i) == IF i \in 1..Len(s) THEN s[i] ELSE NULL

\* Following next from first, nd leads through the nodes of s, all different, and no further.
IsWalk(nd, first, s) ==
    /\ s \in Seq(Nodes)
    /\ \A i, j \in 1..Len(s) : s[i] = s[j] => i = j
    /\ first = Nth(s, 1)
    /\ \A i \in 1..Len(s) : nd[s[i]].next = Nth(s, i + 1)

\* There are no more nodes on it than there are nodes.
LEMMA WalkFits ==
    ASSUME NEW nd, NEW first, NEW s, IsWalk(nd, first, s)
    PROVE  Len(s) \in Nat /\ Cardinality(Nodes) \in Nat /\ Len(s) <= Cardinality(Nodes)
<1> DEFINE n == Len(s)
<1>1. n \in Nat /\ s \in [1..n -> Nodes]
  BY DEF IsWalk
<1>2. Cardinality(Nodes) \in Nat
  BY FiniteNodes, FS_CardinalityType
<1>3. s \in Injection(1..n, Nodes)
  BY <1>1 DEF IsWalk, Injection, IsInjective
<1>4. Cardinality(1..n) = n
  <2>1. n \in Int /\ 1 \in Int /\ (1 > n => n = 0) /\ n - 1 + 1 = n
    BY <1>1
  <2> HIDE DEF n
  <2>2. Cardinality(1..n) = IF 1 > n THEN 0 ELSE n - 1 + 1
    BY <2>1, FS_Interval
  <2> QED
    BY <2>1, <2>2
<1>5. Cardinality(1..n) <= Cardinality(Nodes)
  BY <1>3, FiniteNodes, FS_Injection
<1> QED
  BY <1>1, <1>2, <1>4, <1>5

\* What a step of the walk with the nodes at does: Chain is its only solution.
Step(nd, first, at, i) ==
    IF i = 1 THEN first
    ELSE IF at[i - 1] = NULL THEN NULL ELSE nd[at[i - 1]].next

IsSolution(nd, first, at) ==
    at = [i \in 1..Cardinality(Nodes) |-> Step(nd, first, at, i)]

LEMMA OneSolution ==
    ASSUME NEW nd, NEW first, NEW f, NEW g,
           IsSolution(nd, first, f), IsSolution(nd, first, g)
    PROVE  f = g
<1> DEFINE N == Cardinality(Nodes)
           Differ == {i \in 1..N : f[i] # g[i]}
<1>1. N \in Nat
  BY FiniteNodes, FS_CardinalityType
<1>2. /\ f = [i \in 1..N |-> Step(nd, first, f, i)]
      /\ g = [i \in 1..N |-> Step(nd, first, g, i)]
  BY DEF IsSolution
<1>3. ASSUME Differ # {}
      PROVE  FALSE
  <2>1. Differ \subseteq Nat
    BY <1>1
  <2>2. PICK k \in Differ : \A j \in Differ : k <= j
    <3> HIDE DEF Differ
    <3> QED
      BY <2>1, <1>3, LeastNumber
  <2>3. k \in 1..N /\ f[k] # g[k]
    BY <2>2
  <2>4. f[k] = Step(nd, first, f, k) /\ g[k] = Step(nd, first, g, k)
    BY <1>2, <2>3
  <2>5. k # 1
    BY <2>3, <2>4 DEF Step
  <2>6. k - 1 \in 1..N /\ ~ (k <= k - 1)
    BY <1>1, <2>3, <2>5
  <2>7. k - 1 \notin Differ
    BY <2>2, <2>6
  <2>8. f[k - 1] = g[k - 1]
    BY <2>6, <2>7
  <2> QED
    BY <2>3, <2>4, <2>8 DEF Step
<1>4. \A i \in 1..N : f[i] = g[i]
  BY <1>3
<1> QED
  BY <1>2, <1>4

\* Chain finds the nodes of the walk.
LEMMA ChainIsWalk ==
    ASSUME NEW nd, NEW first, NEW s, IsWalk(nd, first, s)
    PROVE  Chain(nd, first) = s
<1> DEFINE N == Cardinality(Nodes)
           at == CHOOSE f : IsSolution(nd, first, f)
           g == [i \in 1..N |-> Nth(s, i)]
<1>1. Len(s) \in Nat /\ N \in Nat /\ Len(s) <= N
  BY WalkFits
<1>2. s \in [1..Len(s) -> Nodes]
  BY DEF IsWalk
<1>3. ASSUME NEW i \in 1..N
      PROVE  g[i] = Step(nd, first, g, i)
  <2>1. CASE i = 1
    BY <2>1, <1>1 DEF Step, IsWalk
  <2>2. CASE i # 1
    <3>1. i - 1 \in 1..N
      BY <2>2, <1>1
    <3>2. g[i - 1] = Nth(s, i - 1)
      BY <3>1
    <3>3. CASE i - 1 \in 1..Len(s)
      <4>1. g[i - 1] = s[i - 1] /\ s[i - 1] \in Nodes
        BY <3>2, <3>3, <1>2 DEF Nth
      <4>2. nd[s[i - 1]].next = Nth(s, (i - 1) + 1)
        BY <3>3 DEF IsWalk
      <4>3. (i - 1) + 1 = i
        OBVIOUS
      <4> QED
        BY <2>2, <4>1, <4>2, <4>3, NullIsNothing DEF Step
    <3>4. CASE i - 1 \notin 1..Len(s)
      <4>1. i \notin 1..Len(s)
        BY <3>4, <2>2, <1>1
      <4> QED
        BY <2>2, <3>2, <3>4, <4>1 DEF Step, Nth
    <3> QED
      BY <3>3, <3>4
  <2> QED
    BY <2>1, <2>2
<1>4. IsSolution(nd, first, g)
  BY <1>3 DEF IsSolution
<1>5. IsSolution(nd, first, at)
  <2> HIDE DEF g
  <2> QED
    BY <1>4
<1>6. at = g
  <2> HIDE DEF g, at
  <2> QED
    BY <1>4, <1>5, OneSolution
<1>7. Chain(nd, first) = Restrict(at, {i \in DOMAIN at : at[i] # NULL})
  BY DEF Chain, IsSolution, Step
<1>8. DOMAIN g = 1..N /\ \A i \in 1..N : g[i] = Nth(s, i)
  OBVIOUS
<1>9. {i \in DOMAIN g : g[i] # NULL} = 1..Len(s)
  BY <1>1, <1>2, <1>8, NullIsNothing DEF Nth
<1>10. \A i \in 1..Len(s) : g[i] = s[i]
  BY <1>1, <1>8 DEF Nth
<1>11. Restrict(g, 1..Len(s)) = s
  BY <1>2, <1>10 DEF Restrict
<1> QED
  <2> HIDE DEF g, at
  <2> QED
    BY <1>6, <1>7, <1>9, <1>11

-----------------------------------------------------------------------------
(* The inductive invariant.                                                *)

\* The struct l and the nodes nd are a list of the nodes s.
IsList(nd, l, s) ==
    /\ IsWalk(nd, l.head, s)
    /\ l.size = Len(s)
    /\ l.tail = Nth(s, Len(s))
    /\ l.cursor \in ToSet(s) \cup {NULL}
    /\ \A i \in 1..Len(s) : nd[s[i]].in_use /\ nd[s[i]].prev = Nth(s, i - 1)

\* WellLinked alone is not inductive: it allows a list of all nodes whose last
\* one leads back to the first.
ListInv ==
    /\ TypeOK
    /\ \A h \in Live : IsList(node, list[h], Chained(h))
    /\ \A g, h \in Live : g # h => Linked(g) \cap Linked(h) = {}

LEMMA ChainOfList ==
    ASSUME NEW nd, NEW l, NEW s, IsList(nd, l, s)
    PROVE  /\ Chain(nd, l.head) = s
           /\ s \in Seq(Nodes) /\ Len(s) \in Nat /\ DOMAIN s = 1..Len(s)
           /\ ToSet(s) = {s[i] : i \in 1..Len(s)}
           /\ \A i \in 1..Len(s) : s[i] \in Nodes
           /\ \A i, j \in 1..Len(s) : s[i] = s[j] => i = j
<1> DEFINE first == l.head
<1>1. IsWalk(nd, first, s)
  BY DEF IsList
<1> HIDE DEF first
<1>2. Chain(nd, first) = s
  BY <1>1, ChainIsWalk
<1>3. /\ s \in Seq(Nodes) /\ Len(s) \in Nat /\ DOMAIN s = 1..Len(s)
      /\ \A i \in 1..Len(s) : s[i] \in Nodes
  BY <1>1 DEF IsWalk
<1> QED
  BY <1>1, <1>2, <1>3 DEF IsWalk, ToSet, first

\* A list is one whatever happens to other nodes.
LEMMA ListStays ==
    ASSUME NEW nd, NEW nd2, NEW l, NEW s, IsList(nd, l, s),
           \A m \in ToSet(s) : nd2[m] = nd[m]
    PROVE  IsList(nd2, l, s)
<1>1. \A i \in 1..Len(s) : nd2[s[i]] = nd[s[i]]
  BY ChainOfList
<1> QED
  BY <1>1 DEF IsList, IsWalk

\* What the invariant says of one list.
LEMMA LiveList ==
    ASSUME ListInv, NEW h \in Live
    PROVE  /\ h \in Handles /\ list[h].in_use
           /\ IsList(node, list[h], Chained(h))
           /\ Linked(h) = {Chained(h)[i] : i \in 1..Len(Chained(h))}
           /\ Linked(h) \subseteq InUse
<1> DEFINE s == Chained(h)
<1>1. IsList(node, list[h], s)
  BY DEF ListInv
<1>2. h \in Handles /\ list[h].in_use
  BY DEF Live
<1> DEFINE l == list[h]
<1> HIDE DEF s, l
<1>3. IsList(node, l, s)
  BY <1>1 DEF l
<1>4. /\ ToSet(s) = {s[i] : i \in 1..Len(s)}
      /\ \A i \in 1..Len(s) : s[i] \in Nodes
  BY <1>3, ChainOfList
<1>5. \A i \in 1..Len(s) : node[s[i]].in_use
  BY <1>3 DEF IsList
<1>6. ToSet(s) \subseteq InUse
  BY <1>4, <1>5 DEF InUse
<1> QED
  BY <1>1, <1>2, <1>4, <1>6 DEF s, Linked

-----------------------------------------------------------------------------
(* What every call does to the lists.                                      *)

\* The nodes of those of the lists H that exist.
NodesOf(H) == UNION {Linked(h) : h \in H \cap Live}

\* The call leaves the lists not in H as they are.
Keeps(H) ==
    \A g \in Handles \ H :
        list'[g] = list[g] /\ (g \in Live => \A m \in Linked(g) : node'[m] = node[m])

\* The call turns the lists H into one list K of the nodes s, or destroys them
\* if K is empty.  The nodes lost are in use and on no list.
Outcome(H, K, s, lost) ==
    /\ TypeOK'
    /\ Keeps(H) /\ K \subseteq H /\ H \subseteq Handles
    /\ \A h \in H : list'[h].in_use <=> h \in K
    /\ \A h \in K : IsList(node', list'[h], s)
    /\ \A g, h \in K : g = h
    /\ ToSet(s) \subseteq NodesOf(H) \cup Fresh
    /\ lost \subseteq (NodesOf(H) \cup Fresh) \ ToSet(s)
    /\ K = {} => s = <<>>
    /\ InUse' = (InUse \ NodesOf(H)) \cup ToSet(s) \cup lost

LEMMA OthersStay ==
    ASSUME ListInv, NEW H, Keeps(H), NEW g \in Live \ H
    PROVE  /\ g \in Live' /\ list'[g] = list[g]
           /\ IsList(node', list'[g], Chained(g))
           /\ Chained(g)' = Chained(g) /\ Linked(g)' = Linked(g)
           /\ Contents(g)' = Contents(g)
<1>1. /\ g \in Handles /\ list[g].in_use /\ IsList(node, list[g], Chained(g))
      /\ Linked(g) = {Chained(g)[i] : i \in 1..Len(Chained(g))}
  BY LiveList
<1>2. list'[g] = list[g] /\ \A m \in Linked(g) : node'[m] = node[m]
  BY <1>1 DEF Keeps
<1>3. g \in Live'
  BY <1>1, <1>2 DEF Live
<1> DEFINE s == Chained(g)
           l == list[g]
           nd == node
           nd2 == node'
<1>4. IsList(nd, l, s) /\ \A m \in ToSet(s) : nd2[m] = nd[m]
  BY <1>1, <1>2 DEF Linked
<1> HIDE DEF s, l, nd, nd2
<1>5. IsList(nd2, l, s)
  BY <1>4, ListStays
<1>6. Chain(nd2, l.head) = s
  BY <1>5, ChainOfList
<1>7. Chained(g)' = Chained(g)
  BY <1>2, <1>6 DEF Chained, l, s, nd2
<1>8. \A i \in 1..Len(Chained(g)) : node'[Chained(g)[i]] = node[Chained(g)[i]]
  BY <1>1, <1>2
<1>9. Contents(g)' = Contents(g)
  <2>1. Stored(node, Chained(g))' = Stored(node, Chained(g))
    BY <1>7, <1>8 DEF Stored
  <2> QED
    BY <2>1, <1>2, <1>7 DEF Contents
<1>10. IsList(node', list'[g], Chained(g))
  BY <1>2, <1>5 DEF l, s, nd2
<1>11. Linked(g)' = Linked(g)
  BY <1>7 DEF Linked
<1> QED
  BY <1>2, <1>3, <1>7, <1>9, <1>10, <1>11

\* The list a call makes is one.
LEMMA NewList ==
    ASSUME NEW H, NEW K, NEW s, NEW lost, Outcome(H, K, s, lost), NEW h \in K
    PROVE  /\ h \in Handles /\ h \in Live' /\ h \in H
           /\ IsList(node', list'[h], s)
           /\ Chained(h)' = s /\ Linked(h)' = ToSet(s)
<1>1. IsList(node', list'[h], s) /\ h \in H /\ H \subseteq Handles /\ list'[h].in_use
  BY DEF Outcome
<1> DEFINE nd == node'
           l == list'[h]
<1>2. IsList(nd, l, s)
  BY <1>1
<1> HIDE DEF nd, l
<1>3. Chain(nd, l.head) = s
  BY <1>2, ChainOfList
<1>4. Chained(h)' = s
  BY <1>3 DEF nd, l, Chained
<1>5. Linked(h)' = ToSet(s)
  BY <1>4 DEF Linked
<1> QED
  BY <1>1, <1>4, <1>5 DEF Live

\* The nodes of a list that the call leaves alone are apart from those it uses.
LEMMA OthersApart ==
    ASSUME ListInv, NEW H, NEW g \in Live \ H
    PROVE  Linked(g) \cap (NodesOf(H) \cup Fresh) = {} /\ Linked(g) \subseteq InUse
<1>1. Linked(g) \subseteq InUse
  BY LiveList
<1>2. ASSUME NEW h \in H \cap Live
      PROVE  Linked(g) \cap Linked(h) = {}
  BY DEF ListInv
<1> QED
  BY <1>1, <1>2 DEF NodesOf, Fresh

LEMMA LiveAfter ==
    ASSUME NEW H, NEW K, NEW s, NEW lost, Outcome(H, K, s, lost)
    PROVE  Live' = (Live \ H) \cup K
<1>1. ASSUME NEW g \in Handles
      PROVE  g \in Live' <=> g \in (Live \ H) \cup K
  <2>1. CASE g \in H
    BY <2>1 DEF Outcome, Live
  <2>2. CASE g \notin H
    <3>1. list'[g] = list[g] /\ g \notin K
      BY <2>2 DEF Outcome, Keeps
    <3> QED
      BY <2>2, <3>1 DEF Live
  <2> QED
    BY <2>1, <2>2
<1>2. Live' \subseteq Handles /\ Live \subseteq Handles /\ K \subseteq Handles
  BY DEF Live, Outcome
<1> QED
  BY <1>1, <1>2

LEMMA OutcomeKeepsInv ==
    ASSUME ListInv, NEW H, NEW K, NEW s, NEW lost, Outcome(H, K, s, lost)
    PROVE  ListInv'
<1>1. Live' = (Live \ H) \cup K
  BY LiveAfter
<1>2. Keeps(H) /\ TypeOK' /\ ToSet(s) \subseteq NodesOf(H) \cup Fresh /\ \A g, h \in K : g = h
  BY DEF Outcome
<1>3. ASSUME NEW h \in Live'
      PROVE  IsList(node', list'[h], Chained(h)')
  <2>1. CASE h \in K
    BY <2>1, NewList
  <2>2. CASE h \in Live \ H
    BY <2>2, <1>2, OthersStay
  <2> QED
    BY <1>1, <2>1, <2>2
<1>4. ASSUME NEW g \in Live \ H, NEW h \in K
      PROVE  Linked(g)' \cap Linked(h)' = {}
  BY <1>2, OthersStay, NewList, OthersApart
<1>5. ASSUME NEW g \in Live', NEW h \in Live', g # h
      PROVE  Linked(g)' \cap Linked(h)' = {}
  <2>1. CASE g \in Live \ H /\ h \in Live \ H
    <3>1. Linked(g) \cap Linked(h) = {}
      BY <2>1, <1>5 DEF ListInv
    <3> QED
      BY <2>1, <3>1, <1>2, OthersStay
  <2>2. CASE g \in Live \ H /\ h \in K
    BY <2>2, <1>4
  <2>3. CASE g \in K /\ h \in Live \ H
    BY <2>3, <1>4
  <2>4. CASE g \in K /\ h \in K
    BY <2>4, <1>2, <1>5
  <2> QED
    BY <1>1, <2>1, <2>2, <2>3, <2>4
<1> QED
  BY <1>2, <1>3, <1>5 DEF ListInv

\* The call loses the nodes lost, and finds none of those lost before.
LEMMA LostAfter ==
    ASSUME ListInv, NEW H, NEW K, NEW s, NEW lost, Outcome(H, K, s, lost)
    PROVE  Lost' = Lost \cup lost
<1> DEFINE U == UNION {Linked(g) : g \in Live \ H}
           U2 == UNION {Linked(h)' : h \in Live'}
<1>1. /\ Live' = (Live \ H) \cup K /\ Keeps(H)
      /\ ToSet(s) \subseteq NodesOf(H) \cup Fresh
      /\ lost \subseteq (NodesOf(H) \cup Fresh) \ ToSet(s)
      /\ InUse' = (InUse \ NodesOf(H)) \cup ToSet(s) \cup lost
  BY LiveAfter DEF Outcome
<1>2. \A g \in Live \ H : Linked(g)' = Linked(g)
  BY <1>1, OthersStay
<1>3. U2 = U \cup ToSet(s)
  <2>1. CASE K = {}
    <3>1. s = <<>>
      BY <2>1 DEF Outcome
    <3>2. ToSet(s) = {}
      BY <3>1 DEF ToSet
    <3> QED
      BY <1>1, <1>2, <2>1, <3>2
  <2>2. CASE K # {}
    <3>1. \A h \in K : Linked(h)' = ToSet(s)
      BY NewList
    <3>2. U2 = U \cup UNION {Linked(h)' : h \in K}
      BY <1>1, <1>2
    <3>3. UNION {Linked(h)' : h \in K} = ToSet(s)
      BY <2>2, <3>1
    <3> QED
      BY <3>2, <3>3
  <2> QED
    BY <2>1, <2>2
<1>4. Lost' = InUse' \ U2
  BY DEF Lost
<1>5. UNION {Linked(h) : h \in Live} = U \cup NodesOf(H)
  BY DEF NodesOf
<1>6. Lost = InUse \ (U \cup NodesOf(H))
  BY <1>5 DEF Lost
<1>7. U \cap (NodesOf(H) \cup Fresh) = {}
  BY OthersApart
<1> DEFINE N == NodesOf(H)
           S == ToSet(s)
           before == InUse
           after == InUse'
           fresh == Fresh
<1>8. /\ lost \subseteq (N \cup fresh) \ S /\ after = (before \ N) \cup S \cup lost
      /\ S \subseteq N \cup fresh /\ before \cap fresh = {}
      /\ Lost' = after \ (U \cup S) /\ Lost = before \ (U \cup N) /\ U \cap (N \cup fresh) = {}
  BY <1>1, <1>3, <1>4, <1>6, <1>7 DEF Fresh
<1> HIDE DEF U, N, S, before, after, fresh
<1> QED
  BY <1>8

-----------------------------------------------------------------------------
(* Sequences with an element more or less, and positions in them.          *)

LEMMA InsertAtIs ==
    ASSUME NEW S, NEW s \in Seq(S), NEW p \in 1..(Len(s) + 1), NEW e \in S
    PROVE  /\ InsertAt(s, p, e) \in Seq(S)
           /\ Len(InsertAt(s, p, e)) = Len(s) + 1
           /\ \A i \in 1..(Len(s) + 1) :
                InsertAt(s, p, e)[i] = IF i < p THEN s[i]
                                       ELSE IF i = p THEN e ELSE s[i - 1]
<1> DEFINE a == SubSeq(s, 1, p - 1)
           b == <<e>>
           c == SubSeq(s, p, Len(s))
           n == Len(s)
<1>0. n \in Nat /\ p \in Int /\ 1 <= p /\ p <= n + 1 /\ (\A i \in 1..n : s[i] \in S)
  OBVIOUS
<1>1. /\ a \in Seq(S) /\ Len(a) = p - 1
      /\ \A i \in 1..(p - 1) : a[i] = s[i]
  <2> DEFINE m == p - 1
  <2>1. m \in Int /\ 0 <= m /\ m <= n
    BY <1>0
  <2> HIDE DEF m
  <2>2. \A i \in 1..m : s[i] \in S
    BY <2>1, <1>0
  <2>3. /\ SubSeq(s, 1, m) \in Seq(S) /\ Len(SubSeq(s, 1, m)) = IF 1 <= m THEN m - 1 + 1 ELSE 0
        /\ \A i \in 1..(m - 1 + 1) : SubSeq(s, 1, m)[i] = s[1 + i - 1]
    BY <2>1, <2>2, SubSeqProperties
  <2>4. m - 1 + 1 = m /\ \A i \in Int : 1 + i - 1 = i
    BY <2>1
  <2>5. a = SubSeq(s, 1, m) /\ p - 1 = m
    BY DEF m
  <2> HIDE DEF a
  <2> QED
    BY <2>1, <2>3, <2>4, <2>5
<1>2. /\ c \in Seq(S) /\ Len(c) = n - p + 1
      /\ \A i \in 1..(n - p + 1) : c[i] = s[p + i - 1]
  <2>1. \A i \in p..n : s[i] \in S
    BY <1>0
  <2>2. /\ SubSeq(s, p, n) \in Seq(S) /\ Len(SubSeq(s, p, n)) = IF p <= n THEN n - p + 1 ELSE 0
        /\ \A i \in 1..(n - p + 1) : SubSeq(s, p, n)[i] = s[p + i - 1]
    <3> HIDE DEF n
    <3> QED
      BY <1>0, <2>1, SubSeqProperties
  <2> QED
    BY <1>0, <2>2
<1>3. b \in Seq(S) /\ Len(b) = 1 /\ b[1] = e
  OBVIOUS
<1>4. InsertAt(s, p, e) = (a \o b) \o c
  BY DEF InsertAt
<1> DEFINE ab == a \o b
<1> HIDE DEF a, b, c, n
<1>5. /\ ab \in Seq(S) /\ Len(ab) = p
      /\ \A i \in 1..p : ab[i] = IF i < p THEN s[i] ELSE e
  <2>1. /\ ab \in Seq(S) /\ Len(ab) = Len(a) + Len(b)
        /\ \A i \in 1..(Len(a) + Len(b)) : ab[i] = IF i <= Len(a) THEN a[i] ELSE b[i - Len(a)]
    BY <1>1, <1>3, ConcatProperties
  <2>2. Len(a) + Len(b) = p
    BY <1>0, <1>1, <1>3
  <2>3. ASSUME NEW i \in 1..p
        PROVE  ab[i] = IF i < p THEN s[i] ELSE e
    <3>1. CASE i < p
      BY <3>1, <2>1, <2>2, <1>0, <1>1
    <3>2. CASE ~ (i < p)
      <4>1. i = p /\ i - Len(a) = 1 /\ ~ (i <= Len(a))
        BY <3>2, <1>0, <1>1
      <4> QED
        BY <4>1, <2>1, <2>2, <1>3
    <3> QED
      BY <3>1, <3>2
  <2> QED
    BY <2>1, <2>2, <2>3
<1> HIDE DEF ab
<1>6. /\ ab \o c \in Seq(S) /\ Len(ab \o c) = Len(ab) + Len(c)
      /\ \A i \in 1..(Len(ab) + Len(c)) :
            (ab \o c)[i] = IF i <= Len(ab) THEN ab[i] ELSE c[i - Len(ab)]
  BY <1>2, <1>5, ConcatProperties
<1>7. Len(ab) + Len(c) = n + 1
  BY <1>0, <1>2, <1>5
<1>8. ASSUME NEW i \in 1..(n + 1)
      PROVE  (ab \o c)[i] = IF i < p THEN s[i] ELSE IF i = p THEN e ELSE s[i - 1]
  <2>1. CASE i <= p
    BY <2>1, <1>0, <1>5, <1>6, <1>7
  <2>2. CASE ~ (i <= p)
    <3> DEFINE j == i - p
    <3>1. j \in 1..(n - p + 1) /\ p + j - 1 = i - 1 /\ ~ (i < p) /\ i # p
      BY <2>2, <1>0
    <3>2. (ab \o c)[i] = c[j]
      BY <2>2, <1>5, <1>6, <1>7
    <3> HIDE DEF j
    <3>3. c[j] = s[p + j - 1]
      BY <1>2, <3>1
    <3> QED
      BY <3>1, <3>2, <3>3
  <2> QED
    BY <2>1, <2>2
<1> QED
  BY <1>4, <1>6, <1>7, <1>8 DEF n, ab

\* The first elements of a sequence, and the last ones.
LEMMA PrefixIs ==
    ASSUME NEW S, NEW s \in Seq(S), NEW m \in 0..Len(s)
    PROVE  /\ SubSeq(s, 1, m) \in Seq(S) /\ Len(SubSeq(s, 1, m)) = m
           /\ \A i \in 1..m : SubSeq(s, 1, m)[i] = s[i]
<1>1. m \in Int /\ 0 <= m /\ m <= Len(s) /\ Len(s) \in Nat
  OBVIOUS
<1>2. \A i \in 1..m : s[i] \in S
  BY <1>1
<1>3. /\ SubSeq(s, 1, m) \in Seq(S) /\ Len(SubSeq(s, 1, m)) = IF 1 <= m THEN m - 1 + 1 ELSE 0
      /\ \A i \in 1..(m - 1 + 1) : SubSeq(s, 1, m)[i] = s[1 + i - 1]
  BY <1>1, <1>2, SubSeqProperties
<1>4. m - 1 + 1 = m /\ \A i \in Int : 1 + i - 1 = i
  BY <1>1
<1> QED
  BY <1>1, <1>3, <1>4

LEMMA SuffixIs ==
    ASSUME NEW S, NEW s \in Seq(S), NEW k \in 1..(Len(s) + 1)
    PROVE  /\ SubSeq(s, k, Len(s)) \in Seq(S) /\ Len(SubSeq(s, k, Len(s))) = Len(s) + 1 - k
           /\ \A i \in 1..(Len(s) + 1 - k) : SubSeq(s, k, Len(s))[i] = s[k + i - 1]
<1> DEFINE n == Len(s)
<1>1. k \in Int /\ n \in Nat /\ 1 <= k /\ k <= n + 1
  OBVIOUS
<1>2. \A i \in k..n : s[i] \in S
  BY <1>1
<1>3. /\ SubSeq(s, k, n) \in Seq(S) /\ Len(SubSeq(s, k, n)) = IF k <= n THEN n - k + 1 ELSE 0
      /\ \A i \in 1..(n - k + 1) : SubSeq(s, k, n)[i] = s[k + i - 1]
  <2> HIDE DEF n
  <2> QED
    BY <1>1, <1>2, SubSeqProperties
<1>4. n - k + 1 = n + 1 - k /\ (~ (k <= n) => n + 1 - k = 0)
  BY <1>1
<1> HIDE DEF n
<1>5. /\ SubSeq(s, k, n) \in Seq(S) /\ Len(SubSeq(s, k, n)) = n + 1 - k
      /\ \A i \in 1..(n + 1 - k) : SubSeq(s, k, n)[i] = s[k + i - 1]
  BY <1>3, <1>4
<1> QED
  BY <1>5 DEF n

LEMMA RemoveAtIs ==
    ASSUME NEW S, NEW s \in Seq(S), NEW p \in 1..Len(s)
    PROVE  /\ RemoveAt(s, p) \in Seq(S)
           /\ Len(RemoveAt(s, p)) = Len(s) - 1
           /\ \A i \in 1..(Len(s) - 1) :
                RemoveAt(s, p)[i] = IF i < p THEN s[i] ELSE s[i + 1]
<1> DEFINE a == SubSeq(s, 1, p - 1)
           c == SubSeq(s, p + 1, Len(s))
           n == Len(s)
           k == p + 1
           m == p - 1
<1>0. /\ n \in Nat /\ p \in Int /\ 1 <= p /\ p <= n
      /\ m \in 0..n /\ k \in 1..(n + 1)
  OBVIOUS
<1>1. /\ SubSeq(s, 1, m) \in Seq(S) /\ Len(SubSeq(s, 1, m)) = m
      /\ \A i \in 1..m : SubSeq(s, 1, m)[i] = s[i]
  <2> HIDE DEF m
  <2> QED
    BY <1>0, PrefixIs
<1>2. /\ SubSeq(s, k, n) \in Seq(S) /\ Len(SubSeq(s, k, n)) = n + 1 - k
      /\ \A i \in 1..(n + 1 - k) : SubSeq(s, k, n)[i] = s[k + i - 1]
  <2> HIDE DEF k
  <2> QED
    BY <1>0, SuffixIs
<1>3. RemoveAt(s, p) = a \o c
  BY DEF RemoveAt
<1>4. /\ a \in Seq(S) /\ Len(a) = p - 1 /\ \A i \in 1..(p - 1) : a[i] = s[i]
  BY <1>1
<1>5. /\ c \in Seq(S) /\ Len(c) = n - p /\ \A i \in 1..(n - p) : c[i] = s[p + i]
  <2>1. n + 1 - k = n - p /\ \A i \in Int : k + i - 1 = p + i
    BY <1>0
  <2> QED
    BY <1>2, <2>1
<1> HIDE DEF a, c, n, k, m
<1>6. /\ a \o c \in Seq(S) /\ Len(a \o c) = Len(a) + Len(c)
      /\ \A i \in 1..(Len(a) + Len(c)) :
            (a \o c)[i] = IF i <= Len(a) THEN a[i] ELSE c[i - Len(a)]
  BY <1>4, <1>5, ConcatProperties
<1>7. Len(a) + Len(c) = n - 1
  BY <1>0, <1>4, <1>5
<1>8. ASSUME NEW i \in 1..(n - 1)
      PROVE  (a \o c)[i] = IF i < p THEN s[i] ELSE s[i + 1]
  <2>1. CASE i < p
    <3>1. i \in 1..(p - 1) /\ i <= Len(a)
      BY <2>1, <1>0, <1>4
    <3> QED
      BY <2>1, <3>1, <1>4, <1>6, <1>7
  <2>2. CASE ~ (i < p)
    <3> DEFINE j == i - Len(a)
    <3>1. j \in 1..(n - p) /\ p + j = i + 1 /\ ~ (i <= Len(a))
      BY <2>2, <1>0, <1>4
    <3>2. (a \o c)[i] = c[j]
      BY <3>1, <1>6, <1>7
    <3> HIDE DEF j
    <3>3. c[j] = s[p + j]
      BY <1>5, <3>1
    <3> QED
      BY <2>2, <3>1, <3>2, <3>3
  <2> QED
    BY <2>1, <2>2
<1> QED
  BY <1>3, <1>6, <1>7, <1>8 DEF n

\* All but the last element are what is left when that is removed.
LEMMA FrontIs ==
    ASSUME NEW S, NEW s \in Seq(S), s # <<>>
    PROVE  Front(s) = RemoveAt(s, Len(s)) /\ Last(s) = s[Len(s)]
<1> DEFINE m == Len(s) - 1
           p == Len(s)
<1>1. p \in 1..Len(s) /\ m \in 0..Len(s)
  OBVIOUS
<1>2. /\ RemoveAt(s, p) \in Seq(S) /\ Len(RemoveAt(s, p)) = Len(s) - 1
      /\ \A i \in 1..(Len(s) - 1) : RemoveAt(s, p)[i] = IF i < p THEN s[i] ELSE s[i + 1]
  <2> HIDE DEF p
  <2> QED
    BY <1>1, RemoveAtIs
<1>3. /\ SubSeq(s, 1, m) \in Seq(S) /\ Len(SubSeq(s, 1, m)) = m
      /\ \A i \in 1..m : SubSeq(s, 1, m)[i] = s[i]
  <2> HIDE DEF m
  <2> QED
    BY <1>1, PrefixIs
<1>4. \A i \in 1..m : RemoveAt(s, p)[i] = SubSeq(s, 1, m)[i]
  BY <1>1, <1>2, <1>3
<1> DEFINE a == RemoveAt(s, p)
           b == SubSeq(s, 1, m)
<1>5. a \in Seq(S) /\ b \in Seq(S) /\ Len(a) = Len(b) /\ \A i \in 1..Len(a) : a[i] = b[i]
  BY <1>2, <1>3, <1>4
<1>6. a = b
  <2> HIDE DEF a, b
  <2> QED
    BY <1>5, SeqEqual
<1> QED
  BY <1>6 DEF Front, Last

\* The items stored in a sequence of nodes.
LEMMA StoredIs ==
    ASSUME NEW nd \in [Nodes -> InternalNode], NEW s \in Seq(Nodes)
    PROVE  /\ Stored(nd, s) \in Seq(Items \cup {NULL}) /\ Len(Stored(nd, s)) = Len(s)
           /\ \A i \in 1..Len(s) : Stored(nd, s)[i] = nd[s[i]].item
<1> DEFINE n == Len(s)
           f == Stored(nd, s)
<1>1. n \in Nat /\ \A i \in 1..n : nd[s[i]].item \in Items \cup {NULL}
  BY DEF InternalNode
<1>2. f \in [1..n -> Items \cup {NULL}] /\ \A i \in 1..n : f[i] = nd[s[i]].item
  BY <1>1 DEF Stored
<1> HIDE DEF f, n
<1>3. f \in Seq(Items \cup {NULL}) /\ Len(f) = n
  BY <1>1, <1>2
<1> QED
  BY <1>2, <1>3 DEF f, n

\* Where a node is in a sequence of different nodes.
LEMMA PositionIs ==
    ASSUME NEW s \in Seq(Nodes), \A i, j \in 1..Len(s) : s[i] = s[j] => i = j
    PROVE  /\ \A k \in 1..Len(s) : Position(s, s[k]) = k
           /\ \A e : e \notin ToSet(s) => Position(s, e) = 0
           /\ Position(s, NULL) = 0
<1>1. ASSUME NEW k \in 1..Len(s)
      PROVE  Position(s, s[k]) = k
  <2> DEFINE I == {i \in 1..Len(s) : s[i] = s[k]}
  <2>1. I = {k}
    OBVIOUS
  <2>2. Position(s, s[k]) = IF I # {} THEN Min(I) ELSE 0
    BY DEF Position, SelectInSeq
  <2> HIDE DEF I
  <2>3. Min(I) = k
    BY <2>1 DEF Min
  <2> QED
    BY <2>1, <2>2, <2>3
<1>2. ASSUME NEW e, e \notin ToSet(s)
      PROVE  Position(s, e) = 0
  <2> DEFINE I == {i \in 1..Len(s) : s[i] = e}
  <2>1. DOMAIN s = 1..Len(s)
    OBVIOUS
  <2>2. I = {}
    BY <1>2, <2>1 DEF ToSet
  <2>3. Position(s, e) = IF I # {} THEN Min(I) ELSE 0
    BY DEF Position, SelectInSeq
  <2> QED
    BY <2>2, <2>3
<1>3. NULL \notin ToSet(s)
  BY NullIsNothing DEF ToSet
<1> QED
  BY <1>1, <1>2, <1>3

-----------------------------------------------------------------------------
(* A node is put into a list.                                              *)

\* What nd2 has for a node of nd, when the next link of a and the prev link
\* of b were set to n and m.
Relinked(nd, k, a, n, b, m) ==
    [in_use |-> nd[k].in_use, item |-> nd[k].item,
     next |-> IF k = a THEN n ELSE nd[k].next,
     prev |-> IF k = b THEN m ELSE nd[k].prev]

\* nd2 is nd with a new node n for x between a and b.
Inserted(nd, nd2, n, x, a, b) ==
    /\ nd \in [Nodes -> InternalNode] /\ nd2 \in [Nodes -> InternalNode]
    /\ nd2[n] = NewNode(x, b, a)
    /\ \A k \in Nodes \ {n} : nd2[k] = Relinked(nd, k, a, n, b, n)

\* l2 is l with the new node n, in front or at the end if so said.
Lengthened(l, l2, n, front, end) ==
    /\ l2.size = l.size + 1 /\ l2.cursor = n
    /\ l2.head = IF front THEN n ELSE l.head
    /\ l2.tail = IF end THEN n ELSE l.tail

\* A node that is not one of a and b is as before.
LEMMA RelinkedElsewhere ==
    ASSUME NEW nd \in [Nodes -> InternalNode], NEW k \in Nodes,
           NEW a, NEW n, NEW b, NEW m, k # a, k # b
    PROVE  Relinked(nd, k, a, n, b, m) = nd[k]
<1>1. nd[k] \in InternalNode
  OBVIOUS
<1>2. nd[k] = [in_use |-> nd[k].in_use, item |-> nd[k].item,
               next |-> nd[k].next, prev |-> nd[k].prev]
  BY <1>1 DEF InternalNode
<1> QED
  BY <1>2 DEF Relinked

LEMMA InsertedWalk ==
    ASSUME NEW nd, NEW nd2, NEW l, NEW l2, NEW s, NEW x \in Items,
           IsList(nd, l, s), NEW p \in 1..(Len(s) + 1), NEW n \in Nodes \ ToSet(s),
           Inserted(nd, nd2, n, x, Nth(s, p - 1), Nth(s, p)),
           Lengthened(l, l2, n, p = 1, p = Len(s) + 1)
    PROVE  IsList(nd2, l2, InsertAt(s, p, n))
<1> DEFINE t == InsertAt(s, p, n)
           N == Len(s)
           a == Nth(s, p - 1)
           b == Nth(s, p)
<1>1. /\ s \in Seq(Nodes) /\ N \in Nat /\ ToSet(s) = {s[i] : i \in 1..N}
      /\ \A i \in 1..N : s[i] \in Nodes
      /\ \A i, j \in 1..N : s[i] = s[j] => i = j
  BY ChainOfList
<1>2. /\ t \in Seq(Nodes) /\ Len(t) = N + 1
      /\ \A i \in 1..(N + 1) : t[i] = IF i < p THEN s[i] ELSE IF i = p THEN n ELSE s[i - 1]
  BY <1>1, InsertAtIs
<1>3. p \in Nat /\ 1 <= p /\ p <= N + 1
  BY <1>1
<1>4. \A i \in 1..N : s[i] # n /\ s[i] # NULL
  BY <1>1, NullIsNothing
<1>5. /\ nd2[n] = NewNode(x, b, a)
      /\ \A i \in 1..N : nd2[s[i]] = Relinked(nd, s[i], a, n, b, n)
  BY <1>1, <1>4 DEF Inserted
<1>6. \A i \in 1..N : /\ nd[s[i]].in_use
                      /\ nd[s[i]].next = Nth(s, i + 1)
                      /\ nd[s[i]].prev = Nth(s, i - 1)
  BY DEF IsList, IsWalk
<1>7. /\ l.head = Nth(s, 1) /\ l.tail = Nth(s, N) /\ l.size = N
  BY DEF IsList, IsWalk
<1>8. \A i \in 1..N : (s[i] = a <=> i = p - 1) /\ (s[i] = b <=> i = p)
  BY <1>1, <1>3, <1>4 DEF Nth
<1>9. \A i \in 1..N : /\ nd2[s[i]].in_use
                      /\ nd2[s[i]].next = IF i = p - 1 THEN n ELSE Nth(s, i + 1)
                      /\ nd2[s[i]].prev = IF i = p THEN n ELSE Nth(s, i - 1)
  <2> HIDE DEF a, b, N
  <2>1. ASSUME NEW i \in 1..N
        PROVE  /\ nd2[s[i]].in_use
               /\ nd2[s[i]].next = IF i = p - 1 THEN n ELSE Nth(s, i + 1)
               /\ nd2[s[i]].prev = IF i = p THEN n ELSE Nth(s, i - 1)
    <3>1. nd2[s[i]] = [in_use |-> nd[s[i]].in_use, item |-> nd[s[i]].item,
                       next |-> IF s[i] = a THEN n ELSE nd[s[i]].next,
                       prev |-> IF s[i] = b THEN n ELSE nd[s[i]].prev]
      BY <1>5 DEF Relinked
    <3>2. nd[s[i]].in_use /\ nd[s[i]].next = Nth(s, i + 1) /\ nd[s[i]].prev = Nth(s, i - 1)
      BY <1>6
    <3>3. (s[i] = a <=> i = p - 1) /\ (s[i] = b <=> i = p)
      BY <1>8
    <3>4. /\ nd2[s[i]].in_use
          /\ nd2[s[i]].next = IF s[i] = a THEN n ELSE Nth(s, i + 1)
          /\ nd2[s[i]].prev = IF s[i] = b THEN n ELSE Nth(s, i - 1)
      BY <3>1, <3>2
    <3> QED
      BY <3>3, <3>4
  <2> QED
    BY <2>1
<1>10. nd2[n].in_use /\ nd2[n].next = b /\ nd2[n].prev = a
  BY <1>5 DEF NewNode
<1> HIDE DEF t, N
<1>11. ASSUME NEW i \in 1..(N + 1), NEW j \in 1..(N + 1), t[i] = t[j]
       PROVE  i = j
  <2>1. i \in Int /\ j \in Int /\ 1 <= i /\ 1 <= j /\ i <= N + 1 /\ j <= N + 1
    BY <1>1
  <2>2. /\ t[i] = IF i < p THEN s[i] ELSE IF i = p THEN n ELSE s[i - 1]
        /\ t[j] = IF j < p THEN s[j] ELSE IF j = p THEN n ELSE s[j - 1]
    BY <1>2
  <2>3. /\ i < p => i \in 1..N
        /\ i > p => i - 1 \in 1..N
        /\ j < p => j \in 1..N
        /\ j > p => j - 1 \in 1..N
    BY <2>1, <1>1, <1>3
  <2>4. CASE i = p \/ j = p
    BY <2>1, <2>2, <2>3, <2>4, <1>3, <1>4, <1>11
  <2>5. CASE i < p /\ j < p
    BY <2>2, <2>3, <2>5, <1>1, <1>11
  <2>6. CASE i < p /\ j > p
    <3>1. i = j - 1
      BY <2>1, <2>2, <2>3, <2>6, <1>1, <1>3, <1>11
    <3> QED
      BY <3>1, <2>1, <2>6, <1>3
  <2>7. CASE i > p /\ j < p
    <3>1. i - 1 = j
      BY <2>1, <2>2, <2>3, <2>7, <1>1, <1>3, <1>11
    <3> QED
      BY <3>1, <2>1, <2>7, <1>3
  <2>8. CASE i > p /\ j > p
    <3>1. i - 1 = j - 1
      BY <2>1, <2>2, <2>3, <2>8, <1>1, <1>3, <1>11
    <3> QED
      BY <3>1, <2>1
  <2> QED
    BY <2>1, <2>4, <2>5, <2>6, <2>7, <2>8, <1>3
<1>12. /\ \A i \in Int : i < p => Nth(t, i) = Nth(s, i)
       /\ Nth(t, p) = n
       /\ \A i \in Int : i > p => Nth(t, i) = Nth(s, i - 1)
  <2>1. ASSUME NEW i \in Int, i < p
        PROVE  Nth(t, i) = Nth(s, i)
    <3>1. i \in 1..Len(t) <=> i \in 1..Len(s)
      BY <2>1, <1>1, <1>2, <1>3 DEF N
    <3>2. i \in 1..Len(t) => t[i] = s[i]
      BY <2>1, <1>2
    <3> QED
      BY <3>1, <3>2 DEF Nth
  <2>2. Nth(t, p) = n
    BY <1>2, <1>3 DEF Nth
  <2>3. ASSUME NEW i \in Int, i > p
        PROVE  Nth(t, i) = Nth(s, i - 1)
    <3>1. i \in 1..Len(t) <=> i - 1 \in 1..Len(s)
      BY <2>3, <1>1, <1>2, <1>3 DEF N
    <3>2. i \in 1..Len(t) => t[i] = s[i - 1]
      BY <2>3, <1>2, <1>3
    <3> QED
      BY <3>1, <3>2 DEF Nth
  <2> QED
    BY <2>1, <2>2, <2>3
<1>13. ASSUME NEW i \in 1..(N + 1)
       PROVE  /\ nd2[t[i]].in_use
              /\ nd2[t[i]].next = Nth(t, i + 1)
              /\ nd2[t[i]].prev = Nth(t, i - 1)
  <2>0. i \in Int /\ i + 1 \in Int /\ i - 1 \in Int /\ 1 <= i /\ i <= N + 1
    BY <1>1
  <2>1. CASE i < p
    <3>1. t[i] = s[i] /\ i \in 1..N /\ i # p
      BY <2>1, <1>1, <1>2, <1>3
    <3>2. Nth(t, i - 1) = Nth(s, i - 1)
      BY <2>0, <2>1, <1>3, <1>12
    <3>3. CASE i = p - 1
      <4>1. i + 1 = p
        BY <3>3, <1>3
      <4> QED
        BY <3>1, <3>2, <3>3, <4>1, <1>9, <1>12
    <3>4. CASE i # p - 1
      <4>1. i + 1 < p
        BY <3>4, <2>0, <2>1, <1>3
      <4> QED
        BY <3>1, <3>2, <3>4, <4>1, <2>0, <1>9, <1>12
    <3> QED
      BY <3>3, <3>4
  <2>2. CASE i = p
    <3>1. Nth(t, i - 1) = a /\ Nth(t, i + 1) = b
      <4>1. i - 1 < p /\ i + 1 > p /\ (i + 1) - 1 = p
        BY <2>0, <2>2
      <4> QED
        BY <4>1, <2>0, <2>2, <1>12
    <3>2. t[i] = n
      BY <2>2, <1>2
    <3> QED
      BY <3>1, <3>2, <1>10
  <2>3. CASE i > p
    <3> DEFINE k == i - 1
    <3>1. t[i] = s[k] /\ k \in 1..N /\ k # p - 1 /\ k + 1 = i /\ k \in Int /\ k - 1 = i - 2
      BY <2>0, <2>3, <1>1, <1>2, <1>3
    <3>2. Nth(t, i + 1) = Nth(s, k + 1)
      <4>1. i + 1 > p /\ (i + 1) - 1 = k + 1
        BY <2>0, <2>3, <1>3
      <4> QED
        BY <4>1, <2>0, <1>12
    <3>3. CASE k = p
      BY <3>1, <3>2, <3>3, <1>9, <1>12
    <3>4. CASE k # p
      <4>1. k > p
        BY <3>4, <2>0, <2>3, <1>3
      <4>2. Nth(t, k) = Nth(s, k - 1)
        BY <4>1, <3>1, <1>12
      <4> HIDE DEF k
      <4>3. nd2[s[k]].in_use /\ nd2[s[k]].next = Nth(s, k + 1) /\ nd2[s[k]].prev = Nth(s, k - 1)
        BY <3>1, <3>4, <1>9
      <4>4. nd2[t[i]].in_use /\ nd2[t[i]].next = Nth(t, i + 1) /\ nd2[t[i]].prev = Nth(t, k)
        BY <4>2, <4>3, <3>1, <3>2
      <4> QED
        BY <4>4 DEF k
    <3> QED
      BY <3>3, <3>4
  <2> QED
    BY <2>0, <2>1, <2>2, <2>3, <1>3
<1>14. l2.head = Nth(t, 1)
  <2>1. CASE p = 1
    BY <2>1, <1>12 DEF Lengthened
  <2>2. CASE p # 1
    BY <2>2, <1>3, <1>7, <1>12 DEF Lengthened
  <2> QED
    BY <2>1, <2>2
<1>15. l2.tail = Nth(t, N + 1)
  <2>1. CASE p = N + 1
    BY <2>1, <1>12 DEF Lengthened, N
  <2>2. CASE p # N + 1
    <3>1. N + 1 > p /\ N + 1 \in Int /\ (N + 1) - 1 = N
      BY <2>2, <1>1, <1>3
    <3>2. Nth(t, N + 1) = Nth(s, N)
      BY <3>1, <1>12
    <3> QED
      BY <2>2, <3>2, <1>7 DEF Lengthened, N
  <2> QED
    BY <2>1, <2>2
<1>16. l2.size = N + 1 /\ l2.cursor \in ToSet(t)
  <2>1. p \in DOMAIN t /\ t[p] = n
    BY <1>1, <1>2, <1>3
  <2> QED
    BY <2>1, <1>7 DEF Lengthened, ToSet
<1>17. IsWalk(nd2, l2.head, t)
  BY <1>2, <1>11, <1>13, <1>14 DEF IsWalk
<1> QED
  BY <1>2, <1>13, <1>15, <1>16, <1>17 DEF IsList, t

\* Positions that have no element have none of the other nodes either.
LEMMA NthIs ==
    ASSUME NEW s \in Seq(Nodes), NEW i \in Int
    PROVE  /\ Nth(s, i) \in ToSet(s) \cup {NULL}
           /\ \A k \in Nodes \ ToSet(s) : k # Nth(s, i)
<1>1. DOMAIN s = 1..Len(s)
  OBVIOUS
<1>2. Nth(s, i) \in ToSet(s) \cup {NULL}
  BY <1>1 DEF Nth, ToSet
<1> QED
  BY <1>2, NullIsNothing

LEMMA InsertedItems ==
    ASSUME NEW nd, NEW nd2, NEW l, NEW s, NEW x \in Items,
           IsList(nd, l, s), NEW p \in 1..(Len(s) + 1), NEW n \in Nodes \ ToSet(s),
           Inserted(nd, nd2, n, x, Nth(s, p - 1), Nth(s, p))
    PROVE  /\ Stored(nd2, InsertAt(s, p, n)) = InsertAt(Stored(nd, s), p, x)
           /\ Position(InsertAt(s, p, n), n) = p
           /\ ToSet(InsertAt(s, p, n)) = ToSet(s) \cup {n}
           /\ \A k \in Nodes \ (ToSet(s) \cup {n}) : nd2[k] = nd[k]
           /\ \A k \in ToSet(s) : nd2[k].in_use = nd[k].in_use
           /\ nd2[n].in_use
<1> DEFINE t == InsertAt(s, p, n)
           N == Len(s)
           a == Nth(s, p - 1)
           b == Nth(s, p)
           I == Items \cup {NULL}
<1>1. /\ s \in Seq(Nodes) /\ N \in Nat /\ ToSet(s) = {s[i] : i \in 1..N}
      /\ \A i \in 1..N : s[i] \in Nodes
      /\ \A i, j \in 1..N : s[i] = s[j] => i = j
  BY ChainOfList
<1>2. /\ t \in Seq(Nodes) /\ Len(t) = N + 1
      /\ \A i \in 1..(N + 1) : t[i] = IF i < p THEN s[i] ELSE IF i = p THEN n ELSE s[i - 1]
  BY <1>1, InsertAtIs
<1>3. p \in Nat /\ 1 <= p /\ p <= N + 1
  BY <1>1
<1>4. /\ nd \in [Nodes -> InternalNode] /\ nd2 \in [Nodes -> InternalNode]
      /\ nd2[n] = NewNode(x, b, a)
      /\ \A k \in Nodes \ {n} : nd2[k] = Relinked(nd, k, a, n, b, n)
  BY DEF Inserted
<1>5. \A i \in 1..N : s[i] # n /\ s[i] \in Nodes
  BY <1>1
<1>6. \A i \in 1..N : nd2[s[i]].item = nd[s[i]].item
  BY <1>4, <1>5 DEF Relinked
<1>7. nd2[n].item = x /\ nd2[n].in_use
  BY <1>4 DEF NewNode
<1> HIDE DEF t, N
<1>8. /\ Stored(nd, s) \in Seq(I) /\ Len(Stored(nd, s)) = N
      /\ \A i \in 1..N : Stored(nd, s)[i] = nd[s[i]].item
  BY <1>1, <1>4, StoredIs DEF N
<1>9. /\ Stored(nd2, t) \in Seq(I) /\ Len(Stored(nd2, t)) = N + 1
      /\ \A i \in 1..(N + 1) : Stored(nd2, t)[i] = nd2[t[i]].item
  BY <1>2, <1>4, StoredIs
<1>10. Stored(nd2, t) = InsertAt(Stored(nd, s), p, x)
  <2> DEFINE u == Stored(nd, s)
             v == InsertAt(u, p, x)
             w == Stored(nd2, t)
  <2>1. x \in I /\ u \in Seq(I) /\ Len(u) = N /\ p \in 1..(Len(u) + 1)
    BY <1>3, <1>8
  <2> HIDE DEF u, I, w
  <2>2. /\ v \in Seq(I) /\ Len(v) = Len(u) + 1
        /\ \A i \in 1..(Len(u) + 1) : v[i] = IF i < p THEN u[i] ELSE IF i = p THEN x ELSE u[i - 1]
    <3>1. x \in I /\ u \in Seq(I) /\ p \in 1..(Len(u) + 1)
      BY <2>1
    <3> QED
      BY <3>1, InsertAtIs
  <2> HIDE DEF v
  <2>3. ASSUME NEW i \in 1..(N + 1)
        PROVE  w[i] = v[i]
    <3>1. w[i] = nd2[t[i]].item
      BY <1>9 DEF w
    <3>2. v[i] = IF i < p THEN u[i] ELSE IF i = p THEN x ELSE u[i - 1]
      BY <2>1, <2>2
    <3>3. t[i] = IF i < p THEN s[i] ELSE IF i = p THEN n ELSE s[i - 1]
      BY <1>2
    <3>4. CASE i < p
      <4>1. i \in 1..N
        BY <3>4, <1>1, <1>3
      <4> QED
        BY <3>1, <3>2, <3>3, <3>4, <4>1, <1>6, <1>8 DEF u
    <3>5. CASE i = p
      BY <3>1, <3>2, <3>3, <3>5, <1>3, <1>7
    <3>6. CASE i > p
      <4> DEFINE j == i - 1
      <4>1. j \in 1..N /\ ~ (i < p) /\ i # p
        BY <3>6, <1>1, <1>3
      <4>2. t[i] = s[j] /\ v[i] = u[j]
        BY <3>2, <3>3, <4>1
      <4> HIDE DEF j
      <4> QED
        BY <3>1, <4>1, <4>2, <1>6, <1>8 DEF u
    <3> QED
      BY <3>4, <3>5, <3>6, <1>1, <1>3
  <2>4. w \in Seq(I) /\ Len(w) = N + 1
    BY <1>9 DEF w, I
  <2>5. w = v
    BY <2>1, <2>2, <2>3, <2>4, SeqEqual
  <2> QED
    BY <2>5 DEF v, w, u
<1>11. p \in 1..Len(t) /\ t[p] = n
  BY <1>1, <1>2, <1>3
<1>12. IsList(nd2, [size |-> N + 1, cursor |-> n, head |-> IF p = 1 THEN n ELSE l.head,
                    tail |-> IF p = N + 1 THEN n ELSE l.tail], t)
  <2> DEFINE l2 == [size |-> N + 1, cursor |-> n, head |-> IF p = 1 THEN n ELSE l.head,
                    tail |-> IF p = N + 1 THEN n ELSE l.tail]
  <2>1. l.size = N
    BY DEF IsList, N
  <2>2. Lengthened(l, l2, n, p = 1, p = Len(s) + 1)
    BY <2>1 DEF Lengthened, N
  <2> HIDE DEF l2
  <2>3. IsList(nd2, l2, InsertAt(s, p, n))
    BY <2>2, InsertedWalk
  <2> QED
    BY <2>3 DEF l2, t
<1>13. \A i, j \in 1..Len(t) : t[i] = t[j] => i = j
  BY <1>12, ChainOfList
<1>14. Position(t, n) = p
  BY <1>2, <1>11, <1>13, PositionIs
<1>15. ToSet(t) = ToSet(s) \cup {n}
  <2>1. ToSet(t) = {t[i] : i \in 1..(N + 1)}
    BY <1>2 DEF ToSet
  <2>2. \A i \in 1..(N + 1) : t[i] \in ToSet(s) \cup {n}
    <3>1. \A i \in 1..(N + 1) : (i < p => i \in 1..N) /\ (i > p => i - 1 \in 1..N)
      BY <1>1, <1>3
    <3> QED
      BY <3>1, <1>1, <1>2, <1>3
  <2>3. n \in ToSet(t)
    BY <2>1, <1>2, <1>11
  <2>4. ASSUME NEW i \in 1..N
        PROVE  s[i] \in ToSet(t)
    <3>1. CASE i < p
      <4>1. i \in 1..(N + 1) /\ t[i] = s[i]
        BY <3>1, <1>1, <1>2
      <4> QED
        BY <4>1, <2>1
    <3>2. CASE ~ (i < p)
      <4> DEFINE j == i + 1
      <4>1. j \in 1..(N + 1) /\ ~ (j < p) /\ j # p /\ j - 1 = i
        BY <3>2, <1>1, <1>3
      <4> HIDE DEF j
      <4>2. t[j] = s[i]
        BY <4>1, <1>2
      <4> QED
        BY <4>1, <4>2, <2>1
    <3> QED
      BY <3>1, <3>2
  <2> DEFINE S == ToSet(s)
             T == ToSet(t)
  <2>5. S = {s[i] : i \in 1..N}
    BY <1>1
  <2> HIDE DEF t, N
  <2>6. T \subseteq S \cup {n}
    BY <2>1, <2>2
  <2>7. S \subseteq T
    <3> HIDE DEF T
    <3> QED
      BY <2>4, <2>5 DEF T
  <2> HIDE DEF S, T
  <2>8. T = S \cup {n}
    BY <2>3, <2>6, <2>7 DEF T
  <2> QED
    BY <2>8 DEF S, T
<1>16. ASSUME NEW k \in Nodes \ (ToSet(s) \cup {n})
       PROVE  nd2[k] = nd[k]
  <2>1. p - 1 \in Int /\ p \in Int
    BY <1>3
  <2>2. k # a /\ k # b
    BY <1>1, <2>1, NthIs
  <2> HIDE DEF a, b
  <2>3. nd2[k] = Relinked(nd, k, a, n, b, n)
    BY <1>4
  <2> QED
    BY <1>4, <2>2, <2>3, RelinkedElsewhere
<1>17. ASSUME NEW k \in ToSet(s)
       PROVE  nd2[k].in_use = nd[k].in_use
  BY <1>1, <1>4, <1>17 DEF Relinked
<1> QED
  BY <1>7, <1>10, <1>14, <1>15, <1>16, <1>17 DEF t

-----------------------------------------------------------------------------
(* Calls that change one list.                                             *)

\* No other list changes, and no node in use that is not of list h.
Touches(h) ==
    /\ \A g \in Handles \ {h} : list'[g] = list[g]
    /\ \A m \in InUse \ Linked(h) : node'[m] = node[m]

LEMMA TouchesKeeps ==
    ASSUME ListInv, NEW h \in Live, Touches(h)
    PROVE  Keeps({h}) /\ NodesOf({h}) = Linked(h)
<1>1. NodesOf({h}) = Linked(h)
  BY DEF NodesOf
<1>2. ASSUME NEW g \in Handles \ {h}, g \in Live, NEW m \in Linked(g)
      PROVE  node'[m] = node[m]
  <2>1. m \in InUse
    BY <1>2, LiveList
  <2>2. m \notin Linked(h)
    BY <1>2 DEF ListInv
  <2> QED
    BY <2>1, <2>2 DEF Touches
<1> QED
  BY <1>1, <1>2 DEF Keeps, Touches

LEMMA OneListOutcome ==
    ASSUME ListInv, NEW h \in Live, TypeOK', Touches(h), list'[h].in_use,
           NEW s, IsList(node', list'[h], s), ToSet(s) \subseteq Linked(h) \cup Fresh,
           NEW lost, lost \subseteq (Linked(h) \cup Fresh) \ ToSet(s),
           InUse' = (InUse \ Linked(h)) \cup ToSet(s) \cup lost
    PROVE  Outcome({h}, {h}, s, lost)
<1>1. Keeps({h}) /\ NodesOf({h}) = Linked(h)
  BY TouchesKeeps
<1>2. h \in Handles
  BY DEF Live
<1> QED
  BY <1>1, <1>2 DEF Outcome

\* The call puts a new node n for x into list h, at position p.
Adds(h, p, n, x) ==
    /\ p \in 1..(Len(Chained(h)) + 1) /\ n \in Fresh /\ x \in Items
    /\ Inserted(node, node', n, x, Nth(Chained(h), p - 1), Nth(Chained(h), p))
    /\ list' \in [Handles -> InternalList]
    /\ \A g \in Handles \ {h} : list'[g] = list[g]
    /\ list'[h].in_use
    /\ Lengthened(list[h], list'[h], n, p = 1, p = Len(Chained(h)) + 1)
    /\ crashed' = crashed

LEMMA AddsOutcome ==
    ASSUME ListInv, NEW h \in Live, NEW p, NEW n, NEW x, Adds(h, p, n, x)
    PROVE  /\ Outcome({h}, {h}, InsertAt(Chained(h), p, n), {})
           /\ Contents(h)' = [items |-> InsertAt(Contents(h).items, p, x), cur |-> p]
<1> DEFINE s == Chained(h)
           t == InsertAt(s, p, n)
           l == list[h]
           l2 == list'[h]
           nd == node
           nd2 == node'
<1>1. /\ h \in Handles /\ IsList(nd, l, s) /\ Linked(h) = ToSet(s) /\ Linked(h) \subseteq InUse
  BY LiveList DEF Linked
<1>2. /\ p \in 1..(Len(s) + 1) /\ n \in Nodes \ ToSet(s) /\ x \in Items /\ n \notin InUse
      /\ Inserted(nd, nd2, n, x, Nth(s, p - 1), Nth(s, p))
      /\ Lengthened(l, l2, n, p = 1, p = Len(s) + 1)
  BY <1>1 DEF Adds, Fresh
<1> HIDE DEF s, l, l2, nd, nd2
<1>3. IsList(nd2, l2, t)
  BY <1>1, <1>2, InsertedWalk
<1>4. /\ Stored(nd2, t) = InsertAt(Stored(nd, s), p, x)
      /\ Position(t, n) = p
      /\ ToSet(t) = ToSet(s) \cup {n}
      /\ \A k \in Nodes \ (ToSet(s) \cup {n}) : nd2[k] = nd[k]
      /\ \A k \in ToSet(s) : nd2[k].in_use = nd[k].in_use
      /\ nd2[n].in_use
  BY <1>1, <1>2, InsertedItems
<1> HIDE DEF t
<1>5. TypeOK' /\ nd2 \in [Nodes -> InternalNode]
  <2>1. crashed' \in BOOLEAN
    BY DEF Adds, ListInv, TypeOK
  <2> QED
    BY <1>2, <2>1 DEF Adds, TypeOK, Inserted, nd2
<1>6. \A m \in InUse \ Linked(h) : node'[m] = node[m]
  BY <1>1, <1>2, <1>4 DEF InUse, nd, nd2
<1>7. InUse' = InUse \cup {n}
  <2>1. ASSUME NEW m \in Nodes
        PROVE  m \in InUse' <=> m \in InUse \cup {n}
    <3>1. m \in InUse' <=> nd2[m].in_use
      BY DEF InUse, nd2
    <3>2. m \in InUse <=> nd[m].in_use
      BY DEF InUse, nd
    <3>3. CASE m = n
      BY <3>1, <3>3, <1>4
    <3>4. CASE m # n
      BY <3>1, <3>2, <3>4, <1>4
    <3> QED
      BY <3>3, <3>4
  <2>2. InUse' \subseteq Nodes /\ InUse \cup {n} \subseteq Nodes
    BY <1>2 DEF InUse
  <2> QED
    BY <2>1, <2>2
<1>8. Touches(h) /\ list'[h].in_use /\ IsList(node', list'[h], t)
  BY <1>3, <1>6 DEF Touches, Adds, nd2, l2
<1>9. /\ ToSet(t) \subseteq Linked(h) \cup Fresh
      /\ InUse' = (InUse \ Linked(h)) \cup ToSet(t) \cup {}
  BY <1>1, <1>2, <1>4, <1>7 DEF Fresh
<1>10. Outcome({h}, {h}, t, {})
  BY <1>5, <1>8, <1>9, OneListOutcome
<1>11. Chained(h)' = t
  BY <1>10, NewList
<1>12. Contents(h)' = [items |-> Stored(nd2, t), cur |-> Position(t, n)]
  <2>1. list'[h].cursor = n
    BY <1>2 DEF Lengthened, l2
  <2> QED
    BY <1>11, <2>1 DEF Contents, nd2
<1>13. Contents(h).items = Stored(nd, s)
  BY DEF Contents, nd, s
<1> QED
  BY <1>4, <1>10, <1>12, <1>13 DEF t, s

-----------------------------------------------------------------------------
(* The functions of list_adders.c put a new node where they should.        *)

\* What setting one link does to the nodes.
PrevSet(nd, nd2, b, v) ==
    /\ nd2 \in [Nodes -> InternalNode]
    /\ \A k \in Nodes :
          nd2[k] = [in_use |-> nd[k].in_use, item |-> nd[k].item, next |-> nd[k].next,
                    prev |-> IF k = b THEN v ELSE nd[k].prev]

NextSet(nd, nd2, a, v) ==
    /\ nd2 \in [Nodes -> InternalNode]
    /\ \A k \in Nodes :
          nd2[k] = [in_use |-> nd[k].in_use, item |-> nd[k].item,
                    next |-> IF k = a THEN v ELSE nd[k].next, prev |-> nd[k].prev]

LEMMA LinkPrevIs ==
    ASSUME NEW nd \in [Nodes -> InternalNode], NEW b \in Nodes \cup {NULL},
           NEW v \in Nodes \cup {NULL}
    PROVE  PrevSet(nd, LinkPrev(nd, b, v), b, v)
<1> DEFINE nd1 == LinkPrev(nd, b, v)
<1>1. \A k \in Nodes : nd[k] = [in_use |-> nd[k].in_use, item |-> nd[k].item,
                                 next |-> nd[k].next, prev |-> nd[k].prev]
  BY DEF InternalNode
<1>2. CASE b = NULL
  <2>1. nd1 = nd /\ \A k \in Nodes : k # b
    BY <1>2, NullIsNothing DEF LinkPrev
  <2> QED
    BY <1>1, <2>1 DEF PrevSet
<1>3. CASE b # NULL
  <2>1. nd1 = [nd EXCEPT ![b].prev = v] /\ b \in Nodes
    BY <1>3 DEF LinkPrev
  <2> HIDE DEF nd1
  <2>2. nd1 \in [Nodes -> InternalNode]
    BY <2>1 DEF InternalNode
  <2>3. \A k \in Nodes : nd1[k] = [in_use |-> nd[k].in_use, item |-> nd[k].item,
                                    next |-> nd[k].next,
                                    prev |-> IF k = b THEN v ELSE nd[k].prev]
    BY <1>1, <2>1
  <2> QED
    BY <2>2, <2>3 DEF PrevSet, nd1
<1> QED
  BY <1>2, <1>3

LEMMA LinkNextIs ==
    ASSUME NEW nd \in [Nodes -> InternalNode], NEW a \in Nodes \cup {NULL},
           NEW v \in Nodes \cup {NULL}
    PROVE  NextSet(nd, LinkNext(nd, a, v), a, v)
<1> DEFINE nd1 == LinkNext(nd, a, v)
<1>1. \A k \in Nodes : nd[k] = [in_use |-> nd[k].in_use, item |-> nd[k].item,
                                 next |-> nd[k].next, prev |-> nd[k].prev]
  BY DEF InternalNode
<1>2. CASE a = NULL
  <2>1. nd1 = nd /\ \A k \in Nodes : k # a
    BY <1>2, NullIsNothing DEF LinkNext
  <2> QED
    BY <1>1, <2>1 DEF NextSet
<1>3. CASE a # NULL
  <2>1. nd1 = [nd EXCEPT ![a].next = v] /\ a \in Nodes
    BY <1>3 DEF LinkNext
  <2> HIDE DEF nd1
  <2>2. nd1 \in [Nodes -> InternalNode]
    BY <2>1 DEF InternalNode
  <2>3. \A k \in Nodes : nd1[k] = [in_use |-> nd[k].in_use, item |-> nd[k].item,
                                    next |-> IF k = a THEN v ELSE nd[k].next,
                                    prev |-> nd[k].prev]
    BY <1>1, <2>1
  <2> QED
    BY <2>2, <2>3 DEF NextSet, nd1
<1> QED
  BY <1>2, <1>3

\* A new node between a and b, where b is a node or not, as ListAdd does it.
LEMMA InsertedAfter ==
    ASSUME NEW nd \in [Nodes -> InternalNode], NEW n \in Nodes, NEW x \in Items,
           NEW a \in Nodes \ {n}, NEW b \in (Nodes \cup {NULL}) \ {n},
           NEW nd2, nd2 = [LinkPrev(nd, b, n) EXCEPT ![n] = NewNode(x, b, a), ![a].next = n]
    PROVE  Inserted(nd, nd2, n, x, a, b)
<1> DEFINE nd1 == LinkPrev(nd, b, n)
           r == NewNode(x, b, a)
<1>1. r \in InternalNode
  BY DEF NewNode, InternalNode
<1>2. /\ nd1 \in [Nodes -> InternalNode]
      /\ \A k \in Nodes : nd1[k] = [in_use |-> nd[k].in_use, item |-> nd[k].item,
                                    next |-> nd[k].next,
                                    prev |-> IF k = b THEN n ELSE nd[k].prev]
  <2>1. n \in Nodes \cup {NULL} /\ b \in Nodes \cup {NULL}
    OBVIOUS
  <2>2. PrevSet(nd, nd1, b, n)
    BY <2>1, LinkPrevIs
  <2> QED
    BY <2>2 DEF PrevSet
<1> DEFINE nd11 == [nd1 EXCEPT ![n] = r]
<1>3. nd2 = [nd11 EXCEPT ![a].next = n]
  OBVIOUS
<1> HIDE DEF nd1, r
<1>4. /\ nd11 \in [Nodes -> InternalNode] /\ nd11[n] = r
      /\ \A k \in Nodes \ {n} : nd11[k] = nd1[k]
  BY <1>1, <1>2
<1> HIDE DEF nd11
<1>5. nd2 \in [Nodes -> InternalNode] /\ nd2[n] = r
  <2>1. nd11[a] \in InternalNode
    BY <1>4
  <2>2. [nd11[a] EXCEPT !.next = n] \in InternalNode
    BY <2>1 DEF InternalNode
  <2>3. nd2 = [nd11 EXCEPT ![a] = [nd11[a] EXCEPT !.next = n]]
    BY <1>3
  <2> QED
    BY <2>2, <2>3, <1>4
<1>6. ASSUME NEW k \in Nodes \ {n}
      PROVE  nd2[k] = Relinked(nd, k, a, n, b, n)
  <2>1. nd11[k] = [in_use |-> nd[k].in_use, item |-> nd[k].item, next |-> nd[k].next,
                   prev |-> IF k = b THEN n ELSE nd[k].prev]
    BY <1>2, <1>4
  <2>2. CASE k = a
    <3>1. nd2[k] = [nd11[k] EXCEPT !.next = n]
      BY <2>2, <1>3, <1>4
    <3> QED
      BY <2>1, <2>2, <3>1 DEF Relinked
  <2>3. CASE k # a
    <3>1. nd2[k] = nd11[k]
      BY <2>3, <1>3, <1>4
    <3> QED
      BY <2>1, <2>3, <3>1 DEF Relinked
  <2> QED
    BY <2>2, <2>3
<1> QED
  BY <1>5, <1>6 DEF Inserted, r

\* The same as ListInsert does it, where a is a node or not.
LEMMA InsertedBefore ==
    ASSUME NEW nd \in [Nodes -> InternalNode], NEW n \in Nodes, NEW x \in Items,
           NEW a \in (Nodes \cup {NULL}) \ {n}, NEW b \in Nodes \ {n},
           NEW nd2, nd2 = [LinkNext(nd, a, n) EXCEPT ![n] = NewNode(x, b, a), ![b].prev = n]
    PROVE  Inserted(nd, nd2, n, x, a, b)
<1> DEFINE nd1 == LinkNext(nd, a, n)
           r == NewNode(x, b, a)
<1>1. r \in InternalNode
  BY DEF NewNode, InternalNode
<1>2. /\ nd1 \in [Nodes -> InternalNode]
      /\ \A k \in Nodes : nd1[k] = [in_use |-> nd[k].in_use, item |-> nd[k].item,
                                    next |-> IF k = a THEN n ELSE nd[k].next,
                                    prev |-> nd[k].prev]
  <2>1. n \in Nodes \cup {NULL} /\ a \in Nodes \cup {NULL}
    OBVIOUS
  <2>2. NextSet(nd, nd1, a, n)
    BY <2>1, LinkNextIs
  <2> QED
    BY <2>2 DEF NextSet
<1> DEFINE nd11 == [nd1 EXCEPT ![n] = r]
<1>3. nd2 = [nd11 EXCEPT ![b].prev = n]
  OBVIOUS
<1> HIDE DEF nd1, r
<1>4. /\ nd11 \in [Nodes -> InternalNode] /\ nd11[n] = r
      /\ \A k \in Nodes \ {n} : nd11[k] = nd1[k]
  BY <1>1, <1>2
<1> HIDE DEF nd11
<1>5. nd2 \in [Nodes -> InternalNode] /\ nd2[n] = r
  <2>1. nd11[b] \in InternalNode
    BY <1>4
  <2>2. [nd11[b] EXCEPT !.prev = n] \in InternalNode
    BY <2>1 DEF InternalNode
  <2>3. nd2 = [nd11 EXCEPT ![b] = [nd11[b] EXCEPT !.prev = n]]
    BY <1>3
  <2> QED
    BY <2>2, <2>3, <1>4
<1>6. ASSUME NEW k \in Nodes \ {n}
      PROVE  nd2[k] = Relinked(nd, k, a, n, b, n)
  <2>1. nd11[k] = [in_use |-> nd[k].in_use, item |-> nd[k].item,
                   next |-> IF k = a THEN n ELSE nd[k].next, prev |-> nd[k].prev]
    BY <1>2, <1>4
  <2>2. CASE k = b
    <3>1. nd2[k] = [nd11[k] EXCEPT !.prev = n]
      BY <2>2, <1>3, <1>4
    <3> QED
      BY <2>1, <2>2, <3>1 DEF Relinked
  <2>3. CASE k # b
    <3>1. nd2[k] = nd11[k]
      BY <2>3, <1>3, <1>4
    <3> QED
      BY <2>1, <2>3, <3>1 DEF Relinked
  <2> QED
    BY <2>2, <2>3
<1> QED
  BY <1>5, <1>6 DEF Inserted, r

\* A new node on its own.
LEMMA InsertedAlone ==
    ASSUME NEW nd \in [Nodes -> InternalNode], NEW n \in Nodes, NEW x \in Items,
           NEW nd2, nd2 = [nd EXCEPT ![n] = NewNode(x, NULL, NULL)]
    PROVE  Inserted(nd, nd2, n, x, NULL, NULL)
<1>1. NewNode(x, NULL, NULL) \in InternalNode
  BY DEF NewNode, InternalNode
<1>2. nd2 \in [Nodes -> InternalNode] /\ nd2[n] = NewNode(x, NULL, NULL)
  BY <1>1
<1>3. ASSUME NEW k \in Nodes \ {n}
      PROVE  nd2[k] = Relinked(nd, k, NULL, n, NULL, n)
  <2>1. nd2[k] = nd[k] /\ k # NULL
    BY NullIsNothing
  <2> QED
    BY <2>1, RelinkedElsewhere
<1> QED
  BY <1>2, <1>3 DEF Inserted

\* What the struct of a list says of its nodes.
LEMMA ShapeOfList ==
    ASSUME NEW nd, NEW l, NEW s, IsList(nd, l, s)
    PROVE  /\ l.size = Len(s)
           /\ l.head = Nth(s, 1) /\ l.tail = Nth(s, Len(s))
           /\ l.head = NULL <=> Len(s) = 0
           /\ l.tail = NULL <=> Len(s) = 0
           /\ l.head = l.tail <=> Len(s) <= 1
           /\ \/ l.cursor = NULL /\ Position(s, l.cursor) = 0
              \/ /\ l.cursor # NULL
                 /\ Position(s, l.cursor) \in 1..Len(s)
                 /\ l.cursor = s[Position(s, l.cursor)]
<1>1. /\ s \in Seq(Nodes) /\ Len(s) \in Nat /\ ToSet(s) = {s[i] : i \in 1..Len(s)}
      /\ \A i \in 1..Len(s) : s[i] \in Nodes
      /\ \A i, j \in 1..Len(s) : s[i] = s[j] => i = j
  BY ChainOfList
<1>2. /\ l.size = Len(s) /\ l.head = Nth(s, 1) /\ l.tail = Nth(s, Len(s))
      /\ l.cursor \in ToSet(s) \cup {NULL}
  BY DEF IsList, IsWalk
<1>3. /\ l.head = NULL <=> Len(s) = 0
      /\ l.tail = NULL <=> Len(s) = 0
      /\ l.head = l.tail <=> Len(s) <= 1
  <2>1. CASE Len(s) = 0
    <3>1. l.head = NULL /\ l.tail = NULL
      BY <1>2, <2>1 DEF Nth
    <3> QED
      BY <3>1, <2>1
  <2>2. CASE Len(s) # 0
    <3>1. l.head = s[1] /\ l.tail = s[Len(s)] /\ 1 \in 1..Len(s) /\ Len(s) \in 1..Len(s)
      BY <1>1, <1>2, <2>2 DEF Nth
    <3>2. l.head # NULL /\ l.tail # NULL
      BY <3>1, <1>1, NullIsNothing
    <3>3. s[1] = s[Len(s)] => 1 = Len(s)
      BY <3>1, <1>1
    <3> QED
      BY <3>1, <3>2, <3>3, <1>1, <2>2
  <2> QED
    BY <2>1, <2>2
<1>4. \/ l.cursor = NULL /\ Position(s, l.cursor) = 0
      \/ /\ l.cursor # NULL
         /\ Position(s, l.cursor) \in 1..Len(s)
         /\ l.cursor = s[Position(s, l.cursor)]
  <2>1. CASE l.cursor = NULL
    BY <1>1, <2>1, PositionIs
  <2>2. CASE l.cursor # NULL
    <3>1. PICK k \in 1..Len(s) : l.cursor = s[k]
      BY <1>1, <1>2, <2>2
    <3>2. Position(s, s[k]) = k
      BY <1>1, PositionIs
    <3> QED
      BY <3>1, <3>2, <2>2
  <2> QED
    BY <2>1, <2>2
<1> QED
  BY <1>2, <1>3, <1>4

\* The struct of a list after a node was added to it.
LEMMA GrownIs ==
    ASSUME NEW l \in InternalList, NEW n \in Nodes
    PROVE  /\ Grown(l, n) = [in_use |-> l.in_use, head |-> l.head, tail |-> l.tail,
                             cursor |-> n, size |-> l.size + 1]
           /\ [Grown(l, n) EXCEPT !.head = n] =
                [in_use |-> l.in_use, head |-> n, tail |-> l.tail, cursor |-> n, size |-> l.size + 1]
           /\ [Grown(l, n) EXCEPT !.tail = n] =
                [in_use |-> l.in_use, head |-> l.head, tail |-> n, cursor |-> n, size |-> l.size + 1]
           /\ [Grown(l, n) EXCEPT !.head = n, !.tail = n] =
                [in_use |-> l.in_use, head |-> n, tail |-> n, cursor |-> n, size |-> l.size + 1]
<1> DEFINE u == l.in_use
           hd == l.head
           tl == l.tail
           cu == l.cursor
           sz == l.size
           sz1 == l.size + 1
<1>1. l = [in_use |-> u, head |-> hd, tail |-> tl, cursor |-> cu, size |-> sz] /\ sz1 = sz + 1
  BY DEF InternalList
<1>2. u = l.in_use /\ hd = l.head /\ tl = l.tail /\ sz1 = l.size + 1
  OBVIOUS
<1> HIDE DEF u, hd, tl, cu, sz, sz1
<1>3. Grown(l, n) = [in_use |-> u, head |-> hd, tail |-> tl, cursor |-> n, size |-> sz1]
  <2> DEFINE l1 == [l EXCEPT !.cursor = n]
  <2>1. Grown(l, n) = [l1 EXCEPT !.size = @ + 1]
    BY DEF Grown
  <2>2. l1 = [in_use |-> u, head |-> hd, tail |-> tl, cursor |-> n, size |-> sz]
    BY <1>1
  <2> HIDE DEF l1
  <2> QED
    BY <1>1, <2>1, <2>2
<1> DEFINE g == Grown(l, n)
<1> HIDE DEF g
<1>4. g = [in_use |-> u, head |-> hd, tail |-> tl, cursor |-> n, size |-> sz1]
  BY <1>3 DEF g
<1>5. [g EXCEPT !.head = n] = [in_use |-> u, head |-> n, tail |-> tl, cursor |-> n, size |-> sz1]
  BY <1>4
<1>6. [g EXCEPT !.tail = n] = [in_use |-> u, head |-> hd, tail |-> n, cursor |-> n, size |-> sz1]
  BY <1>4
<1>7. [g EXCEPT !.head = n, !.tail = n] =
        [in_use |-> u, head |-> n, tail |-> n, cursor |-> n, size |-> sz1]
  <2> DEFINE g1 == [g EXCEPT !.head = n]
  <2>1. [g EXCEPT !.head = n, !.tail = n] = [g1 EXCEPT !.tail = n]
    OBVIOUS
  <2>2. g1 = [in_use |-> u, head |-> n, tail |-> tl, cursor |-> n, size |-> sz1]
    BY <1>5
  <2> HIDE DEF g1
  <2> QED
    BY <2>1, <2>2
<1> QED
  BY <1>2, <1>4, <1>5, <1>6, <1>7 DEF g

\* The nodes and the list h that a call writes.
LEMMA WritesList ==
    ASSUME NEW h \in Live, TypeOK, NEW nd2, NEW l2 \in InternalList, NEW v,
           Writes(nd2, h, l2, v)
    PROVE  /\ node' = nd2 /\ list' \in [Handles -> InternalList] /\ list'[h] = l2
           /\ \A g \in Handles \ {h} : list'[g] = list[g]
           /\ value' = v /\ crashed' = crashed
<1>1. h \in Handles /\ list \in [Handles -> InternalList]
  BY DEF Live, TypeOK
<1> QED
  BY <1>1 DEF Writes, Returns

LEMMA AddsByWrites ==
    ASSUME ListInv, NEW h \in Live, NEW p \in 1..(Len(Chained(h)) + 1),
           NEW n \in Fresh, NEW x \in Items, NEW nd2,
           Inserted(node, nd2, n, x, Nth(Chained(h), p - 1), Nth(Chained(h), p)),
           NEW head, head = (IF p = 1 THEN n ELSE list[h].head),
           NEW tail, tail = (IF p = Len(Chained(h)) + 1 THEN n ELSE list[h].tail),
           NEW l2, Writes(nd2, h, l2, Success),
           l2 = [in_use |-> list[h].in_use, head |-> head, tail |-> tail,
                 cursor |-> n, size |-> list[h].size + 1]
    PROVE  Adds(h, p, n, x) /\ value' = Success
<1>1. list[h] \in InternalList /\ list[h].in_use /\ n \in Nodes
  BY DEF ListInv, TypeOK, Live, Fresh
<1>2. l2 \in InternalList /\ l2.in_use
  <2>1. list[h].in_use \in BOOLEAN /\ list[h].size + 1 \in Nat
    BY <1>1 DEF InternalList
  <2>2. head \in Nodes \cup {NULL} /\ tail \in Nodes \cup {NULL}
    BY <1>1 DEF InternalList
  <2> QED
    BY <1>1, <2>1, <2>2 DEF InternalList
<1>3. Lengthened(list[h], l2, n, p = 1, p = Len(Chained(h)) + 1)
  BY DEF Lengthened
<1>4. /\ node' = nd2 /\ list' \in [Handles -> InternalList] /\ list'[h] = l2
      /\ \A g \in Handles \ {h} : list'[g] = list[g]
      /\ value' = Success /\ crashed' = crashed
  BY <1>2, WritesList DEF ListInv
<1> QED
  BY <1>2, <1>3, <1>4 DEF Adds

\* The only node of a list.
LEMMA AddOnlyStep ==
    ASSUME ListInv, NEW h \in Live, NEW n \in Fresh, NEW x \in Items,
           list[h].size = 0, AddOnly(h, n, x)
    PROVE  Adds(h, 1, n, x) /\ value' = Success /\ Chained(h) = <<>>
<1> DEFINE s == Chained(h)
           nd2 == [node EXCEPT ![n] = NewNode(x, NULL, NULL)]
           l2 == [Grown(list[h], n) EXCEPT !.head = n, !.tail = n]
           p == 1
<1>1. IsList(node, list[h], s)
  BY LiveList
<1>2. /\ s \in Seq(Nodes) /\ Len(s) = 0
  <2> DEFINE l == list[h]
  <2>1. IsList(node, l, s) /\ l.size = 0
    BY <1>1
  <2> HIDE DEF l, s
  <2> QED
    BY <2>1, ChainOfList, ShapeOfList
<1>3. s = <<>>
  <2> HIDE DEF s
  <2> QED
    BY <1>2
<1>4. list[h] \in InternalList /\ n \in Nodes /\ node \in [Nodes -> InternalNode]
  BY DEF ListInv, TypeOK, Live, Fresh
<1>5. Nth(s, p - 1) = NULL /\ Nth(s, p) = NULL /\ p \in 1..(Len(s) + 1)
  BY <1>2 DEF Nth
<1>6. Inserted(node, nd2, n, x, Nth(s, p - 1), Nth(s, p))
  BY <1>4, <1>5, InsertedAlone
<1>7. l2 = [in_use |-> list[h].in_use, head |-> n, tail |-> n,
            cursor |-> n, size |-> list[h].size + 1]
  BY <1>4, GrownIs
<1>8. Writes(nd2, h, l2, Success)
  BY DEF AddOnly
<1>9. /\ n = (IF p = 1 THEN n ELSE list[h].head)
      /\ n = (IF p = Len(s) + 1 THEN n ELSE list[h].tail)
  BY <1>2
<1> HIDE DEF nd2, l2, p
<1>10. Adds(h, p, n, x) /\ value' = Success
  BY <1>5, <1>6, <1>7, <1>8, <1>9, AddsByWrites DEF s
<1> QED
  BY <1>3, <1>10 DEF p, s

\* What the adders and removers rely on when they are called for list h.
LEMMA LiveShape ==
    ASSUME ListInv, NEW h \in Live
    PROVE  LET s == Chained(h)
               l == list[h]
               k == Position(s, l.cursor)
           IN  /\ s \in Seq(Nodes) /\ Len(s) \in Nat /\ ToSet(s) = Linked(h)
               /\ \A i \in 1..Len(s) : s[i] \in Nodes \cap InUse /\ s[i] # NULL
               /\ \A i, j \in 1..Len(s) : s[i] = s[j] => i = j
               /\ \A i \in 1..Len(s) : /\ node[s[i]].next = Nth(s, i + 1)
                                       /\ node[s[i]].prev = Nth(s, i - 1)
               /\ l.size = Len(s)
               /\ l.head = Nth(s, 1) /\ l.tail = Nth(s, Len(s))
               /\ l.head = NULL <=> Len(s) = 0
               /\ l.tail = NULL <=> Len(s) = 0
               /\ l.head = l.tail <=> Len(s) <= 1
               /\ \/ l.cursor = NULL /\ k = 0
                  \/ l.cursor # NULL /\ k \in 1..Len(s) /\ l.cursor = s[k]
               /\ k = Contents(h).cur
               /\ h \in Handles /\ list[h] \in InternalList /\ list[h].in_use
               /\ node \in [Nodes -> InternalNode]
<1> DEFINE s == Chained(h)
           l == list[h]
           k == Position(s, l.cursor)
<1>1. /\ h \in Handles /\ list[h].in_use /\ IsList(node, l, s)
      /\ Linked(h) = ToSet(s) /\ Linked(h) \subseteq InUse
  BY LiveList DEF Linked
<1>2. k = Contents(h).cur
  BY DEF Contents
<1>3. list[h] \in InternalList /\ node \in [Nodes -> InternalNode]
  BY <1>1 DEF ListInv, TypeOK
<1> HIDE DEF s, l
<1>4. /\ s \in Seq(Nodes) /\ Len(s) \in Nat /\ ToSet(s) = {s[i] : i \in 1..Len(s)}
      /\ \A i \in 1..Len(s) : s[i] \in Nodes
      /\ \A i, j \in 1..Len(s) : s[i] = s[j] => i = j
  BY <1>1, ChainOfList
<1>5. \A i \in 1..Len(s) : s[i] \in Nodes \cap InUse /\ s[i] # NULL
  BY <1>1, <1>4, NullIsNothing
<1>6. \A i \in 1..Len(s) : /\ node[s[i]].next = Nth(s, i + 1)
                           /\ node[s[i]].prev = Nth(s, i - 1)
  BY <1>1 DEF IsList, IsWalk
<1>7. /\ l.size = Len(s)
      /\ l.head = Nth(s, 1) /\ l.tail = Nth(s, Len(s))
      /\ l.head = NULL <=> Len(s) = 0
      /\ l.tail = NULL <=> Len(s) = 0
      /\ l.head = l.tail <=> Len(s) <= 1
      /\ \/ l.cursor = NULL /\ k = 0
         \/ l.cursor # NULL /\ k \in 1..Len(s) /\ l.cursor = s[k]
  BY <1>1, ShapeOfList
<1> HIDE DEF k
<1>8. /\ s \in Seq(Nodes) /\ Len(s) \in Nat /\ ToSet(s) = Linked(h)
      /\ \A i, j \in 1..Len(s) : s[i] = s[j] => i = j
  BY <1>1, <1>4
<1> QED
  BY <1>1, <1>2, <1>3, <1>5, <1>6, <1>7, <1>8 DEF s, l, k

LEMMA ListAddStep ==
    ASSUME ListInv, NEW h \in Live, NEW x \in Items, ListAdd(h, x)
    PROVE  \E n \in Fresh :
             \/ /\ list[h].size # 0 /\ list[h].cursor = NULL
                /\ AddFails(h, n, x)
             \/ /\ list[h].size = 0 \/ list[h].cursor # NULL
                /\ Adds(h, Contents(h).cur + 1, n, x) /\ value' = Success
<1> DEFINE s == Chained(h)
           l == list[h]
           c == l.cursor
           k == Position(s, c)
           p == k + 1
           next == node[c].next
<1>1. PICK n \in Fresh :
         IF l.size = 0 THEN AddOnly(h, n, x)
         ELSE IF c = NULL THEN AddFails(h, n, x)
         ELSE IF l.head = l.tail
         THEN Writes([node EXCEPT ![n] = NewNode(x, NULL, l.head), ![c].next = n],
                     h, [Grown(l, n) EXCEPT !.tail = n], Success)
         ELSE Writes([LinkPrev(node, next, n)
                        EXCEPT ![n] = NewNode(x, next, c), ![c].next = n],
                     h,
                     IF next = NULL THEN [Grown(l, n) EXCEPT !.tail = n] ELSE Grown(l, n),
                     Success)
  BY DEF ListAdd
<1>2. /\ s \in Seq(Nodes) /\ Len(s) \in Nat /\ ToSet(s) = Linked(h)
      /\ \A i \in 1..Len(s) : s[i] \in Nodes \cap InUse /\ s[i] # NULL
      /\ \A i \in 1..Len(s) : node[s[i]].next = Nth(s, i + 1)
      /\ l.size = Len(s)
      /\ l.head = Nth(s, 1) /\ l.tail = Nth(s, Len(s))
      /\ l.head = l.tail <=> Len(s) <= 1
      /\ \/ l.cursor = NULL /\ k = 0
         \/ l.cursor # NULL /\ k \in 1..Len(s) /\ l.cursor = s[k]
      /\ k = Contents(h).cur
      /\ l \in InternalList /\ node \in [Nodes -> InternalNode]
  BY LiveShape
<1>3. n \in Nodes /\ n \notin InUse
  BY DEF Fresh
<1>4. CASE l.size = 0
  <2>1. AddOnly(h, n, x)
    BY <1>1, <1>4
  <2>2. Adds(h, 1, n, x) /\ value' = Success
    BY <1>4, <2>1, AddOnlyStep
  <2>3. k = 0
    BY <1>2, <1>4
  <2>4. Contents(h).cur + 1 = 1
    BY <1>2, <2>3
  <2> QED
    BY <1>4, <2>2, <2>4
<1>5. CASE l.size # 0 /\ c = NULL
  BY <1>1, <1>5
<1>6. CASE l.size # 0 /\ c # NULL
  <2> DEFINE nd2 == [LinkPrev(node, next, n)
                        EXCEPT ![n] = NewNode(x, next, c), ![c].next = n]
             l2 == IF next = NULL THEN [Grown(l, n) EXCEPT !.tail = n] ELSE Grown(l, n)
             tail == IF next = NULL THEN n ELSE l.tail
  <2>1. k \in 1..Len(s) /\ c = s[k] /\ c \in Nodes \ {n}
    BY <1>2, <1>3, <1>6
  <2>2. next = Nth(s, k + 1) /\ (next = NULL <=> k = Len(s)) /\ next \in (Nodes \cup {NULL}) \ {n}
    <3>1. next = Nth(s, k + 1)
      BY <1>2, <2>1
    <3>2. CASE k = Len(s)
      BY <3>1, <3>2, <1>2, <1>3, NullIsNothing DEF Nth
    <3>3. CASE k # Len(s)
      <4>1. k + 1 \in 1..Len(s)
        BY <3>3, <1>2, <2>1
      <4>2. next = s[k + 1]
        BY <3>1, <4>1 DEF Nth
      <4> QED
        BY <3>1, <3>3, <4>1, <4>2, <1>2, <1>3
    <3> QED
      BY <3>2, <3>3
  <2>3. Writes(nd2, h, l2, Success)
    <3>1. CASE l.head = l.tail
      <4>0. Len(s) <= 1 /\ Len(s) \in Nat /\ k \in 1..Len(s)
        BY <3>1, <1>2, <2>1
      <4>1. Len(s) = 1 /\ k = 1
        <5> DEFINE N == Len(s)
        <5>1. N <= 1 /\ N \in Nat /\ k \in 1..N
          BY <4>0
        <5> HIDE DEF k, s, N
        <5>2. N = 1 /\ k = 1
          BY <5>1
        <5> QED
          BY <5>2 DEF N
      <4>2. next = NULL /\ l.head = c
        BY <4>1, <1>2, <2>1, <2>2 DEF Nth
      <4>3. LinkPrev(node, next, n) = node
        BY <4>2 DEF LinkPrev
      <4>4. nd2 = [node EXCEPT ![n] = NewNode(x, NULL, l.head), ![c].next = n]
        BY <4>2, <4>3
      <4>5. l2 = [Grown(l, n) EXCEPT !.tail = n]
        BY <4>2
      <4> HIDE DEF nd2, l2
      <4> QED
        BY <3>1, <4>4, <4>5, <1>1, <1>6
    <3>2. CASE l.head # l.tail
      BY <3>2, <1>1, <1>6
    <3> QED
      BY <3>1, <3>2
  <2>4. Inserted(node, nd2, n, x, c, next)
    <3> HIDE DEF c, next
    <3> QED
      BY <1>2, <1>3, <2>1, <2>2, InsertedAfter
  <2>5. p \in 1..(Len(s) + 1) /\ Nth(s, p - 1) = c /\ Nth(s, p) = next
    <3>1. p - 1 = k /\ p \in 1..(Len(s) + 1)
      BY <1>2, <2>1
    <3>2. Nth(s, k) = c
      BY <2>1 DEF Nth
    <3> QED
      BY <2>2, <3>1, <3>2
  <2>6. l.head = (IF p = 1 THEN n ELSE l.head) /\ tail = (IF p = Len(s) + 1 THEN n ELSE l.tail)
    BY <1>2, <2>1, <2>2
  <2>7. l2 = [in_use |-> l.in_use, head |-> l.head, tail |-> tail,
              cursor |-> n, size |-> l.size + 1]
    BY <1>2, <1>3, GrownIs
  <2> HIDE DEF nd2, l2, p, tail
  <2>8. Adds(h, p, n, x) /\ value' = Success
    <3>1. Inserted(node, nd2, n, x, Nth(Chained(h), p - 1), Nth(Chained(h), p))
      BY <2>4, <2>5
    <3> QED
      BY <2>3, <2>5, <2>6, <2>7, <3>1, AddsByWrites
  <2>9. Contents(h).cur + 1 = p
    BY <1>2 DEF p
  <2> QED
    BY <1>6, <2>8, <2>9
<1> QED
  BY <1>4, <1>5, <1>6

LEMMA ListInsertStep ==
    ASSUME ListInv, NEW h \in Live, NEW x \in Items, ListInsert(h, x)
    PROVE  \E n \in Fresh :
             \/ /\ list[h].size # 0 /\ list[h].cursor = NULL
                /\ AddFails(h, n, x)
             \/ /\ list[h].size = 0 \/ list[h].cursor # NULL
                /\ Adds(h, IF Contents(h).cur = 0 THEN 1 ELSE Contents(h).cur, n, x)
                /\ value' = Success
<1> DEFINE s == Chained(h)
           l == list[h]
           c == l.cursor
           k == Position(s, c)
           prev == node[c].prev
<1>1. PICK n \in Fresh :
         IF l.size = 0 THEN AddOnly(h, n, x)
         ELSE IF c = NULL THEN AddFails(h, n, x)
         ELSE IF l.head = l.tail
         THEN Writes([node EXCEPT ![n] = NewNode(x, l.tail, NULL), ![c].prev = n],
                     h, [Grown(l, n) EXCEPT !.head = n], Success)
         ELSE Writes([LinkNext(node, prev, n)
                        EXCEPT ![n] = NewNode(x, c, prev), ![c].prev = n],
                     h,
                     IF prev = NULL THEN [Grown(l, n) EXCEPT !.head = n] ELSE Grown(l, n),
                     Success)
  BY DEF ListInsert
<1>2. /\ s \in Seq(Nodes) /\ Len(s) \in Nat /\ ToSet(s) = Linked(h)
      /\ \A i \in 1..Len(s) : s[i] \in Nodes \cap InUse /\ s[i] # NULL
      /\ \A i \in 1..Len(s) : node[s[i]].prev = Nth(s, i - 1)
      /\ l.size = Len(s)
      /\ l.head = Nth(s, 1) /\ l.tail = Nth(s, Len(s))
      /\ l.head = l.tail <=> Len(s) <= 1
      /\ \/ l.cursor = NULL /\ k = 0
         \/ l.cursor # NULL /\ k \in 1..Len(s) /\ l.cursor = s[k]
      /\ k = Contents(h).cur
      /\ l \in InternalList /\ node \in [Nodes -> InternalNode]
  BY LiveShape
<1>3. n \in Nodes /\ n \notin InUse
  BY DEF Fresh
<1>4. CASE l.size = 0
  <2>1. AddOnly(h, n, x)
    BY <1>1, <1>4
  <2>2. Adds(h, 1, n, x) /\ value' = Success
    BY <1>4, <2>1, AddOnlyStep
  <2>3. k = 0
    BY <1>2, <1>4
  <2>4. (IF Contents(h).cur = 0 THEN 1 ELSE Contents(h).cur) = 1
    BY <1>2, <2>3
  <2> QED
    BY <1>4, <2>2, <2>4
<1>5. CASE l.size # 0 /\ c = NULL
  BY <1>1, <1>5
<1>6. CASE l.size # 0 /\ c # NULL
  <2> DEFINE nd2 == [LinkNext(node, prev, n)
                        EXCEPT ![n] = NewNode(x, c, prev), ![c].prev = n]
             l2 == IF prev = NULL THEN [Grown(l, n) EXCEPT !.head = n] ELSE Grown(l, n)
             head == IF prev = NULL THEN n ELSE l.head
  <2>1. k \in 1..Len(s) /\ c = s[k] /\ c \in Nodes \ {n}
    BY <1>2, <1>3, <1>6
  <2>2. prev = Nth(s, k - 1) /\ (prev = NULL <=> k = 1) /\ prev \in (Nodes \cup {NULL}) \ {n}
    <3>1. prev = Nth(s, k - 1)
      BY <1>2, <2>1
    <3>2. CASE k = 1
      BY <3>1, <3>2, <1>2, <1>3, NullIsNothing DEF Nth
    <3>3. CASE k # 1
      <4>1. k - 1 \in 1..Len(s)
        BY <3>3, <1>2, <2>1
      <4>2. prev = s[k - 1]
        BY <3>1, <4>1 DEF Nth
      <4> QED
        BY <3>1, <3>3, <4>1, <4>2, <1>2, <1>3
    <3> QED
      BY <3>2, <3>3
  <2>3. Writes(nd2, h, l2, Success)
    <3>1. CASE l.head = l.tail
      <4>0. Len(s) <= 1 /\ Len(s) \in Nat /\ k \in 1..Len(s)
        BY <3>1, <1>2, <2>1
      <4>1. Len(s) = 1 /\ k = 1
        <5> DEFINE N == Len(s)
        <5>1. N <= 1 /\ N \in Nat /\ k \in 1..N
          BY <4>0
        <5> HIDE DEF k, s, N
        <5>2. N = 1 /\ k = 1
          BY <5>1
        <5> QED
          BY <5>2 DEF N
      <4>2. prev = NULL /\ l.tail = c
        BY <4>1, <1>2, <2>1, <2>2 DEF Nth
      <4>3. LinkNext(node, prev, n) = node
        BY <4>2 DEF LinkNext
      <4>4. nd2 = [node EXCEPT ![n] = NewNode(x, l.tail, NULL), ![c].prev = n]
        BY <4>2, <4>3
      <4>5. l2 = [Grown(l, n) EXCEPT !.head = n]
        BY <4>2
      <4> HIDE DEF nd2, l2
      <4> QED
        BY <3>1, <4>4, <4>5, <1>1, <1>6
    <3>2. CASE l.head # l.tail
      BY <3>2, <1>1, <1>6
    <3> QED
      BY <3>1, <3>2
  <2>4. Inserted(node, nd2, n, x, prev, c)
    <3> HIDE DEF c, prev
    <3> QED
      BY <1>2, <1>3, <2>1, <2>2, InsertedBefore
  <2>5. k \in 1..(Len(s) + 1) /\ Nth(s, k - 1) = prev /\ Nth(s, k) = c
    BY <1>2, <2>1, <2>2 DEF Nth
  <2>6. head = (IF k = 1 THEN n ELSE l.head) /\ l.tail = (IF k = Len(s) + 1 THEN n ELSE l.tail)
    BY <1>2, <2>1, <2>2
  <2>7. l2 = [in_use |-> l.in_use, head |-> head, tail |-> l.tail,
              cursor |-> n, size |-> l.size + 1]
    BY <1>2, <1>3, GrownIs
  <2>8. (IF Contents(h).cur = 0 THEN 1 ELSE Contents(h).cur) = k
    BY <1>2, <2>1
  <2> HIDE DEF nd2, l2, k, head
  <2>9. Adds(h, k, n, x) /\ value' = Success
    <3>1. Inserted(node, nd2, n, x, Nth(Chained(h), k - 1), Nth(Chained(h), k))
      BY <2>4, <2>5
    <3> QED
      BY <2>3, <2>5, <2>6, <2>7, <3>1, AddsByWrites
  <2> QED
    BY <1>6, <2>8, <2>9
<1> QED
  BY <1>4, <1>5, <1>6

\* ListAppend and ListPrepend need no current node.
LEMMA ListAppendStep ==
    ASSUME ListInv, NEW h \in Live, NEW x \in Items, ListAppend(h, x)
    PROVE  \E n \in Fresh : Adds(h, Len(Chained(h)) + 1, n, x) /\ value' = Success
<1> DEFINE s == Chained(h)
           l == list[h]
           p == Len(s) + 1
<1>1. PICK n \in Fresh :
         IF l.size = 0 THEN AddOnly(h, n, x)
         ELSE IF l.tail = NULL THEN AddFails(h, n, x)
         ELSE Writes([node EXCEPT ![n] = NewNode(x, NULL, l.tail), ![l.tail].next = n],
                     h, [Grown(l, n) EXCEPT !.tail = n], Success)
  BY DEF ListAppend
<1>2. /\ s \in Seq(Nodes) /\ Len(s) \in Nat
      /\ \A i \in 1..Len(s) : s[i] \in Nodes \cap InUse /\ s[i] # NULL
      /\ l.size = Len(s) /\ l.tail = Nth(s, Len(s))
      /\ l.tail = NULL <=> Len(s) = 0
      /\ l \in InternalList /\ node \in [Nodes -> InternalNode]
  BY LiveShape
<1>3. n \in Nodes /\ n \notin InUse
  BY DEF Fresh
<1>4. CASE l.size = 0
  <2>1. Adds(h, 1, n, x) /\ value' = Success
    BY <1>1, <1>4, AddOnlyStep
  <2>2. p = 1
    BY <1>2, <1>4
  <2> QED
    BY <2>1, <2>2
<1>5. CASE l.size # 0
  <2> DEFINE a == l.tail
             nd2 == [node EXCEPT ![n] = NewNode(x, NULL, a), ![a].next = n]
             l2 == [Grown(l, n) EXCEPT !.tail = n]
  <2>1. Len(s) \in 1..Len(s) /\ a = s[Len(s)] /\ a \in Nodes \ {n} /\ a # NULL
    <3>1. Len(s) \in 1..Len(s)
      BY <1>2, <1>5
    <3> QED
      BY <3>1, <1>2, <1>3 DEF Nth
  <2>2. Writes(nd2, h, l2, Success)
    BY <1>1, <1>5, <2>1
  <2>3. Inserted(node, nd2, n, x, a, NULL)
    <3> HIDE DEF a
    <3>1. nd2 = [LinkPrev(node, NULL, n) EXCEPT ![n] = NewNode(x, NULL, a), ![a].next = n]
      BY DEF LinkPrev
    <3>2. NULL \in (Nodes \cup {NULL}) \ {n}
      BY <1>3, NullIsNothing
    <3> HIDE DEF nd2
    <3> QED
      BY <1>2, <1>3, <2>1, <3>1, <3>2, InsertedAfter
  <2>4. p \in 1..(Len(s) + 1) /\ Nth(s, p - 1) = a /\ Nth(s, p) = NULL
    <3>1. p \in 1..(Len(s) + 1) /\ p - 1 = Len(s) /\ p \notin 1..Len(s)
      BY <1>2
    <3> QED
      BY <3>1, <1>2 DEF Nth
  <2>5. /\ l.head = (IF p = 1 THEN n ELSE l.head)
        /\ n = (IF p = Len(s) + 1 THEN n ELSE l.tail)
    BY <1>2, <1>5
  <2>6. l2 = [in_use |-> l.in_use, head |-> l.head, tail |-> n,
              cursor |-> n, size |-> l.size + 1]
    BY <1>2, <1>3, GrownIs
  <2> HIDE DEF nd2, l2, p
  <2>7. Inserted(node, nd2, n, x, Nth(Chained(h), p - 1), Nth(Chained(h), p))
    BY <2>3, <2>4
  <2>8. Adds(h, p, n, x) /\ value' = Success
    BY <2>2, <2>4, <2>5, <2>6, <2>7, AddsByWrites
  <2> QED
    BY <2>8 DEF p
<1> QED
  BY <1>4, <1>5

LEMMA ListPrependStep ==
    ASSUME ListInv, NEW h \in Live, NEW x \in Items, ListPrepend(h, x)
    PROVE  \E n \in Fresh : Adds(h, 1, n, x) /\ value' = Success
<1> DEFINE s == Chained(h)
           l == list[h]
           p == 1
<1>1. PICK n \in Fresh :
         IF l.size = 0 THEN AddOnly(h, n, x)
         ELSE IF l.head = NULL THEN AddFails(h, n, x)
         ELSE Writes([node EXCEPT ![n] = NewNode(x, l.head, NULL), ![l.head].prev = n],
                     h, [Grown(l, n) EXCEPT !.head = n], Success)
  BY DEF ListPrepend
<1>2. /\ s \in Seq(Nodes) /\ Len(s) \in Nat
      /\ \A i \in 1..Len(s) : s[i] \in Nodes \cap InUse /\ s[i] # NULL
      /\ l.size = Len(s) /\ l.head = Nth(s, 1)
      /\ l.head = NULL <=> Len(s) = 0
      /\ l \in InternalList /\ node \in [Nodes -> InternalNode]
  BY LiveShape
<1>3. n \in Nodes /\ n \notin InUse
  BY DEF Fresh
<1>4. CASE l.size = 0
  BY <1>1, <1>4, AddOnlyStep
<1>5. CASE l.size # 0
  <2> DEFINE b == l.head
             nd2 == [node EXCEPT ![n] = NewNode(x, b, NULL), ![b].prev = n]
             l2 == [Grown(l, n) EXCEPT !.head = n]
  <2>1. 1 \in 1..Len(s) /\ b = s[1] /\ b \in Nodes \ {n} /\ b # NULL
    <3>1. 1 \in 1..Len(s)
      BY <1>2, <1>5
    <3> QED
      BY <3>1, <1>2, <1>3 DEF Nth
  <2>2. Writes(nd2, h, l2, Success)
    BY <1>1, <1>5, <2>1
  <2>3. Inserted(node, nd2, n, x, NULL, b)
    <3> HIDE DEF b
    <3>1. nd2 = [LinkNext(node, NULL, n) EXCEPT ![n] = NewNode(x, b, NULL), ![b].prev = n]
      BY DEF LinkNext
    <3>2. NULL \in (Nodes \cup {NULL}) \ {n}
      BY <1>3, NullIsNothing
    <3>3. b \in Nodes \ {n} /\ node \in [Nodes -> InternalNode]
      BY <1>2, <2>1
    <3> HIDE DEF nd2, s, l
    <3> QED
      BY <1>3, <3>1, <3>2, <3>3, InsertedBefore
  <2>4. p \in 1..(Len(s) + 1) /\ Nth(s, p - 1) = NULL /\ Nth(s, p) = b
    <3>1. p \in 1..(Len(s) + 1) /\ p - 1 \notin 1..Len(s)
      BY <1>2
    <3> QED
      BY <3>1, <2>1 DEF Nth
  <2>5. /\ n = (IF p = 1 THEN n ELSE l.head)
        /\ l.tail = (IF p = Len(s) + 1 THEN n ELSE l.tail)
    BY <1>2, <1>5
  <2>6. l2 = [in_use |-> l.in_use, head |-> n, tail |-> l.tail,
              cursor |-> n, size |-> l.size + 1]
    BY <1>2, <1>3, GrownIs
  <2> HIDE DEF nd2, l2, p
  <2>7. Inserted(node, nd2, n, x, Nth(Chained(h), p - 1), Nth(Chained(h), p))
    BY <2>3, <2>4
  <2>8. Adds(h, p, n, x) /\ value' = Success
    BY <2>2, <2>4, <2>5, <2>6, <2>7, AddsByWrites
  <2> QED
    BY <2>8 DEF p
<1> QED
  BY <1>4, <1>5

-----------------------------------------------------------------------------
(* A node is taken out of a list.                                          *)

\* nd2 is nd without the node c, which was between a and b.
Removed(nd, nd2, c, a, b) ==
    /\ nd \in [Nodes -> InternalNode] /\ nd2 \in [Nodes -> InternalNode]
    /\ nd2[c] = BlankNode
    /\ \A k \in Nodes \ {c} : nd2[k] = Relinked(nd, k, a, b, b, a)

\* l2 is l without a node, which was between a and b, at the front or at the
\* end if so said.
Shortened(l, l2, a, b, front, end) ==
    /\ l2.size = l.size - 1
    /\ l2.head = IF front THEN b ELSE l.head
    /\ l2.tail = IF end THEN a ELSE l.tail
    /\ l2.cursor = IF end THEN a ELSE b

LEMMA RemovedWalk ==
    ASSUME NEW nd, NEW nd2, NEW l, NEW l2, NEW s,
           IsList(nd, l, s), NEW p \in 1..Len(s),
           Removed(nd, nd2, s[p], Nth(s, p - 1), Nth(s, p + 1)),
           Shortened(l, l2, Nth(s, p - 1), Nth(s, p + 1), p = 1, p = Len(s))
    PROVE  /\ IsList(nd2, l2, RemoveAt(s, p))
           /\ Position(RemoveAt(s, p), l2.cursor) = IF p > Len(s) - 1 THEN Len(s) - 1 ELSE p
<1> DEFINE t == RemoveAt(s, p)
           N == Len(s)
           M == Len(s) - 1
           c == s[p]
           a == Nth(s, p - 1)
           b == Nth(s, p + 1)
<1>1. /\ s \in Seq(Nodes) /\ N \in Nat /\ ToSet(s) = {s[i] : i \in 1..N}
      /\ \A i \in 1..N : s[i] \in Nodes
      /\ \A i, j \in 1..N : s[i] = s[j] => i = j
  BY ChainOfList
<1>2. /\ t \in Seq(Nodes) /\ Len(t) = M
      /\ \A i \in 1..M : t[i] = IF i < p THEN s[i] ELSE s[i + 1]
  BY <1>1, RemoveAtIs
<1>3. p \in Nat /\ 1 <= p /\ p <= N /\ M \in Nat /\ N = M + 1 /\ M = N - 1
  BY <1>1
<1>4. \A i \in 1..N : s[i] # NULL /\ (i # p => s[i] \in Nodes \ {c})
  BY <1>1, NullIsNothing
<1>5. \A i \in 1..N : i # p => nd2[s[i]] = Relinked(nd, s[i], a, b, b, a)
  BY <1>4 DEF Removed
<1>6. \A i \in 1..N : /\ nd[s[i]].in_use
                      /\ nd[s[i]].next = Nth(s, i + 1)
                      /\ nd[s[i]].prev = Nth(s, i - 1)
  BY DEF IsList, IsWalk
<1>7. /\ l.head = Nth(s, 1) /\ l.tail = Nth(s, N) /\ l.size = N
  BY DEF IsList, IsWalk
<1>8. \A i \in 1..N : (s[i] = a <=> i = p - 1) /\ (s[i] = b <=> i = p + 1)
  BY <1>1, <1>3, <1>4 DEF Nth
<1> HIDE DEF a, b, c, N, M
<1>9. ASSUME NEW i \in 1..N, i # p
      PROVE  /\ nd2[s[i]].in_use
             /\ nd2[s[i]].next = IF i = p - 1 THEN b ELSE Nth(s, i + 1)
             /\ nd2[s[i]].prev = IF i = p + 1 THEN a ELSE Nth(s, i - 1)
  <2>1. nd2[s[i]] = [in_use |-> nd[s[i]].in_use, item |-> nd[s[i]].item,
                     next |-> IF s[i] = a THEN b ELSE nd[s[i]].next,
                     prev |-> IF s[i] = b THEN a ELSE nd[s[i]].prev]
    BY <1>5, <1>9 DEF Relinked
  <2>2. nd[s[i]].in_use /\ nd[s[i]].next = Nth(s, i + 1) /\ nd[s[i]].prev = Nth(s, i - 1)
    BY <1>6
  <2>3. (s[i] = a <=> i = p - 1) /\ (s[i] = b <=> i = p + 1)
    BY <1>8
  <2>4. /\ nd2[s[i]].in_use
        /\ nd2[s[i]].next = IF s[i] = a THEN b ELSE Nth(s, i + 1)
        /\ nd2[s[i]].prev = IF s[i] = b THEN a ELSE Nth(s, i - 1)
    BY <2>1, <2>2
  <2> QED
    BY <2>3, <2>4
<1> HIDE DEF t
<1>10. ASSUME NEW i \in 1..M
       PROVE  /\ i \in Int /\ 1 <= i /\ i <= M
              /\ i < p => i \in 1..N /\ i # p /\ t[i] = s[i]
              /\ ~ (i < p) => i + 1 \in 1..N /\ i + 1 # p /\ i + 1 > p /\ t[i] = s[i + 1]
  BY <1>2, <1>3
<1>11. ASSUME NEW i \in 1..M, NEW j \in 1..M, t[i] = t[j]
       PROVE  i = j
  <2>1. CASE i < p /\ j < p
    BY <2>1, <1>1, <1>10, <1>11
  <2>2. CASE i < p /\ ~ (j < p)
    <3>1. i = j + 1
      BY <2>2, <1>1, <1>10, <1>11
    <3> QED
      BY <3>1, <2>2, <1>3, <1>10
  <2>3. CASE ~ (i < p) /\ j < p
    <3>1. i + 1 = j
      BY <2>3, <1>1, <1>10, <1>11
    <3> QED
      BY <3>1, <2>3, <1>3, <1>10
  <2>4. CASE ~ (i < p) /\ ~ (j < p)
    <3>1. i + 1 = j + 1
      BY <2>4, <1>1, <1>10, <1>11
    <3> QED
      BY <3>1, <1>10
  <2> QED
    BY <2>1, <2>2, <2>3, <2>4
<1>12. /\ \A i \in Int : i < p => Nth(t, i) = Nth(s, i)
       /\ \A i \in Int : i >= p => Nth(t, i) = Nth(s, i + 1)
  <2>1. ASSUME NEW i \in Int, i < p
        PROVE  Nth(t, i) = Nth(s, i)
    <3>1. i \in 1..Len(t) <=> i \in 1..Len(s)
      BY <2>1, <1>1, <1>2, <1>3 DEF N
    <3>2. i \in 1..Len(t) => t[i] = s[i]
      BY <2>1, <1>2
    <3> QED
      BY <3>1, <3>2 DEF Nth
  <2>2. ASSUME NEW i \in Int, i >= p
        PROVE  Nth(t, i) = Nth(s, i + 1)
    <3>1. i \in 1..Len(t) <=> i + 1 \in 1..Len(s)
      BY <2>2, <1>1, <1>2, <1>3 DEF N
    <3>2. i \in 1..Len(t) => t[i] = s[i + 1]
      BY <2>2, <1>2, <1>3
    <3> QED
      BY <3>1, <3>2 DEF Nth
  <2> QED
    BY <2>1, <2>2
<1>13. ASSUME NEW i \in 1..M
       PROVE  /\ nd2[t[i]].in_use
              /\ nd2[t[i]].next = Nth(t, i + 1)
              /\ nd2[t[i]].prev = Nth(t, i - 1)
  <2>0. i \in Int /\ i + 1 \in Int /\ i - 1 \in Int
    BY <1>10
  <2>1. CASE i < p
    <3>1. t[i] = s[i] /\ i \in 1..N /\ i # p /\ i # p + 1
      BY <2>1, <1>3, <1>10
    <3>2. nd2[t[i]].in_use /\ nd2[t[i]].next = (IF i = p - 1 THEN b ELSE Nth(s, i + 1))
          /\ nd2[t[i]].prev = Nth(s, i - 1)
      BY <3>1, <1>9
    <3>3. Nth(t, i - 1) = Nth(s, i - 1)
      BY <2>0, <2>1, <1>3, <1>12
    <3>4. CASE i = p - 1
      <4>1. i + 1 = p
        BY <3>4, <1>3
      <4>2. p >= p /\ p \in Int
        BY <1>3
      <4>3. Nth(t, p) = b
        BY <4>2, <1>12 DEF b
      <4> QED
        BY <3>2, <3>3, <3>4, <4>1, <4>3
    <3>5. CASE i # p - 1
      <4>1. i + 1 < p
        BY <3>5, <2>0, <2>1, <1>3
      <4>2. Nth(t, i + 1) = Nth(s, i + 1)
        BY <4>1, <2>0, <1>12
      <4> QED
        BY <3>2, <3>3, <3>5, <4>2
    <3> QED
      BY <3>4, <3>5
  <2>2. CASE ~ (i < p)
    <3> DEFINE k == i + 1
    <3>0. N \in Int /\ M = N - 1 /\ p \in Int /\ i \in 1..M /\ t[i] = s[k]
      BY <2>2, <1>3, <1>10
    <3>1. t[i] = s[k] /\ k \in 1..N /\ k # p /\ k # p - 1 /\ k \in Int /\ k > p /\ k - 1 = i
      <4> HIDE DEF N, M, t
      <4>1. k \in 1..N /\ k # p /\ k # p - 1 /\ k \in Int /\ k > p /\ k - 1 = i
        BY <2>2, <3>0
      <4> QED
        BY <3>0, <4>1
    <3>2. Nth(t, k) = Nth(s, k + 1)
      <4>1. k >= p
        BY <3>1, <1>3
      <4> QED
        BY <4>1, <3>1, <1>12
    <3>3. (k = p + 1 <=> i = p)
      BY <2>0, <1>3
    <3> HIDE DEF k
    <3>4. nd2[s[k]].in_use /\ nd2[s[k]].next = Nth(s, k + 1)
          /\ nd2[s[k]].prev = (IF k = p + 1 THEN a ELSE Nth(s, k - 1))
      BY <3>1, <1>9
    <3>5. nd2[s[k]].prev = Nth(t, i - 1)
      <4>1. CASE i = p
        <5>1. i - 1 < p
          BY <4>1, <1>3
        <5>2. Nth(t, i - 1) = Nth(s, i - 1)
          BY <5>1, <2>0, <1>12
        <5>3. Nth(s, i - 1) = a
          BY <4>1 DEF a
        <5> QED
          BY <3>3, <3>4, <4>1, <5>2, <5>3
      <4>2. CASE i # p
        <5>1. i - 1 >= p /\ (i - 1) + 1 = i
          BY <4>2, <2>0, <2>2, <1>3
        <5>2. Nth(t, i - 1) = Nth(s, i)
          BY <5>1, <2>0, <1>12
        <5> QED
          BY <3>1, <3>3, <3>4, <4>2, <5>2
      <4> QED
        BY <4>1, <4>2
    <3> QED
      BY <3>1, <3>2, <3>4, <3>5 DEF k
  <2> QED
    BY <2>1, <2>2
<1>14. /\ l2.size = M
       /\ l2.head = IF p = 1 THEN b ELSE l.head
       /\ l2.tail = IF p = N THEN a ELSE l.tail
       /\ l2.cursor = IF p = N THEN a ELSE b
  BY <1>7 DEF Shortened, a, b, N, M
<1>15. a = Nth(t, p - 1) /\ b = Nth(t, p)
  <2>1. p - 1 \in Int /\ p - 1 < p /\ p \in Int /\ p >= p
    BY <1>3
  <2> QED
    BY <2>1, <1>12 DEF a, b
<1>16. l2.head = Nth(t, 1)
  <2>1. CASE p = 1
    BY <2>1, <1>14, <1>15
  <2>2. CASE p # 1
    <3>1. 1 < p
      BY <2>2, <1>3
    <3>2. Nth(t, 1) = Nth(s, 1)
      BY <3>1, <1>12
    <3> QED
      BY <2>2, <3>2, <1>7, <1>14
  <2> QED
    BY <2>1, <2>2
<1>17. l2.tail = Nth(t, M)
  <2>1. CASE p = N
    <3>1. p - 1 = M
      BY <2>1, <1>3
    <3> QED
      BY <2>1, <3>1, <1>14, <1>15
  <2>2. CASE p # N
    <3>1. M >= p /\ M \in Int /\ M + 1 = N
      BY <2>2, <1>3
    <3>2. Nth(t, M) = Nth(s, N)
      BY <3>1, <1>12
    <3> QED
      BY <2>2, <3>2, <1>7, <1>14
  <2> QED
    BY <2>1, <2>2
<1>18. l2.cursor = Nth(t, IF p > M THEN M ELSE p)
  <2>1. CASE p = N
    <3>1. p - 1 = M /\ p > M
      BY <2>1, <1>3
    <3> QED
      BY <2>1, <3>1, <1>14, <1>15
  <2>2. CASE p # N
    <3>1. ~ (p > M)
      BY <2>2, <1>3
    <3> QED
      BY <2>2, <3>1, <1>14, <1>15
  <2> QED
    BY <2>1, <2>2
<1>19. IsWalk(nd2, l2.head, t)
  BY <1>2, <1>11, <1>13, <1>16 DEF IsWalk
<1> DEFINE q == IF p > M THEN M ELSE p
<1>20. q \in 0..M /\ l2.cursor = Nth(t, q)
  BY <1>3, <1>18
<1> HIDE DEF q
<1>21. l2.cursor \in ToSet(t) \cup {NULL} /\ Position(t, l2.cursor) = q
  <2>1. CASE q = 0
    <3>1. l2.cursor = NULL
      BY <2>1, <1>20 DEF Nth
    <3>2. Position(t, NULL) = 0
      BY <1>2, <1>11, PositionIs
    <3> QED
      BY <2>1, <3>1, <3>2
  <2>2. CASE q # 0
    <3>1. q \in 1..Len(t) /\ l2.cursor = t[q] /\ DOMAIN t = 1..Len(t)
      BY <2>2, <1>2, <1>3, <1>20 DEF Nth
    <3>2. Position(t, t[q]) = q
      BY <1>2, <1>11, <3>1, PositionIs
    <3> QED
      BY <3>1, <3>2 DEF ToSet
  <2> QED
    BY <2>1, <2>2
<1>22. IsList(nd2, l2, t)
  BY <1>2, <1>13, <1>14, <1>17, <1>19, <1>21 DEF IsList
<1> QED
  BY <1>21, <1>22 DEF t, q, M

LEMMA RemovedItems ==
    ASSUME NEW nd, NEW nd2, NEW l, NEW s, IsList(nd, l, s), NEW p \in 1..Len(s),
           Removed(nd, nd2, s[p], Nth(s, p - 1), Nth(s, p + 1))
    PROVE  /\ Stored(nd2, RemoveAt(s, p)) = RemoveAt(Stored(nd, s), p)
           /\ ToSet(RemoveAt(s, p)) = ToSet(s) \ {s[p]}
           /\ \A k \in Nodes \ ToSet(s) : nd2[k] = nd[k]
           /\ \A k \in ToSet(s) \ {s[p]} : nd2[k].in_use = nd[k].in_use
           /\ ~ nd2[s[p]].in_use
<1> DEFINE t == RemoveAt(s, p)
           N == Len(s)
           M == Len(s) - 1
           c == s[p]
           a == Nth(s, p - 1)
           b == Nth(s, p + 1)
           I == Items \cup {NULL}
<1>1. /\ s \in Seq(Nodes) /\ N \in Nat /\ ToSet(s) = {s[i] : i \in 1..N}
      /\ \A i \in 1..N : s[i] \in Nodes
      /\ \A i, j \in 1..N : s[i] = s[j] => i = j
  BY ChainOfList
<1>2. /\ t \in Seq(Nodes) /\ Len(t) = M
      /\ \A i \in 1..M : t[i] = IF i < p THEN s[i] ELSE s[i + 1]
  BY <1>1, RemoveAtIs
<1>3. p \in Nat /\ 1 <= p /\ p <= N /\ M \in Nat /\ N = M + 1 /\ M = N - 1 /\ p \in 1..N
  BY <1>1
<1>4. /\ nd \in [Nodes -> InternalNode] /\ nd2 \in [Nodes -> InternalNode]
      /\ nd2[c] = BlankNode
      /\ \A k \in Nodes \ {c} : nd2[k] = Relinked(nd, k, a, b, b, a)
  BY DEF Removed
<1>5. \A i \in 1..N : i # p => s[i] \in Nodes \ {c}
  BY <1>1, <1>3
<1>6. \A i \in 1..N : i # p => nd2[s[i]].item = nd[s[i]].item
  BY <1>4, <1>5 DEF Relinked
<1> HIDE DEF t, N, M, c, a, b
<1>7. /\ Stored(nd, s) \in Seq(I) /\ Len(Stored(nd, s)) = N
      /\ \A i \in 1..N : Stored(nd, s)[i] = nd[s[i]].item
  BY <1>1, <1>4, StoredIs DEF N
<1>8. /\ Stored(nd2, t) \in Seq(I) /\ Len(Stored(nd2, t)) = M
      /\ \A i \in 1..M : Stored(nd2, t)[i] = nd2[t[i]].item
  BY <1>2, <1>4, StoredIs
<1>9. ASSUME NEW i \in 1..M
      PROVE  /\ i < p => i \in 1..N /\ i # p /\ t[i] = s[i]
             /\ ~ (i < p) => i + 1 \in 1..N /\ i + 1 # p /\ t[i] = s[i + 1]
  BY <1>2, <1>3
<1>10. Stored(nd2, t) = RemoveAt(Stored(nd, s), p)
  <2> DEFINE u == Stored(nd, s)
             v == RemoveAt(u, p)
             w == Stored(nd2, t)
  <2>1. u \in Seq(I) /\ Len(u) = N /\ p \in 1..Len(u)
    BY <1>3, <1>7
  <2> HIDE DEF u, I, w
  <2>2. /\ v \in Seq(I) /\ Len(v) = Len(u) - 1
        /\ \A i \in 1..(Len(u) - 1) : v[i] = IF i < p THEN u[i] ELSE u[i + 1]
    <3>1. u \in Seq(I) /\ p \in 1..Len(u)
      BY <2>1
    <3> QED
      BY <3>1, RemoveAtIs
  <2> HIDE DEF v
  <2>3. Len(u) - 1 = M
    BY <2>1, <1>3
  <2>4. ASSUME NEW i \in 1..M
        PROVE  w[i] = v[i]
    <3>1. w[i] = nd2[t[i]].item
      BY <1>8 DEF w
    <3>2. v[i] = IF i < p THEN u[i] ELSE u[i + 1]
      BY <2>2, <2>3
    <3>3. CASE i < p
      BY <3>1, <3>2, <3>3, <1>6, <1>7, <1>9 DEF u
    <3>4. CASE ~ (i < p)
      <4> DEFINE j == i + 1
      <4>1. j \in 1..N /\ j # p /\ t[i] = s[j] /\ v[i] = u[j]
        BY <3>2, <3>4, <1>9
      <4> HIDE DEF j
      <4> QED
        BY <3>1, <4>1, <1>6, <1>7 DEF u
    <3> QED
      BY <3>3, <3>4
  <2>5. w \in Seq(I) /\ Len(w) = M
    BY <1>8 DEF w, I
  <2>6. w = v
    BY <2>2, <2>3, <2>4, <2>5, SeqEqual
  <2> QED
    BY <2>6 DEF v, w, u
<1>11. ToSet(t) = ToSet(s) \ {c}
  <2>1. ToSet(t) = {t[i] : i \in 1..M}
    BY <1>2 DEF ToSet
  <2>2. \A i \in 1..M : t[i] \in ToSet(s) \ {c}
    BY <1>1, <1>5, <1>9
  <2>3. ASSUME NEW i \in 1..N, i # p
        PROVE  s[i] \in ToSet(t)
    <3>1. CASE i < p
      <4>1. i \in 1..M /\ t[i] = s[i]
        BY <3>1, <1>2, <1>3
      <4> QED
        BY <4>1, <2>1
    <3>2. CASE ~ (i < p)
      <4> DEFINE j == i - 1
      <4>1. j \in 1..M /\ ~ (j < p) /\ j + 1 = i
        BY <2>3, <3>2, <1>3
      <4> HIDE DEF j
      <4>2. t[j] = s[i]
        BY <4>1, <1>2
      <4> QED
        BY <4>1, <4>2, <2>1
    <3> QED
      BY <3>1, <3>2
  <2>4. \A k \in ToSet(s) \ {c} : \E i \in 1..N : i # p /\ k = s[i]
    BY <1>1 DEF c
  <2> QED
    BY <2>1, <2>2, <2>3, <2>4
<1>12. ASSUME NEW k \in Nodes \ ToSet(s)
       PROVE  nd2[k] = nd[k]
  <2>1. p - 1 \in Int /\ p + 1 \in Int
    BY <1>3
  <2>2. k # a /\ k # b
    BY <1>1, <2>1, NthIs DEF a, b
  <2>3. k # c
    BY <1>1, <1>3 DEF c
  <2>4. nd2[k] = Relinked(nd, k, a, b, b, a)
    BY <2>3, <1>4
  <2> QED
    BY <1>4, <2>2, <2>4, RelinkedElsewhere
<1>13. ASSUME NEW k \in ToSet(s) \ {c}
       PROVE  nd2[k].in_use = nd[k].in_use
  BY <1>1, <1>4, <1>13 DEF Relinked
<1>14. ~ nd2[c].in_use
  BY <1>4 DEF BlankNode
<1> QED
  BY <1>10, <1>11, <1>12, <1>13, <1>14 DEF t, c

\* The call takes the node at position p out of list h.
Removes(h, p) ==
    LET s == Chained(h)
        a == Nth(s, p - 1)
        b == Nth(s, p + 1)
    IN  /\ p \in 1..Len(s)
        /\ Removed(node, node', s[p], a, b)
        /\ list' \in [Handles -> InternalList]
        /\ \A g \in Handles \ {h} : list'[g] = list[g]
        /\ list'[h].in_use
        /\ Shortened(list[h], list'[h], a, b, p = 1, p = Len(s))
        /\ value' = node[s[p]].item
        /\ crashed' = crashed

LEMMA RemovesOutcome ==
    ASSUME ListInv, NEW h \in Live, NEW p, Removes(h, p)
    PROVE  LET s == Chained(h)
               m == Len(s) - 1
           IN  /\ Outcome({h}, {h}, RemoveAt(s, p), {})
               /\ p \in 1..Len(s)
               /\ Contents(h)' = [items |-> RemoveAt(Contents(h).items, p),
                                  cur |-> IF p > m THEN m ELSE p]
               /\ value' = Contents(h).items[p]
<1> DEFINE s == Chained(h)
           t == RemoveAt(s, p)
           l == list[h]
           l2 == list'[h]
           nd == node
           nd2 == node'
           a == Nth(s, p - 1)
           b == Nth(s, p + 1)
           m == Len(s) - 1
           cur == IF p > m THEN m ELSE p
<1>1. /\ h \in Handles /\ IsList(nd, l, s) /\ Linked(h) = ToSet(s) /\ Linked(h) \subseteq InUse
      /\ s \in Seq(Nodes) /\ \A i \in 1..Len(s) : s[i] \in Nodes
  BY LiveList, LiveShape DEF Linked
<1>2. /\ p \in 1..Len(s) /\ Removed(nd, nd2, s[p], a, b)
      /\ Shortened(l, l2, a, b, p = 1, p = Len(s))
      /\ value' = nd[s[p]].item
  BY DEF Removes
<1> HIDE DEF s, l, l2, nd, nd2
<1>3. /\ IsList(nd2, l2, t)
      /\ Position(t, l2.cursor) = cur
  BY <1>1, <1>2, RemovedWalk
<1>4. /\ Stored(nd2, t) = RemoveAt(Stored(nd, s), p)
      /\ ToSet(t) = ToSet(s) \ {s[p]}
      /\ \A k \in Nodes \ ToSet(s) : nd2[k] = nd[k]
      /\ \A k \in ToSet(s) \ {s[p]} : nd2[k].in_use = nd[k].in_use
      /\ ~ nd2[s[p]].in_use
  BY <1>1, <1>2, RemovedItems
<1> HIDE DEF t, a, b, cur
<1>5. TypeOK' /\ nd \in [Nodes -> InternalNode]
  <2>1. crashed' \in BOOLEAN
    BY DEF Removes, ListInv, TypeOK
  <2> QED
    BY <1>2, <2>1 DEF Removes, TypeOK, Removed, nd2
<1>6. \A k \in InUse \ Linked(h) : node'[k] = node[k]
  BY <1>1, <1>4 DEF InUse, nd, nd2
<1>7. InUse' = InUse \ {s[p]}
  <2>1. ASSUME NEW k \in Nodes
        PROVE  k \in InUse' <=> k \in InUse \ {s[p]}
    <3>1. k \in InUse' <=> nd2[k].in_use
      BY DEF InUse, nd2
    <3>2. k \in InUse <=> nd[k].in_use
      BY DEF InUse, nd
    <3>3. CASE k = s[p]
      BY <3>1, <3>3, <1>4
    <3>4. CASE k # s[p]
      BY <3>1, <3>2, <3>4, <1>4
    <3> QED
      BY <3>3, <3>4
  <2>2. InUse' \subseteq Nodes /\ InUse \subseteq Nodes
    BY DEF InUse
  <2> QED
    BY <2>1, <2>2
<1>8. Touches(h) /\ list'[h].in_use /\ IsList(node', list'[h], t)
  BY <1>3, <1>6 DEF Touches, Removes, nd2, l2
<1>9. s[p] \in ToSet(s)
  BY <1>1, <1>2 DEF ToSet
<1>10. /\ ToSet(t) \subseteq Linked(h) \cup Fresh
       /\ InUse' = (InUse \ Linked(h)) \cup ToSet(t) \cup {}
  BY <1>1, <1>4, <1>7, <1>9
<1>11. Outcome({h}, {h}, t, {})
  BY <1>5, <1>8, <1>10, OneListOutcome
<1>12. Chained(h)' = t
  BY <1>11, NewList
<1>13. Contents(h)' = [items |-> Stored(nd2, t), cur |-> cur]
  <2>1. Position(Chained(h), list[h].cursor)' = cur
    BY <1>3, <1>12 DEF l2
  <2> QED
    BY <1>12, <2>1 DEF Contents, nd2
<1>14. Contents(h).items = Stored(nd, s)
  BY DEF Contents, nd, s
<1>15. value' = Stored(nd, s)[p]
  BY <1>1, <1>2, <1>5, StoredIs
<1> QED
  BY <1>2, <1>4, <1>11, <1>13, <1>14, <1>15 DEF t, s, cur

-----------------------------------------------------------------------------
(* The functions of list_removers.c take out the right node.               *)

LEMMA RemovedByLinks ==
    ASSUME NEW nd \in [Nodes -> InternalNode], NEW c \in Nodes,
           NEW a \in (Nodes \cup {NULL}) \ {c}, NEW b \in (Nodes \cup {NULL}) \ {c},
           NEW nd2, nd2 = [LinkNext(LinkPrev(nd, b, a), a, b) EXCEPT ![c] = BlankNode]
    PROVE  Removed(nd, nd2, c, a, b)
<1> DEFINE nd1 == LinkPrev(nd, b, a)
           nd11 == LinkNext(nd1, a, b)
<1>1. /\ nd1 \in [Nodes -> InternalNode]
      /\ \A k \in Nodes : nd1[k] = [in_use |-> nd[k].in_use, item |-> nd[k].item,
                                    next |-> nd[k].next,
                                    prev |-> IF k = b THEN a ELSE nd[k].prev]
  <2>1. a \in Nodes \cup {NULL} /\ b \in Nodes \cup {NULL}
    OBVIOUS
  <2>2. PrevSet(nd, nd1, b, a)
    BY <2>1, LinkPrevIs
  <2> QED
    BY <2>2 DEF PrevSet
<1> HIDE DEF nd1
<1>2. /\ nd11 \in [Nodes -> InternalNode]
      /\ \A k \in Nodes : nd11[k] = [in_use |-> nd1[k].in_use, item |-> nd1[k].item,
                                     next |-> IF k = a THEN b ELSE nd1[k].next,
                                     prev |-> nd1[k].prev]
  <2>1. a \in Nodes \cup {NULL} /\ b \in Nodes \cup {NULL}
    OBVIOUS
  <2>2. NextSet(nd1, nd11, a, b)
    BY <1>1, <2>1, LinkNextIs
  <2> QED
    BY <2>2 DEF NextSet
<1>3. nd2 = [nd11 EXCEPT ![c] = BlankNode]
  BY DEF nd1
<1> HIDE DEF nd11
<1>4. BlankNode \in InternalNode
  BY DEF BlankNode, InternalNode
<1>5. /\ nd2 \in [Nodes -> InternalNode] /\ nd2[c] = BlankNode
      /\ \A k \in Nodes \ {c} : nd2[k] = nd11[k]
  BY <1>2, <1>3, <1>4
<1>6. ASSUME NEW k \in Nodes \ {c}
      PROVE  nd2[k] = Relinked(nd, k, a, b, b, a)
  <2>1. nd11[k] = Relinked(nd, k, a, b, b, a)
    BY <1>1, <1>2 DEF Relinked
  <2> QED
    BY <2>1, <1>5
<1> QED
  BY <1>5, <1>6 DEF Removed

\* The neighbours of the node at position p.
LEMMA Neighbours ==
    ASSUME ListInv, NEW h \in Live, NEW p \in 1..Len(Chained(h))
    PROVE  LET s == Chained(h)
               a == Nth(s, p - 1)
               b == Nth(s, p + 1)
           IN  /\ s[p] \in Nodes /\ s[p] # NULL
               /\ a \in (Nodes \cup {NULL}) \ {s[p]}
               /\ b \in (Nodes \cup {NULL}) \ {s[p]}
               /\ node[s[p]].prev = a /\ node[s[p]].next = b
               /\ a = NULL <=> p = 1
               /\ b = NULL <=> p = Len(s)
<1> DEFINE s == Chained(h)
           a == Nth(s, p - 1)
           b == Nth(s, p + 1)
<1>1. /\ s \in Seq(Nodes) /\ Len(s) \in Nat
      /\ \A i \in 1..Len(s) : s[i] \in Nodes /\ s[i] # NULL
      /\ \A i, j \in 1..Len(s) : s[i] = s[j] => i = j
      /\ \A i \in 1..Len(s) : /\ node[s[i]].next = Nth(s, i + 1)
                              /\ node[s[i]].prev = Nth(s, i - 1)
  BY LiveShape
<1>2. p \in 1..Len(s) /\ p \in Int /\ 1 <= p /\ p <= Len(s)
  BY <1>1
<1> HIDE DEF s
<1>3. a \in (Nodes \cup {NULL}) \ {s[p]} /\ (a = NULL <=> p = 1)
  <2>1. CASE p = 1
    <3>1. p - 1 \notin 1..Len(s)
      BY <2>1
    <3>2. a = NULL
      BY <3>1 DEF Nth
    <3> QED
      BY <3>2, <2>1, <1>1, <1>2
  <2>2. CASE p # 1
    <3>1. p - 1 \in 1..Len(s) /\ p - 1 # p
      BY <2>2, <1>1, <1>2
    <3>2. a = s[p - 1]
      BY <3>1 DEF Nth
    <3> QED
      BY <3>1, <3>2, <2>2, <1>1, <1>2
  <2> QED
    BY <2>1, <2>2
<1>4. b \in (Nodes \cup {NULL}) \ {s[p]} /\ (b = NULL <=> p = Len(s))
  <2>1. CASE p = Len(s)
    <3>1. p + 1 \notin 1..Len(s)
      BY <2>1, <1>1
    <3>2. b = NULL
      BY <3>1 DEF Nth
    <3> QED
      BY <3>2, <2>1, <1>1, <1>2
  <2>2. CASE p # Len(s)
    <3>1. p + 1 \in 1..Len(s) /\ p + 1 # p
      BY <2>2, <1>1, <1>2
    <3>2. b = s[p + 1]
      BY <3>1 DEF Nth
    <3> QED
      BY <3>1, <3>2, <2>2, <1>1, <1>2
  <2> QED
    BY <2>1, <2>2
<1>5. node[s[p]].prev = a /\ node[s[p]].next = b
  BY <1>1, <1>2
<1> QED
  BY <1>1, <1>2, <1>3, <1>4, <1>5 DEF s, a, b

LEMMA RemovesByWrites ==
    ASSUME ListInv, NEW h \in Live, NEW p \in 1..Len(Chained(h)),
           NEW a, a = Nth(Chained(h), p - 1), NEW b, b = Nth(Chained(h), p + 1),
           NEW nd2, Removed(node, nd2, Chained(h)[p], a, b),
           NEW head, head = (IF p = 1 THEN b ELSE list[h].head),
           NEW tail, tail = (IF p = Len(Chained(h)) THEN a ELSE list[h].tail),
           NEW cursor, cursor = (IF p = Len(Chained(h)) THEN a ELSE b),
           NEW v, v = node[Chained(h)[p]].item,
           NEW l2, Writes(nd2, h, l2, v),
           l2 = [in_use |-> list[h].in_use, head |-> head, tail |-> tail,
                 cursor |-> cursor, size |-> list[h].size - 1]
    PROVE  Removes(h, p)
<1>1. /\ Len(Chained(h)) \in Nat /\ list[h].size = Len(Chained(h))
      /\ list[h] \in InternalList /\ list[h].in_use
  BY LiveShape
<1>2. a \in Nodes \cup {NULL} /\ b \in Nodes \cup {NULL}
  BY Neighbours
<1>3. l2 \in InternalList /\ l2.in_use
  <2>1. head \in Nodes \cup {NULL} /\ tail \in Nodes \cup {NULL} /\ cursor \in Nodes \cup {NULL}
    BY <1>1, <1>2 DEF InternalList
  <2>2. list[h].in_use \in BOOLEAN /\ list[h].size - 1 \in Nat
    <3> DEFINE N == list[h].size
    <3>1. N \in Nat /\ N # 0
      BY <1>1
    <3> HIDE DEF N
    <3>2. N - 1 \in Nat
      BY <3>1
    <3> QED
      BY <1>1, <3>2 DEF N, InternalList
  <2> QED
    BY <1>1, <2>1, <2>2 DEF InternalList
<1>4. Shortened(list[h], l2, a, b, p = 1, p = Len(Chained(h)))
  BY DEF Shortened
<1>5. /\ node' = nd2 /\ list' \in [Handles -> InternalList] /\ list'[h] = l2
      /\ \A g \in Handles \ {h} : list'[g] = list[g]
      /\ value' = v /\ crashed' = crashed
  BY <1>3, WritesList DEF ListInv
<1> QED
  BY <1>3, <1>4, <1>5 DEF Removes


\* The struct that ListRemove leaves.
LEMMA WithoutIs ==
    ASSUME NEW l \in InternalList, NEW prev, NEW next
    PROVE  Without(l, prev, next) =
             [in_use |-> l.in_use,
              head |-> IF next # NULL /\ prev = NULL THEN next
                       ELSE IF l.head = l.tail THEN NULL ELSE l.head,
              tail |-> IF next = NULL THEN prev
                       ELSE IF l.head = l.tail THEN NULL ELSE l.tail,
              cursor |-> IF next = NULL THEN prev ELSE next,
              size |-> l.size - 1]
<1> DEFINE u == l.in_use
           hd == l.head
           tl == l.tail
           cu == l.cursor
           sz == l.size
           one == l.head = l.tail
           cu2 == IF next = NULL THEN prev ELSE next
           tl2 == IF next = NULL THEN prev ELSE IF one THEN NULL ELSE tl
           hd2 == IF next # NULL /\ prev = NULL THEN next ELSE IF one THEN NULL ELSE hd
           sz2 == sz - 1
           l1 == [l EXCEPT !.cursor = cu2]
           l2 == [l1 EXCEPT !.tail = IF next = NULL THEN prev ELSE IF one THEN NULL ELSE @]
           l3 == [l2 EXCEPT !.head = IF next # NULL /\ prev = NULL THEN next
                                     ELSE IF one THEN NULL ELSE @]
           l4 == [l3 EXCEPT !.size = @ - 1]
<1>1. Without(l, prev, next) = l4
  BY DEF Without
<1>2. l = [in_use |-> u, head |-> hd, tail |-> tl, cursor |-> cu, size |-> sz]
  BY DEF InternalList
<1>3. /\ tl2 = (IF next = NULL THEN prev ELSE IF one THEN NULL ELSE tl)
      /\ hd2 = (IF next # NULL /\ prev = NULL THEN next ELSE IF one THEN NULL ELSE hd)
      /\ sz2 = sz - 1
  OBVIOUS
<1>4. /\ u = l.in_use /\ hd = l.head /\ tl = l.tail /\ sz = l.size
      /\ one <=> l.head = l.tail
      /\ cu2 = (IF next = NULL THEN prev ELSE next)
  OBVIOUS
<1> HIDE DEF u, hd, tl, cu, sz, one, cu2, tl2, hd2, sz2
<1>5. l1 = [in_use |-> u, head |-> hd, tail |-> tl, cursor |-> cu2, size |-> sz]
  BY <1>2
<1> HIDE DEF l1
<1>6. l2 = [in_use |-> u, head |-> hd, tail |-> tl2, cursor |-> cu2, size |-> sz]
  BY <1>3, <1>5
<1> HIDE DEF l2
<1>7. l3 = [in_use |-> u, head |-> hd2, tail |-> tl2, cursor |-> cu2, size |-> sz]
  BY <1>3, <1>6
<1> HIDE DEF l3
<1>8. l4 = [in_use |-> u, head |-> hd2, tail |-> tl2, cursor |-> cu2, size |-> sz2]
  BY <1>3, <1>7
<1> HIDE DEF l4
<1> QED
  BY <1>1, <1>3, <1>4, <1>8

LEMMA ListRemoveStep ==
    ASSUME ListInv, NEW h \in Live, ListRemove(h)
    PROVE  \/ Contents(h).cur = 0 /\ Leaves(NULL)
           \/ Contents(h).cur # 0 /\ Removes(h, Contents(h).cur)
<1> DEFINE s == Chained(h)
           l == list[h]
           c == l.cursor
           p == Position(s, c)
           a == Nth(s, p - 1)
           b == Nth(s, p + 1)
           prev == node[c].prev
           next == node[c].next
           cleared == [IF l.head = l.tail THEN node
                       ELSE LinkNext(LinkPrev(node, next, prev), prev, next)
                         EXCEPT ![c] = BlankNode]
<1>1. IF l.size = 0 \/ c = NULL THEN Leaves(NULL)
      ELSE Writes(cleared, h, Without(l, prev, next), node[c].item)
  BY DEF ListRemove
<1>2. /\ Len(s) \in Nat /\ l.size = Len(s)
      /\ l.head = l.tail <=> Len(s) <= 1
      /\ \/ c = NULL /\ p = 0
         \/ c # NULL /\ p \in 1..Len(s) /\ c = s[p]
      /\ p = Contents(h).cur
      /\ l \in InternalList /\ node \in [Nodes -> InternalNode]
  BY LiveShape
<1>3. CASE c = NULL
  <2>1. Contents(h).cur = 0
    BY <1>2, <1>3
  <2> QED
    BY <1>1, <1>3, <2>1
<1>4. CASE c # NULL
  <2>1. p \in 1..Len(s) /\ c = s[p] /\ l.size # 0
    BY <1>2, <1>4
  <2>2. /\ c \in Nodes
        /\ a \in (Nodes \cup {NULL}) \ {c} /\ b \in (Nodes \cup {NULL}) \ {c}
        /\ prev = a /\ next = b
        /\ a = NULL <=> p = 1
        /\ b = NULL <=> p = Len(s)
    BY <2>1, Neighbours
  <2> DEFINE nd2 == [LinkNext(LinkPrev(node, b, a), a, b) EXCEPT ![c] = BlankNode]
             l2 == Without(l, a, b)
             head == IF p = 1 THEN b ELSE l.head
             tail == IF p = Len(s) THEN a ELSE l.tail
             cursor == IF p = Len(s) THEN a ELSE b
             v == node[c].item
  <2>3. l.head = l.tail <=> (a = NULL /\ b = NULL)
    <3> DEFINE N == Len(s)
    <3>1. /\ N \in Nat /\ p \in 1..N /\ (l.head = l.tail <=> N <= 1)
          /\ a = NULL <=> p = 1
          /\ b = NULL <=> p = N
      BY <1>2, <2>1, <2>2
    <3> HIDE DEF N, p, a, b, l
    <3> QED
      BY <3>1
  <2>4. Writes(nd2, h, l2, v)
    <3>1. Writes(cleared, h, Without(l, prev, next), v)
      BY <1>1, <1>4, <2>1
    <3>2. cleared = nd2
      <4>1. CASE l.head = l.tail
        <5>1. LinkNext(LinkPrev(node, b, a), a, b) = node
          BY <4>1, <2>3 DEF LinkNext, LinkPrev
        <5> QED
          BY <4>1, <5>1
      <4>2. CASE l.head # l.tail
        BY <4>2, <2>2
      <4> QED
        BY <4>1, <4>2
    <3> HIDE DEF cleared, nd2, v
    <3>3. Without(l, prev, next) = l2
      BY <2>2
    <3> QED
      BY <3>1, <3>2, <3>3
  <2>5. Removed(node, nd2, s[p], a, b)
    <3>1. Removed(node, nd2, c, a, b)
      <4> HIDE DEF a, b, c
      <4> QED
        BY <1>2, <2>2, RemovedByLinks
    <3> QED
      BY <3>1, <2>1
  <2>6. l2 = [in_use |-> l.in_use, head |-> head, tail |-> tail,
              cursor |-> cursor, size |-> l.size - 1]
    <3> HIDE DEF a, b, l, p, s
    <3>1. l2 = [in_use |-> l.in_use,
                head |-> IF b # NULL /\ a = NULL THEN b
                         ELSE IF l.head = l.tail THEN NULL ELSE l.head,
                tail |-> IF b = NULL THEN a
                         ELSE IF l.head = l.tail THEN NULL ELSE l.tail,
                cursor |-> IF b = NULL THEN a ELSE b,
                size |-> l.size - 1]
      BY <1>2, WithoutIs
    <3>2. head = (IF b # NULL /\ a = NULL THEN b
                  ELSE IF l.head = l.tail THEN NULL ELSE l.head)
      BY <2>2, <2>3
    <3>3. tail = (IF b = NULL THEN a ELSE IF l.head = l.tail THEN NULL ELSE l.tail)
      BY <2>2, <2>3
    <3>4. cursor = (IF b = NULL THEN a ELSE b)
      BY <2>2
    <3> QED
      BY <3>1, <3>2, <3>3, <3>4
  <2>7. v = node[s[p]].item
    BY <2>1
  <2> HIDE DEF nd2, l2, v
  <2>8. Removes(h, p)
    <3> DEFINE hd == head
               tl == tail
               cu == cursor
    <3>1. /\ hd = (IF p = 1 THEN b ELSE list[h].head)
          /\ tl = (IF p = Len(Chained(h)) THEN a ELSE list[h].tail)
          /\ cu = (IF p = Len(Chained(h)) THEN a ELSE b)
          /\ l2 = [in_use |-> list[h].in_use, head |-> hd, tail |-> tl,
                   cursor |-> cu, size |-> list[h].size - 1]
          /\ a = Nth(Chained(h), p - 1) /\ b = Nth(Chained(h), p + 1)
          /\ p \in 1..Len(Chained(h))
          /\ Removed(node, nd2, Chained(h)[p], a, b)
          /\ v = node[Chained(h)[p]].item
          /\ Writes(nd2, h, l2, v)
      BY <2>1, <2>4, <2>5, <2>6, <2>7
    <3> HIDE DEF hd, tl, cu, a, b, p
    <3> QED
      BY <3>1, RemovesByWrites
  <2>9. Contents(h).cur = p /\ p # 0
    BY <1>2, <2>1
  <2> QED
    BY <2>8, <2>9
<1> QED
  BY <1>3, <1>4


\* The struct that ListTrim leaves.
LEMMA TrimmedIs ==
    ASSUME NEW l \in InternalList, NEW only \in BOOLEAN, NEW prev
    PROVE  [l EXCEPT !.head = IF only THEN NULL ELSE @,
                     !.tail = IF only THEN NULL ELSE prev,
                     !.cursor = prev,
                     !.size = @ - 1] =
             [in_use |-> l.in_use,
              head |-> IF only THEN NULL ELSE l.head,
              tail |-> IF only THEN NULL ELSE prev,
              cursor |-> prev,
              size |-> l.size - 1]
<1> DEFINE u == l.in_use
           hd == l.head
           tl == l.tail
           cu == l.cursor
           sz == l.size
           hd2 == IF only THEN NULL ELSE hd
           tl2 == IF only THEN NULL ELSE prev
           sz2 == sz - 1
           l1 == [l EXCEPT !.head = IF only THEN NULL ELSE @]
           l2 == [l1 EXCEPT !.tail = IF only THEN NULL ELSE prev]
           l3 == [l2 EXCEPT !.cursor = prev]
           l4 == [l3 EXCEPT !.size = @ - 1]
<1>1. [l EXCEPT !.head = IF only THEN NULL ELSE @,
                !.tail = IF only THEN NULL ELSE prev,
                !.cursor = prev,
                !.size = @ - 1] = l4
  OBVIOUS
<1>2. l = [in_use |-> u, head |-> hd, tail |-> tl, cursor |-> cu, size |-> sz]
  BY DEF InternalList
<1>3. /\ hd2 = (IF only THEN NULL ELSE hd)
      /\ tl2 = (IF only THEN NULL ELSE prev)
      /\ sz2 = sz - 1
  OBVIOUS
<1>4. u = l.in_use /\ hd = l.head /\ sz = l.size
  OBVIOUS
<1> HIDE DEF u, hd, tl, cu, sz, hd2, tl2, sz2
<1>5. l1 = [in_use |-> u, head |-> hd2, tail |-> tl, cursor |-> cu, size |-> sz]
  BY <1>2, <1>3
<1> HIDE DEF l1
<1>6. l2 = [in_use |-> u, head |-> hd2, tail |-> tl2, cursor |-> cu, size |-> sz]
  BY <1>3, <1>5
<1> HIDE DEF l2
<1>7. l3 = [in_use |-> u, head |-> hd2, tail |-> tl2, cursor |-> prev, size |-> sz]
  BY <1>6
<1> HIDE DEF l3
<1>8. l4 = [in_use |-> u, head |-> hd2, tail |-> tl2, cursor |-> prev, size |-> sz2]
  BY <1>3, <1>7
<1> HIDE DEF l4
<1> QED
  BY <1>1, <1>3, <1>4, <1>8

LEMMA ListTrimStep ==
    ASSUME ListInv, NEW h \in Live, ListTrim(h)
    PROVE  \/ Len(Chained(h)) = 0 /\ Leaves(NULL)
           \/ Len(Chained(h)) # 0 /\ Removes(h, Len(Chained(h)))
<1> DEFINE s == Chained(h)
           l == list[h]
           p == Len(s)
           c == l.tail
           a == Nth(s, p - 1)
           b == Nth(s, p + 1)
           prev == node[c].prev
           only == l.head = l.tail
           cleared == [IF only THEN node ELSE [node EXCEPT ![prev].next = NULL]
                         EXCEPT ![c] = BlankNode]
           trimmed == [l EXCEPT !.head = IF only THEN NULL ELSE @,
                                !.tail = IF only THEN NULL ELSE prev,
                                !.cursor = prev,
                                !.size = @ - 1]
<1>1. IF l.size = 0 THEN Leaves(NULL)
      ELSE Writes(cleared, h, trimmed, node[c].item)
  BY DEF ListTrim
<1>2. /\ Len(s) \in Nat /\ l.size = Len(s)
      /\ l.tail = Nth(s, Len(s))
      /\ l.head = l.tail <=> Len(s) <= 1
      /\ l \in InternalList /\ node \in [Nodes -> InternalNode]
  BY LiveShape
<1>3. CASE Len(s) = 0
  BY <1>1, <1>2, <1>3
<1>4. CASE Len(s) # 0
  <2>1. p \in 1..Len(s) /\ c = s[p] /\ l.size # 0
    BY <1>2, <1>4 DEF Nth
  <2>2. /\ c \in Nodes
        /\ a \in (Nodes \cup {NULL}) \ {c} /\ b \in (Nodes \cup {NULL}) \ {c}
        /\ prev = a
        /\ a = NULL <=> p = 1
        /\ b = NULL
    <3>1. /\ s[p] \in Nodes
          /\ a \in (Nodes \cup {NULL}) \ {s[p]} /\ b \in (Nodes \cup {NULL}) \ {s[p]}
          /\ node[s[p]].prev = a
          /\ a = NULL <=> p = 1
          /\ b = NULL <=> p = Len(s)
      BY <2>1, Neighbours
    <3> HIDE DEF a, b, c, s
    <3> QED
      BY <2>1, <3>1
  <2> DEFINE nd2 == [LinkNext(LinkPrev(node, b, a), a, b) EXCEPT ![c] = BlankNode]
             head == IF p = 1 THEN b ELSE l.head
             v == node[c].item
  <2>3. only <=> a = NULL
    <3> DEFINE N == Len(s)
    <3>1. N \in Nat /\ N # 0 /\ (only <=> N <= 1) /\ (a = NULL <=> N = 1)
      BY <1>2, <1>4, <2>2
    <3> HIDE DEF N, a, l
    <3> QED
      BY <3>1
  <2>4. cleared = nd2
    <3>1. LinkPrev(node, b, a) = node
      BY <2>2 DEF LinkPrev
    <3>2. CASE a = NULL
      <4>1. LinkNext(node, a, b) = node
        BY <3>2 DEF LinkNext
      <4> QED
        BY <2>3, <3>1, <3>2, <4>1
    <3>3. CASE a # NULL
      <4>1. LinkNext(node, a, b) = [node EXCEPT ![prev].next = NULL]
        BY <2>2, <3>3 DEF LinkNext
      <4>2. LinkNext(LinkPrev(node, b, a), a, b) =
              IF only THEN node ELSE [node EXCEPT ![prev].next = NULL]
        BY <2>3, <3>1, <3>3, <4>1
      <4> QED
        BY <4>2
    <3> QED
      BY <3>2, <3>3
  <2>5. Writes(nd2, h, trimmed, v)
    <3> HIDE DEF nd2, cleared, trimmed, v
    <3>1. Writes(cleared, h, trimmed, v)
      BY <1>1, <2>1 DEF v
    <3> QED
      BY <2>4, <3>1
  <2>6. Removed(node, nd2, s[p], a, b)
    <3>1. Removed(node, nd2, c, a, b)
      <4> HIDE DEF a, b, c
      <4> QED
        BY <1>2, <2>2, RemovedByLinks
    <3> QED
      BY <3>1, <2>1
  <2>7. trimmed = [in_use |-> l.in_use, head |-> head, tail |-> a,
                   cursor |-> a, size |-> l.size - 1]
    <3>1. only \in BOOLEAN
      OBVIOUS
    <3>2. only <=> p = 1
      BY <2>2, <2>3
    <3>3. head = (IF only THEN NULL ELSE l.head)
      BY <2>2, <3>2
    <3>4. a = (IF only THEN NULL ELSE prev) /\ prev = a
      BY <2>2, <2>3
    <3> HIDE DEF a, l, only, head, prev
    <3>5. trimmed = [in_use |-> l.in_use,
                     head |-> IF only THEN NULL ELSE l.head,
                     tail |-> IF only THEN NULL ELSE prev,
                     cursor |-> prev,
                     size |-> l.size - 1]
      BY <1>2, <3>1, TrimmedIs
    <3> HIDE DEF trimmed
    <3> QED
      BY <3>3, <3>4, <3>5
  <2>8. v = node[s[p]].item
    BY <2>1
  <2> HIDE DEF nd2, v
  <2>9. Removes(h, p)
    <3> DEFINE l2 == trimmed
               hd == head
               tl == a
               cu == a
    <3>1. /\ hd = (IF p = 1 THEN b ELSE list[h].head)
          /\ tl = (IF p = Len(Chained(h)) THEN a ELSE list[h].tail)
          /\ cu = (IF p = Len(Chained(h)) THEN a ELSE b)
          /\ l2 = [in_use |-> list[h].in_use, head |-> hd, tail |-> tl,
                   cursor |-> cu, size |-> list[h].size - 1]
          /\ a = Nth(Chained(h), p - 1) /\ b = Nth(Chained(h), p + 1)
          /\ p \in 1..Len(Chained(h))
          /\ Removed(node, nd2, Chained(h)[p], a, b)
          /\ v = node[Chained(h)[p]].item
          /\ Writes(nd2, h, l2, v)
      BY <2>1, <2>5, <2>6, <2>7, <2>8
    <3> HIDE DEF hd, tl, cu, a, b, p, l2
    <3> QED
      BY <3>1, RemovesByWrites
  <2> QED
    BY <1>4, <2>9
<1> QED
  BY <1>3, <1>4


-----------------------------------------------------------------------------
(* Calls that change no links of a list.                                   *)

\* A node is taken that nothing links to: it is lost.
LEMMA AddFailsOutcome ==
    ASSUME ListInv, NEW h \in Live, NEW n \in Fresh, NEW x \in Items, AddFails(h, n, x)
    PROVE  /\ Outcome({h}, {h}, Chained(h), {n})
           /\ Contents(h)' = Contents(h)
           /\ value' = Failure /\ crashed' = crashed
<1> DEFINE s == Chained(h)
           nd == node
           nd2 == node'
           r == NewNode(x, NULL, NULL)
<1>1. /\ h \in Handles /\ list[h].in_use /\ IsList(nd, list[h], s)
      /\ Linked(h) = ToSet(s) /\ Linked(h) \subseteq InUse
      /\ Linked(h) = {s[i] : i \in 1..Len(s)}
  BY LiveList DEF Linked
<1>2. /\ nd \in [Nodes -> InternalNode] /\ list \in [Handles -> InternalList]
      /\ crashed \in BOOLEAN
  BY DEF ListInv, TypeOK
<1>3. n \in Nodes /\ n \notin InUse
  BY DEF Fresh
<1>4. r \in InternalNode /\ r.in_use
  BY DEF NewNode, InternalNode
<1>5. nd2 = [nd EXCEPT ![n] = r] /\ list' = [list EXCEPT ![h] = list[h]]
      /\ value' = Failure /\ crashed' = crashed
  BY DEF AddFails, Writes, Returns
<1>6. list' = list
  BY <1>1, <1>2, <1>5
<1> HIDE DEF r
<1>7. /\ nd2 \in [Nodes -> InternalNode] /\ nd2[n].in_use
      /\ \A m \in Nodes \ {n} : nd2[m] = nd[m]
  BY <1>2, <1>3, <1>4, <1>5
<1>8. TypeOK'
  BY <1>2, <1>5, <1>6, <1>7 DEF TypeOK
<1>9. InUse' = InUse \cup {n}
  <2>1. \A m \in Nodes : (m \in InUse' <=> nd2[m].in_use) /\ (m \in InUse <=> nd[m].in_use)
    BY DEF InUse
  <2>2. \A m \in Nodes : m \in InUse' <=> m \in InUse \cup {n}
    BY <2>1, <1>7
  <2>3. InUse' \subseteq Nodes /\ InUse \cup {n} \subseteq Nodes
    BY <1>3 DEF InUse
  <2> QED
    BY <2>2, <2>3
<1>10. \A m \in InUse : m \in Nodes \ {n} /\ nd2[m] = nd[m]
  BY <1>3, <1>7 DEF InUse
<1>11. Touches(h)
  BY <1>6, <1>10 DEF Touches
<1>12. IsList(node', list'[h], s)
  <2> DEFINE l == list[h]
  <2>1. IsList(nd, l, s) /\ \A m \in ToSet(s) : nd2[m] = nd[m]
    BY <1>1, <1>10
  <2> HIDE DEF l, s, nd, nd2
  <2>2. IsList(nd2, l, s)
    BY <2>1, ListStays
  <2> QED
    BY <2>2, <1>6 DEF l, nd2
<1>13. /\ ToSet(s) \subseteq Linked(h) \cup Fresh
       /\ {n} \subseteq (Linked(h) \cup Fresh) \ ToSet(s)
       /\ InUse' = (InUse \ Linked(h)) \cup ToSet(s) \cup {n}
  BY <1>1, <1>3, <1>9
<1>14. Outcome({h}, {h}, s, {n})
  BY <1>1, <1>6, <1>8, <1>11, <1>12, <1>13, OneListOutcome
<1>15. Contents(h)' = Contents(h)
  <2>1. Chained(h)' = Chained(h)
    BY <1>14, NewList
  <2>2. \A i \in 1..Len(Chained(h)) : node'[Chained(h)[i]] = node[Chained(h)[i]]
    BY <1>1, <1>10
  <2>3. Stored(node, Chained(h))' = Stored(node, Chained(h))
    BY <2>1, <2>2 DEF Stored
  <2> QED
    BY <2>1, <2>3, <1>6 DEF Contents
<1> QED
  BY <1>5, <1>14, <1>15

\* The cursor moves to the node at position k.
LEMMA MovesOutcome ==
    ASSUME ListInv, NEW h \in Live, NEW k \in 1..Len(Chained(h)),
           NEW m, m = Chained(h)[k], MovesTo(h, m)
    PROVE  /\ Outcome({h}, {h}, Chained(h), {})
           /\ Contents(h)' = [Contents(h) EXCEPT !.cur = k]
           /\ value' = Contents(h).items[k] /\ crashed' = crashed
<1> DEFINE s == Chained(h)
           l == list[h]
           l2 == [l EXCEPT !.cursor = m]
<1>1. /\ h \in Handles /\ l.in_use /\ IsList(node, l, s)
      /\ Linked(h) = ToSet(s) /\ Linked(h) \subseteq InUse
  BY LiveList DEF Linked
<1>2. /\ node \in [Nodes -> InternalNode] /\ list \in [Handles -> InternalList]
      /\ crashed \in BOOLEAN
  BY DEF ListInv, TypeOK
<1>3. /\ s \in Seq(Nodes) /\ ToSet(s) = {s[i] : i \in 1..Len(s)}
      /\ \A i, j \in 1..Len(s) : s[i] = s[j] => i = j
  <2> HIDE DEF s, l
  <2> QED
    BY <1>1, ChainOfList
<1>4. m \in Nodes /\ m \in ToSet(s)
  BY <1>3
<1>5. node' = node /\ list' = [list EXCEPT ![h] = l2] /\ value' = node[m].item /\ crashed' = crashed
  BY DEF MovesTo, Writes, Returns
<1>6. /\ l2 \in InternalList
      /\ l2.in_use /\ l2.size = l.size /\ l2.head = l.head /\ l2.tail = l.tail /\ l2.cursor = m
  <2>1. l \in InternalList
    BY <1>1, <1>2
  <2> HIDE DEF l
  <2> QED
    BY <1>1, <1>4, <2>1 DEF InternalList
<1> HIDE DEF l2
<1>7. list' \in [Handles -> InternalList] /\ list'[h] = l2 /\ \A g \in Handles \ {h} : list'[g] = list[g]
  BY <1>1, <1>2, <1>5, <1>6
<1>8. TypeOK'
  BY <1>2, <1>5, <1>7 DEF TypeOK
<1>9. IsList(node', list'[h], s)
  <2> DEFINE nd == node
  <2>1. IsList(nd, l2, s)
    <3> HIDE DEF l, s, nd
    <3>1. IsList(nd, l, s)
      BY <1>1 DEF nd
    <3> QED
      BY <3>1, <1>4, <1>6 DEF IsList
  <2> QED
    BY <2>1, <1>5, <1>7
<1>10. Touches(h) /\ InUse' = InUse
  BY <1>5, <1>7 DEF Touches, InUse
<1>11. Outcome({h}, {h}, s, {})
  <2>1. InUse' = (InUse \ Linked(h)) \cup ToSet(s) \cup {}
    BY <1>1, <1>10
  <2> QED
    BY <1>1, <1>6, <1>7, <1>8, <1>9, <1>10, <2>1, OneListOutcome
<1>12. Chained(h)' = Chained(h)
  BY <1>11, NewList
<1>13. Position(s, m) = k
  <2> HIDE DEF s
  <2> QED
    BY <1>3, PositionIs DEF s
<1>14. Contents(h)' = [items |-> Stored(node, s), cur |-> Position(s, m)]
  <2>1. list'[h].cursor = m
    BY <1>6, <1>7
  <2> QED
    BY <1>5, <1>12, <2>1 DEF Contents
<1>15. Contents(h) = [items |-> Stored(node, s), cur |-> Position(s, l.cursor)]
  BY DEF Contents
<1>16. value' = Stored(node, s)[k]
  BY <1>5 DEF Stored
<1> QED
  <2> DEFINE it == Stored(node, s)
             c0 == Position(s, l.cursor)
  <2>1. Contents(h)' = [items |-> it, cur |-> k] /\ Contents(h) = [items |-> it, cur |-> c0]
    BY <1>13, <1>14, <1>15
  <2>2. value' = it[k]
    BY <1>16
  <2> HIDE DEF it, c0
  <2>3. Contents(h)' = [Contents(h) EXCEPT !.cur = k] /\ value' = Contents(h).items[k]
    BY <2>1, <2>2
  <2> QED
    BY <2>3, <1>5, <1>11

\* Nothing changes but what was called, what it returned and whether it crashed.
LEMMA NothingChanges ==
    ASSUME ListInv, UNCHANGED <<node, list>>, crashed' \in BOOLEAN
    PROVE  /\ ListInv' /\ Live' = Live /\ Lost' = Lost
           /\ \A g : Contents(g)' = Contents(g)
<1>1. node' = node /\ list' = list
  OBVIOUS
<1>2. Live' = Live /\ InUse' = InUse
  BY <1>1 DEF Live, InUse
<1>3. \A g : Chained(g)' = Chained(g)
  BY <1>1 DEF Chained
<1>4. \A g : Linked(g)' = Linked(g)
  BY <1>3 DEF Linked
<1>5. \A g : Contents(g)' = Contents(g)
  BY <1>1, <1>3 DEF Contents
<1>6. TypeOK'
  BY <1>1 DEF ListInv, TypeOK
<1>7. ListInv'
  BY <1>1, <1>2, <1>3, <1>4, <1>6 DEF ListInv
<1>8. Lost' = Lost
  BY <1>2, <1>4 DEF Lost
<1> QED
  BY <1>2, <1>5, <1>7, <1>8


\* No node is lost.
LEMMA NoLoss ==
    ASSUME Lost' = Lost
    PROVE  LossIsKnown
BY DEF LossIsKnown

\* A call that changes list h only, as the abstract specification sees it.
LEMMA ChangesList ==
    ASSUME ListInv, NEW h \in Live, NEW s, NEW lost, Outcome({h}, {h}, s, lost),
           NEW c, Contents(h)' = c, NEW v, value' = v, crashed' = crashed
    PROVE  Abstract!Becomes(h, c, v) /\ ListInv' /\ Lost' = Lost \cup lost
<1> DEFINE before == [g \in Live |-> Contents(g)]
           after == [g \in Live' |-> Contents(g)']
<1>1. Live' = Live /\ ListInv' /\ Lost' = Lost \cup lost
  <2>1. Live' = (Live \ {h}) \cup {h}
    BY LiveAfter
  <2> QED
    BY <2>1, OutcomeKeepsInv, LostAfter
<1>2. \A g \in Live \ {h} : Contents(g)' = Contents(g)
  BY OthersStay DEF Outcome
<1>3. after = [before EXCEPT ![h] = c]
  BY <1>1, <1>2
<1> QED
  BY <1>1, <1>3 DEF Abstract!Becomes, Abstract!Returns

LEMMA ChangesNothing ==
    ASSUME ListInv, NEW v, Leaves(v)
    PROVE  Abstract!Leaves(v) /\ ListInv' /\ LossIsKnown
<1>1. UNCHANGED <<node, list>> /\ value' = v /\ crashed' = crashed
  BY DEF Leaves, Returns
<1>2. crashed' \in BOOLEAN
  BY <1>1 DEF ListInv, TypeOK
<1>3. /\ ListInv' /\ Live' = Live /\ Lost' = Lost
      /\ \A g : Contents(g)' = Contents(g)
  BY <1>1, <1>2, NothingChanges
<1>4. [g \in Live' |-> Contents(g)'] = [g \in Live |-> Contents(g)]
  BY <1>3
<1> QED
  BY <1>1, <1>3, <1>4, NoLoss DEF Abstract!Leaves, Abstract!Returns

\* What the abstract specification sees of a list.
LEMMA ContentsIs ==
    ASSUME ListInv, NEW h \in Live
    PROVE  LET c == Contents(h)
               s == Chained(h)
           IN  /\ c = [items |-> c.items, cur |-> c.cur]
               /\ c.items \in Seq(Items \cup {NULL}) /\ Len(c.items) = Len(s)
               /\ Len(s) \in Nat
               /\ \A i \in 1..Len(s) : c.items[i] = node[s[i]].item
               /\ c.items = <<>> <=> Len(s) = 0
               /\ c.cur \in 0..Len(s)
               /\ c.cur = 0 <=> list[h].cursor = NULL
               /\ c.cur # 0 => list[h].cursor = s[c.cur]
               /\ [g \in Live |-> Contents(g)][h] = c
<1> DEFINE c == Contents(h)
           s == Chained(h)
           it == Stored(node, s)
           k == Position(s, list[h].cursor)
<1>1. /\ s \in Seq(Nodes) /\ Len(s) \in Nat
      /\ \/ list[h].cursor = NULL /\ k = 0
         \/ list[h].cursor # NULL /\ k \in 1..Len(s) /\ list[h].cursor = s[k]
      /\ node \in [Nodes -> InternalNode]
  BY LiveShape
<1>2. c = [items |-> it, cur |-> k]
  BY DEF Contents
<1>3. /\ it \in Seq(Items \cup {NULL}) /\ Len(it) = Len(s)
      /\ \A i \in 1..Len(s) : it[i] = node[s[i]].item
  <2> DEFINE nd == node
  <2>1. nd \in [Nodes -> InternalNode] /\ s \in Seq(Nodes)
    BY <1>1
  <2> HIDE DEF s, nd
  <2>2. /\ Stored(nd, s) \in Seq(Items \cup {NULL}) /\ Len(Stored(nd, s)) = Len(s)
        /\ \A i \in 1..Len(s) : Stored(nd, s)[i] = nd[s[i]].item
    BY <2>1, StoredIs
  <2> QED
    BY <2>2 DEF nd
<1>4. it = <<>> <=> Len(s) = 0
  <2> HIDE DEF it, s
  <2> QED
    BY <1>3
<1>5. [g \in Live |-> Contents(g)][h] = c
  OBVIOUS
<1>6. k \in 0..Len(s) /\ (k = 0 <=> list[h].cursor = NULL) /\ (k # 0 => list[h].cursor = s[k])
  <2> HIDE DEF k, s
  <2> QED
    BY <1>1
<1> HIDE DEF c, it, k, s
<1>7. c.items = it /\ c.cur = k
  BY <1>2
<1> QED
  BY <1>1, <1>2, <1>3, <1>4, <1>5, <1>6, <1>7 DEF c, s

LEMMA ChangesListNoLoss ==
    ASSUME ListInv, NEW h \in Live, NEW s, Outcome({h}, {h}, s, {}),
           NEW c, Contents(h)' = c, NEW v, value' = v, crashed' = crashed
    PROVE  Abstract!Becomes(h, c, v) /\ ListInv' /\ LossIsKnown
<1>1. Abstract!Becomes(h, c, v) /\ ListInv' /\ Lost' = Lost \cup {}
  BY ChangesList
<1> QED
  BY <1>1, NoLoss

\* The cursor moves, as the abstract specification sees it.
LEMMA MovesCursor ==
    ASSUME ListInv, NEW h \in Live, NEW k \in 1..Len(Chained(h)),
           NEW m, m = Chained(h)[k], MovesTo(h, m)
    PROVE  Abstract!MovesTo(h, k) /\ ListInv' /\ LossIsKnown
<1> DEFINE c == Contents(h)
           s == Chained(h)
           c2 == [c EXCEPT !.cur = k]
           v == c.items[k]
<1>1. Outcome({h}, {h}, s, {}) /\ Contents(h)' = c2 /\ value' = v /\ crashed' = crashed
  BY MovesOutcome
<1>2. [g \in Live |-> Contents(g)][h] = c
  BY ContentsIs
<1> HIDE DEF c2, v, s
<1>3. Abstract!Becomes(h, c2, v) /\ ListInv' /\ LossIsKnown
  BY <1>1, ChangesListNoLoss
<1> QED
  BY <1>2, <1>3 DEF Abstract!MovesTo, c2, v


-----------------------------------------------------------------------------
(* The functions of list_movers.c implement the abstract ones.             *)

LEMMA CountImplements ==
    ASSUME ListInv, NEW h \in Live, ListCount(h)
    PROVE  Abstract!ListCount(h) /\ ListInv' /\ LossIsKnown
<1> DEFINE v == list[h].size
<1>1. call' = "ListCount" /\ Leaves(v)
  BY DEF ListCount
<1>2. v = Len([g \in Live |-> Contents(g)][h].items)
  BY LiveShape, ContentsIs
<1> HIDE DEF v
<1>3. Abstract!Leaves(v) /\ ListInv' /\ LossIsKnown
  BY <1>1, ChangesNothing
<1> QED
  BY <1>1, <1>2, <1>3 DEF Abstract!ListCount

LEMMA CurrImplements ==
    ASSUME ListInv, NEW h \in Live, ListCurr(h)
    PROVE  Abstract!ListCurr(h) /\ ListInv' /\ LossIsKnown
<1> DEFINE c == list[h].cursor
           v == IF c = NULL THEN NULL ELSE node[c].item
           l == Contents(h)
<1>1. call' = "ListCurr" /\ Leaves(v)
  BY DEF ListCurr
<1>2. v = IF l.cur = 0 THEN NULL ELSE l.items[l.cur]
  BY ContentsIs
<1>3. [g \in Live |-> Contents(g)][h] = l
  OBVIOUS
<1> HIDE DEF v, l
<1>4. Abstract!Leaves(v) /\ ListInv' /\ LossIsKnown
  BY <1>1, ChangesNothing
<1> QED
  BY <1>1, <1>2, <1>3, <1>4 DEF Abstract!ListCurr, Abstract!Current

LEMMA FirstImplements ==
    ASSUME ListInv, NEW h \in Live, ListFirst(h)
    PROVE  Abstract!ListFirst(h) /\ ListInv' /\ LossIsKnown
<1> DEFINE s == Chained(h)
           m == list[h].head
           l == Contents(h)
<1>1. /\ list[h].size = Len(s) /\ m = Nth(s, 1) /\ Len(s) \in Nat
      /\ l.items = <<>> <=> Len(s) = 0
      /\ [g \in Live |-> Contents(g)][h] = l
  BY LiveShape, ContentsIs
<1>2. call' = "ListFirst" /\ IF list[h].size = 0 THEN Leaves(NULL) ELSE MovesTo(h, m)
  BY DEF ListFirst
<1> HIDE DEF l, m
<1>3. CASE Len(s) = 0
  BY <1>1, <1>2, <1>3, ChangesNothing DEF Abstract!ListFirst
<1>4. CASE Len(s) # 0
  <2>1. 1 \in 1..Len(s) /\ m = s[1] /\ MovesTo(h, m)
    BY <1>1, <1>2, <1>4 DEF Nth
  <2>2. Abstract!MovesTo(h, 1) /\ ListInv' /\ LossIsKnown
    BY <2>1, MovesCursor
  <2> QED
    BY <1>1, <1>2, <1>4, <2>2 DEF Abstract!ListFirst
<1> QED
  BY <1>3, <1>4

LEMMA LastImplements ==
    ASSUME ListInv, NEW h \in Live, ListLast(h)
    PROVE  Abstract!ListLast(h) /\ ListInv' /\ LossIsKnown
<1> DEFINE s == Chained(h)
           m == list[h].tail
           l == Contents(h)
           k == Len(s)
<1>1. /\ list[h].size = k /\ m = Nth(s, k) /\ k \in Nat /\ Len(l.items) = k
      /\ l.items = <<>> <=> k = 0
      /\ [g \in Live |-> Contents(g)][h] = l
  BY LiveShape, ContentsIs
<1>2. call' = "ListLast" /\ IF list[h].size = 0 THEN Leaves(NULL) ELSE MovesTo(h, m)
  BY DEF ListLast
<1> HIDE DEF l, m
<1>3. CASE k = 0
  BY <1>1, <1>2, <1>3, ChangesNothing DEF Abstract!ListLast
<1>4. CASE k # 0
  <2>1. k \in 1..Len(s) /\ m = s[k] /\ MovesTo(h, m)
    BY <1>1, <1>2, <1>4 DEF Nth
  <2>2. Abstract!MovesTo(h, k) /\ ListInv' /\ LossIsKnown
    <3> HIDE DEF k
    <3> QED
      BY <2>1, MovesCursor
  <2> QED
    BY <1>1, <1>2, <1>4, <2>2 DEF Abstract!ListLast
<1> QED
  BY <1>3, <1>4

\* No item is current although there are some, and the call follows NULL.
LEMMA CrashImplements ==
    ASSUME ListInv, NEW h \in Live, Contents(h).items # <<>>, Contents(h).cur = 0,
           Crashes, call' \in {"ListNext", "ListPrev"}
    PROVE  Abstract!Crash(h) /\ ListInv' /\ LossIsKnown
<1>1. crashed' = TRUE /\ UNCHANGED <<node, list>> /\ value' = value
  BY DEF Crashes
<1>2. /\ ListInv' /\ Live' = Live /\ Lost' = Lost
      /\ \A g : Contents(g)' = Contents(g)
  BY <1>1, NothingChanges
<1>3. [g \in Live' |-> Contents(g)'] = [g \in Live |-> Contents(g)]
  BY <1>2
<1>4. [g \in Live |-> Contents(g)][h] = Contents(h)
  OBVIOUS
<1> QED
  BY <1>1, <1>2, <1>3, <1>4, NoLoss DEF Abstract!Crash, Abstract!Adrift

LEMMA NextImplements ==
    ASSUME ListInv, NEW h \in Live, ListNext(h)
    PROVE  (Abstract!ListNext(h) \/ Abstract!Crash(h)) /\ ListInv' /\ LossIsKnown
<1> DEFINE s == Chained(h)
           c == list[h].cursor
           m == node[c].next
           l == Contents(h)
           k == l.cur
           p == k + 1
<1>1. /\ list[h].size = Len(s) /\ Len(l.items) = Len(s) /\ Len(s) \in Nat
      /\ list[h].tail = Nth(s, Len(s))
      /\ l.items = <<>> <=> Len(s) = 0
      /\ [g \in Live |-> Contents(g)][h] = l
      /\ k \in 0..Len(s) /\ (k = 0 <=> c = NULL) /\ (k # 0 => c = s[k])
      /\ \A i \in 1..Len(s) : s[i] # NULL
      /\ \A i, j \in 1..Len(s) : s[i] = s[j] => i = j
      /\ \A i \in 1..Len(s) : node[s[i]].next = Nth(s, i + 1)
  BY LiveShape, ContentsIs
<1>2. /\ call' = "ListNext"
      /\ IF list[h].size = 0 \/ c = list[h].tail THEN Leaves(NULL)
         ELSE IF c = NULL THEN Crashes
         ELSE MovesTo(h, m)
  BY DEF ListNext
<1>3. c = list[h].tail <=> k = Len(s)
  BY <1>1 DEF Nth
<1>4. CASE k = Len(s)
  <2>1. Leaves(NULL)
    BY <1>2, <1>3, <1>4
  <2>2. Abstract!Leaves(NULL) /\ ListInv' /\ LossIsKnown
    BY <2>1, ChangesNothing
  <2>3. ~ Abstract!Adrift(l)
    BY <1>1, <1>4 DEF Abstract!Adrift
  <2> HIDE DEF l
  <2> QED
    BY <1>1, <1>2, <1>4, <2>2, <2>3 DEF Abstract!ListNext
<1>5. CASE k # Len(s) /\ k = 0
  <2>1. Crashes /\ l.items # <<>>
    BY <1>1, <1>2, <1>3, <1>5
  <2> QED
    BY <1>2, <1>5, <2>1, CrashImplements
<1>6. CASE k # Len(s) /\ k # 0
  <2>1. p \in 1..Len(s) /\ k \in 1..Len(s)
    BY <1>1, <1>6
  <2>2. m = s[p] /\ MovesTo(h, m)
    <3>1. list[h].size # 0 /\ c # list[h].tail /\ c # NULL
      BY <1>1, <1>3, <1>6, <2>1
    <3>2. m = Nth(s, p)
      BY <1>1, <1>6, <2>1
    <3> QED
      BY <1>2, <2>1, <3>1, <3>2 DEF Nth
  <2>3. Abstract!MovesTo(h, p) /\ ListInv' /\ LossIsKnown
    <3> HIDE DEF p, m
    <3> QED
      BY <2>1, <2>2, MovesCursor
  <2>4. ~ Abstract!Adrift(l)
    BY <1>6 DEF Abstract!Adrift
  <2> HIDE DEF l
  <2> QED
    BY <1>1, <1>2, <1>6, <2>3, <2>4 DEF Abstract!ListNext
<1> QED
  BY <1>4, <1>5, <1>6

LEMMA PrevImplements ==
    ASSUME ListInv, NEW h \in Live, ListPrev(h)
    PROVE  (Abstract!ListPrev(h) \/ Abstract!Crash(h)) /\ ListInv' /\ LossIsKnown
<1> DEFINE s == Chained(h)
           c == list[h].cursor
           m == node[c].prev
           l == Contents(h)
           k == l.cur
           p == k - 1
<1>1. /\ list[h].size = Len(s) /\ Len(l.items) = Len(s) /\ Len(s) \in Nat
      /\ list[h].head = Nth(s, 1)
      /\ l.items = <<>> <=> Len(s) = 0
      /\ [g \in Live |-> Contents(g)][h] = l
      /\ k \in 0..Len(s) /\ (k = 0 <=> c = NULL) /\ (k # 0 => c = s[k])
      /\ \A i \in 1..Len(s) : s[i] # NULL
      /\ \A i, j \in 1..Len(s) : s[i] = s[j] => i = j
      /\ \A i \in 1..Len(s) : node[s[i]].prev = Nth(s, i - 1)
  BY LiveShape, ContentsIs
<1>2. /\ call' = "ListPrev"
      /\ IF list[h].size = 0 \/ c = list[h].head THEN Leaves(NULL)
         ELSE IF c = NULL THEN Crashes
         ELSE MovesTo(h, m)
  BY DEF ListPrev
<1>3. c = list[h].head <=> (k = 1 \/ Len(s) = 0)
  BY <1>1 DEF Nth
<1>4. CASE k = 1 \/ Len(s) = 0
  <2>1. Leaves(NULL)
    BY <1>2, <1>3, <1>4
  <2>2. Abstract!Leaves(NULL) /\ ListInv' /\ LossIsKnown
    BY <2>1, ChangesNothing
  <2>3. ~ Abstract!Adrift(l) /\ k \in {0, 1}
    BY <1>1, <1>4 DEF Abstract!Adrift
  <2> HIDE DEF l
  <2> QED
    BY <1>1, <1>2, <2>2, <2>3 DEF Abstract!ListPrev
<1>5. CASE k # 1 /\ Len(s) # 0 /\ k = 0
  <2>1. Crashes /\ l.items # <<>>
    BY <1>1, <1>2, <1>3, <1>5
  <2> QED
    BY <1>2, <1>5, <2>1, CrashImplements
<1>6. CASE k # 1 /\ Len(s) # 0 /\ k # 0
  <2>1. p \in 1..Len(s) /\ k \in 1..Len(s) /\ k \notin {0, 1}
    BY <1>1, <1>6
  <2>2. m = s[p] /\ MovesTo(h, m)
    <3>1. list[h].size # 0 /\ c # list[h].head /\ c # NULL
      BY <1>1, <1>3, <1>6
    <3>2. m = Nth(s, p)
      BY <1>1, <1>6, <2>1
    <3> QED
      BY <1>2, <2>1, <3>1, <3>2 DEF Nth
  <2>3. Abstract!MovesTo(h, p) /\ ListInv' /\ LossIsKnown
    <3> HIDE DEF p, m
    <3> QED
      BY <2>1, <2>2, MovesCursor
  <2>4. ~ Abstract!Adrift(l)
    BY <1>6 DEF Abstract!Adrift
  <2> HIDE DEF l
  <2> QED
    BY <1>1, <1>2, <2>1, <2>3, <2>4 DEF Abstract!ListPrev
<1> QED
  BY <1>4, <1>5, <1>6


\* t is what s is from position k on.
RestOf(s, k, t) ==
    /\ Len(t) = Len(s) + 1 - k
    /\ \A i \in 1..Len(t) : t[i] = s[k + i - 1]

\* From position k on, the nodes are those of the list from there on.
LEMMA WalkOnFrom ==
    ASSUME NEW nd, NEW first, NEW s, IsWalk(nd, first, s), NEW k \in 1..Len(s)
    PROVE  RestOf(s, k, Chain(nd, s[k]))
<1> DEFINE t == SubSeq(s, k, Len(s))
<1>1. /\ s \in Seq(Nodes) /\ Len(s) \in Nat
      /\ \A i, j \in 1..Len(s) : s[i] = s[j] => i = j
      /\ \A i \in 1..Len(s) : nd[s[i]].next = Nth(s, i + 1)
  BY DEF IsWalk
<1>2. /\ t \in Seq(Nodes) /\ Len(t) = Len(s) + 1 - k
      /\ \A i \in 1..Len(t) : t[i] = s[k + i - 1]
  <2>1. k \in 1..(Len(s) + 1)
    BY <1>1
  <2> QED
    BY <1>1, <2>1, SuffixIs
<1> HIDE DEF t
<1>3. k \in Int /\ 1 <= k /\ k <= Len(s)
  BY <1>1
<1>4. ASSUME NEW i \in 1..Len(t)
      PROVE  /\ k + i - 1 \in 1..Len(s) /\ t[i] = s[k + i - 1]
             /\ nd[t[i]].next = Nth(t, i + 1)
  <2> DEFINE j == k + i - 1
  <2>0. j \in 1..Len(s) /\ j + 1 = k + (i + 1) - 1
    BY <1>1, <1>2, <1>3
  <2>1. k + i - 1 \in 1..Len(s) /\ t[i] = s[k + i - 1] /\ t[i] = s[j]
    BY <1>2, <2>0
  <2> HIDE DEF j
  <2>2. nd[t[i]].next = Nth(s, k + (i + 1) - 1)
    BY <1>1, <2>0, <2>1
  <2>3. Nth(s, k + (i + 1) - 1) = Nth(t, i + 1)
    <3> DEFINE m == Len(s)
               n == Len(t)
    <3>0. m \in Nat /\ n = m + 1 - k /\ i \in 1..n
      BY <1>1, <1>2
    <3>1. k + (i + 1) - 1 \in 1..Len(s) <=> i + 1 \in 1..Len(t)
      <4> HIDE DEF m, n
      <4>1. k + (i + 1) - 1 \in 1..m <=> i + 1 \in 1..n
        BY <3>0, <1>3
      <4> QED
        BY <4>1 DEF m, n
    <3>2. i + 1 \in 1..Len(t) => t[i + 1] = s[k + (i + 1) - 1]
      BY <1>2
    <3> QED
      BY <3>1, <3>2 DEF Nth
  <2> QED
    BY <2>1, <2>2, <2>3
<1>5. ASSUME NEW i \in 1..Len(t), NEW j \in 1..Len(t), t[i] = t[j]
      PROVE  i = j
  <2> DEFINE a == k + i - 1
             b == k + j - 1
  <2>1. a \in 1..Len(s) /\ b \in 1..Len(s) /\ s[a] = s[b]
    BY <1>4, <1>5
  <2>2. a = b => i = j
    BY <1>3
  <2> HIDE DEF a, b
  <2> QED
    BY <1>1, <2>1, <2>2
<1>6. s[k] = Nth(t, 1)
  <2>1. 1 \in 1..Len(t) /\ k + 1 - 1 = k
    BY <1>1, <1>2, <1>3
  <2> QED
    BY <2>1, <1>2 DEF Nth
<1>7. IsWalk(nd, s[k], t)
  BY <1>2, <1>4, <1>5, <1>6 DEF IsWalk
<1>8. Chain(nd, s[k]) = t
  <2> DEFINE m == s[k]
  <2>1. IsWalk(nd, m, t)
    BY <1>7
  <2> HIDE DEF m
  <2>2. Chain(nd, m) = t
    BY <2>1, ChainIsWalk
  <2> QED
    BY <2>2 DEF m
<1> QED
  BY <1>2, <1>8 DEF RestOf

LEMMA NoWalkFromNull ==
    ASSUME NEW nd
    PROVE  Chain(nd, NULL) = <<>>
<1> DEFINE s == <<>>
<1>1. s \in Seq(Nodes) /\ Len(s) = 0
  OBVIOUS
<1> HIDE DEF s
<1>2. IsWalk(nd, NULL, s)
  BY <1>1 DEF IsWalk, Nth
<1>3. Chain(nd, NULL) = s
  BY <1>2, ChainIsWalk
<1> QED
  BY <1>3 DEF s

\* The least of a set of positions is one of them.
LEMMA LeastChosen ==
    ASSUME NEW I, I \subseteq Nat, I # {}
    PROVE  LET m == CHOOSE i \in I : \A j \in I : i <= j
           IN  /\ m \in I /\ \A j \in I : m <= j
               /\ \A i \in I : (\A j \in I : i <= j) => i = m
<1> DEFINE m == CHOOSE i \in I : \A j \in I : i <= j
<1>1. \E i \in I : \A j \in I : i <= j
  <2> HIDE DEF m
  <2> QED
    BY LeastNumber
<1>2. m \in I /\ \A j \in I : m <= j
  BY <1>1
<1> HIDE DEF m
<1>3. ASSUME NEW i \in I, \A j \in I : i <= j
      PROVE  i = m
  <2>1. i <= m /\ m <= i /\ i \in Nat /\ m \in Nat
    BY <1>2, <1>3
  <2> QED
    BY <2>1
<1> QED
  BY <1>2, <1>3 DEF m

LEMMA SearchImplements ==
    ASSUME ListInv, NEW h \in Live, NEW x \in Items, ListSearch(h, x)
    PROVE  Abstract!ListSearch(h, x) /\ ListInv' /\ LossIsKnown
<1> DEFINE s == Chained(h)
           t == Chain(node, list[h].cursor)
           l == Contents(h)
           k == l.cur
           Found == {i \in 1..Len(t) : node[t[i]].item = x}
           Hits == {i \in 1..Len(l.items) : k # 0 /\ i >= k /\ l.items[i] = x}
           m == CHOOSE i \in Found : \A j \in Found : i <= j
           p == CHOOSE i \in Hits : \A j \in Hits : i <= j
           n == t[m]
<1>1. /\ IsWalk(node, list[h].head, s)
      /\ Len(l.items) = Len(s) /\ Len(s) \in Nat
      /\ [g \in Live |-> Contents(g)][h] = l
      /\ k \in 0..Len(s) /\ (k = 0 <=> list[h].cursor = NULL)
      /\ k # 0 => list[h].cursor = s[k]
      /\ \A i \in 1..Len(s) : l.items[i] = node[s[i]].item
  <2>1. IsWalk(node, list[h].head, s)
    BY LiveList DEF IsList
  <2> QED
    BY <2>1, ContentsIs
<1>2. /\ call' = "ListSearch"
      /\ IF Found = {} THEN Leaves(NULL) ELSE MovesTo(h, n)
  BY DEF ListSearch
<1>3. ASSUME call' = "ListSearch",
             IF Hits = {} THEN Abstract!Leaves(NULL) ELSE Abstract!MovesTo(h, p)
      PROVE  Abstract!ListSearch(h, x)
  <2>1. [l EXCEPT !.cur = k] = l
    BY DEF Contents
  <2>2. [[g \in Live |-> Contents(g)] EXCEPT ![h] = l] = [g \in Live |-> Contents(g)]
    BY <1>1
  <2>3. Abstract!Leaves(NULL) => Abstract!Becomes(h, [l EXCEPT !.cur = k], NULL)
    <3> HIDE DEF l, k
    <3> QED
      BY <2>1, <2>2 DEF Abstract!Leaves, Abstract!Becomes
  <2> QED
    BY <1>1, <1>3, <2>3 DEF Abstract!ListSearch
<1>4. CASE k = 0
  <2>1. t = <<>>
    BY <1>1, <1>4, NoWalkFromNull
  <2>2. Found = {} /\ Hits = {}
    <3>1. Len(t) = 0
      BY <2>1
    <3> HIDE DEF t
    <3> QED
      BY <1>4, <3>1
  <2>3. Leaves(NULL)
    BY <1>2, <2>2
  <2>4. Abstract!Leaves(NULL) /\ ListInv' /\ LossIsKnown
    BY <2>3, ChangesNothing
  <2> QED
    BY <1>2, <1>3, <2>2, <2>4
<1>5. CASE k # 0
  <2>1. k \in 1..Len(s) /\ list[h].cursor = s[k]
    BY <1>1, <1>5
  <2>2. Len(t) = Len(s) + 1 - k /\ \A i \in 1..Len(t) : t[i] = s[k + i - 1]
    <3> DEFINE nd == node
               first == list[h].head
    <3>1. IsWalk(nd, first, s) /\ k \in 1..Len(s) /\ t = Chain(nd, s[k])
      BY <1>1, <2>1
    <3> HIDE DEF nd, first, s, k, t
    <3>2. RestOf(s, k, t)
      BY <3>1, WalkOnFrom
    <3> QED
      BY <3>2 DEF RestOf
  <2> HIDE DEF t, s, k, l
  <2>3. /\ \A i \in Found : i \in Nat /\ k + i - 1 \in Hits
        /\ \A j \in Hits : j \in Nat /\ j + 1 - k \in Found /\ k + (j + 1 - k) - 1 = j
    <3>1. ASSUME NEW i \in Found
          PROVE  i \in Nat /\ k + i - 1 \in Hits
      <4>1. /\ i \in 1..Len(t) /\ k + i - 1 \in 1..Len(s) /\ k + i - 1 >= k
            /\ node[s[k + i - 1]].item = x
        BY <1>1, <2>1, <2>2
      <4> QED
        BY <4>1, <1>1, <1>5
    <3>2. ASSUME NEW j \in Hits
          PROVE  j \in Nat /\ j + 1 - k \in Found /\ k + (j + 1 - k) - 1 = j
      <4>1. /\ j \in 1..Len(s) /\ j >= k /\ node[s[j]].item = x
            /\ j + 1 - k \in 1..Len(t) /\ k + (j + 1 - k) - 1 = j
        BY <1>1, <2>1, <2>2
      <4>2. t[j + 1 - k] = s[j]
        BY <4>1, <2>2
      <4> QED
        BY <4>1, <4>2
    <3> QED
      BY <3>1, <3>2
  <2>4. Found \subseteq Nat /\ Hits \subseteq Nat /\ (Found = {} <=> Hits = {})
    BY <2>3
  <2>5. CASE Found = {}
    <3>1. Leaves(NULL)
      BY <1>2, <2>5
    <3>2. Abstract!Leaves(NULL) /\ ListInv' /\ LossIsKnown
      BY <3>1, ChangesNothing
    <3> QED
      BY <1>2, <1>3, <2>4, <2>5, <3>2
  <2>6. CASE Found # {}
    <3>1. m \in Found /\ \A j \in Found : m <= j
      <4> HIDE DEF Found
      <4> QED
        BY <2>4, <2>6, LeastChosen
    <3>2. p \in Hits /\ \A i \in Hits : (\A j \in Hits : i <= j) => i = p
      <4>1. Hits \subseteq Nat /\ Hits # {}
        BY <2>4, <2>6
      <4> HIDE DEF Hits
      <4> QED
        BY <4>1, LeastChosen
    <3> HIDE DEF m, p
    <3>3. k + m - 1 \in Hits /\ \A j \in Hits : k + m - 1 <= j
      <4>1. ASSUME NEW j \in Hits
            PROVE  k + m - 1 <= j
        <5>1. m <= j + 1 - k /\ j \in Nat /\ m \in Nat
          BY <2>3, <3>1
        <5> HIDE DEF Hits
        <5> QED
          BY <5>1, <2>1
      <4> QED
        BY <2>3, <3>1, <4>1
    <3>4. p = k + m - 1 /\ p \in 1..Len(s) /\ n = s[p]
      <4>1. p = k + m - 1
        BY <3>2, <3>3
      <4>2. p \in 1..Len(s) /\ m \in 1..Len(t)
        BY <1>1, <3>1, <3>2
      <4> QED
        BY <4>1, <4>2, <2>2
    <3>5. MovesTo(h, n)
      BY <1>2, <2>6
    <3>6. Abstract!MovesTo(h, p) /\ ListInv' /\ LossIsKnown
      <4> HIDE DEF n
      <4>1. p \in 1..Len(Chained(h)) /\ n = Chained(h)[p]
        BY <3>4 DEF s
      <4> QED
        BY <3>5, <4>1, MovesCursor
    <3> QED
      BY <1>2, <1>3, <2>4, <2>6, <3>6 DEF p
  <2> QED
    BY <2>5, <2>6
<1> QED
  BY <1>4, <1>5


-----------------------------------------------------------------------------
(* The functions of list_adders.c implement the abstract ones.             *)

\* ListSpec and List use the same operators on sequences.
LEMMA SameOperators ==
    ASSUME NEW s, NEW i, NEW e
    PROVE  /\ Abstract!InsertAt(s, i, e) = InsertAt(s, i, e)
           /\ Abstract!RemoveAt(s, i) = RemoveAt(s, i)
           /\ Abstract!Front(s) = Front(s)
           /\ Abstract!Last(s) = Last(s)
BY DEF Abstract!InsertAt, InsertAt, Abstract!RemoveAt, RemoveAt, Abstract!Front, Front,
       Abstract!Last, Last

\* The calls that fail lose a node; their callers see no change.
LEMMA FailsToAdd ==
    ASSUME ListInv, NEW h \in Live, NEW n \in Fresh, NEW x \in Items,
           AddFails(h, n, x), call' \in {"ListAdd", "ListInsert"}
    PROVE  Abstract!Leaves(-1) /\ ListInv' /\ LossIsKnown
<1> DEFINE s == Chained(h)
           c == Contents(h)
           v == Failure
           before == [g \in Live |-> Contents(g)]
<1>1. Outcome({h}, {h}, s, {n}) /\ Contents(h)' = c /\ value' = v /\ crashed' = crashed
  BY AddFailsOutcome
<1>2. before[h] = c
  OBVIOUS
<1> HIDE DEF s, c, v
<1>3. Abstract!Becomes(h, c, v) /\ ListInv' /\ Lost' = Lost \cup {n}
  BY <1>1, ChangesList
<1>4. [before EXCEPT ![h] = c] = before
  BY <1>2
<1>5. Abstract!Leaves(v)
  BY <1>3, <1>4 DEF Abstract!Becomes, Abstract!Leaves
<1>6. value' = Failure
  BY <1>1 DEF v
<1>7. LossIsKnown
  BY <1>3, <1>6 DEF LossIsKnown
<1> QED
  BY <1>3, <1>5, <1>7 DEF v, Failure

\* The calls that add x at position p.
LEMMA PutsAt ==
    ASSUME ListInv, NEW h \in Live, NEW p, NEW n, NEW x, Adds(h, p, n, x), value' = Success
    PROVE  /\ Abstract!Becomes(h, [items |-> InsertAt(Contents(h).items, p, x), cur |-> p], 0)
           /\ ListInv' /\ LossIsKnown
<1> DEFINE s == InsertAt(Chained(h), p, n)
           c == [items |-> InsertAt(Contents(h).items, p, x), cur |-> p]
           v == Success
<1>1. Outcome({h}, {h}, s, {}) /\ Contents(h)' = c /\ value' = v /\ crashed' = crashed
  <2>1. Outcome({h}, {h}, s, {}) /\ Contents(h)' = c
    BY AddsOutcome
  <2>2. value' = v /\ crashed' = crashed
    BY DEF Adds
  <2> HIDE DEF s, c, v
  <2> QED
    BY <2>1, <2>2
<1> HIDE DEF s, c, v
<1>2. Abstract!Becomes(h, c, v) /\ ListInv' /\ LossIsKnown
  BY <1>1, ChangesListNoLoss
<1> QED
  BY <1>2 DEF c, v, Success

LEMMA AddImplements ==
    ASSUME ListInv, NEW h \in Live, NEW x \in Items, ListAdd(h, x)
    PROVE  Abstract!ListAdd(h, x) /\ ListInv' /\ LossIsKnown
<1> DEFINE l == Contents(h)
           p == l.cur + 1
<1>1. call' = "ListAdd"
  BY DEF ListAdd
<1>2. /\ [g \in Live |-> Contents(g)][h] = l
      /\ Abstract!Adrift(l) <=> (list[h].size # 0 /\ list[h].cursor = NULL)
  BY LiveShape, ContentsIs DEF Abstract!Adrift
<1>3. PICK n \in Fresh :
         \/ /\ list[h].size # 0 /\ list[h].cursor = NULL
            /\ AddFails(h, n, x)
         \/ /\ list[h].size = 0 \/ list[h].cursor # NULL
            /\ Adds(h, p, n, x) /\ value' = Success
  BY ListAddStep
<1>4. CASE Abstract!Adrift(l)
  <2>1. AddFails(h, n, x)
    BY <1>2, <1>3, <1>4
  <2>2. Abstract!Leaves(-1) /\ ListInv' /\ LossIsKnown
    BY <1>1, <2>1, FailsToAdd
  <2> HIDE DEF l, p
  <2> QED
    BY <1>1, <1>2, <1>4, <2>2 DEF Abstract!ListAdd, Abstract!PutAt, Abstract!Failure
<1>5. CASE ~ Abstract!Adrift(l)
  <2>1. Adds(h, p, n, x) /\ value' = Success
    BY <1>2, <1>3, <1>5
  <2>2. /\ Abstract!Becomes(h, [items |-> InsertAt(Contents(h).items, p, x), cur |-> p], 0)
        /\ ListInv' /\ LossIsKnown
    <3> HIDE DEF p
    <3> QED
      BY <2>1, PutsAt
  <2> DEFINE L == [g \in Live |-> Contents(g)][h]
             q == L.cur + 1
             c1 == [items |-> InsertAt(l.items, p, x), cur |-> p]
             c2 == [items |-> Abstract!InsertAt(L.items, q, x), cur |-> q]
  <2>3. Abstract!Becomes(h, c2, 0) /\ ~ Abstract!Adrift(L)
    <3>1. L = l /\ ~ Abstract!Adrift(l) /\ Abstract!Becomes(h, c1, 0)
      BY <1>2, <1>5, <2>2
    <3> HIDE DEF L, l
    <3>2. c1 = c2
      BY <3>1, SameOperators
    <3> HIDE DEF c1, c2
    <3> QED
      BY <3>1, <3>2
  <2>4. Abstract!PutAt(h, q, x)
    <3>1. Abstract!Becomes(h, c2, Abstract!Success)
      BY <2>3 DEF Abstract!Success
    <3> QED
      BY <2>3, <3>1, Zenon DEF Abstract!PutAt
  <2>5. Abstract!ListAdd(h, x)
    BY <1>1, <2>4, Zenon DEF Abstract!ListAdd
  <2> QED
    BY <2>2, <2>5
<1> QED
  BY <1>4, <1>5

LEMMA InsertImplements ==
    ASSUME ListInv, NEW h \in Live, NEW x \in Items, ListInsert(h, x)
    PROVE  Abstract!ListInsert(h, x) /\ ListInv' /\ LossIsKnown
<1> DEFINE l == Contents(h)
           p == IF l.cur = 0 THEN 1 ELSE l.cur
<1>1. call' = "ListInsert"
  BY DEF ListInsert
<1>2. /\ [g \in Live |-> Contents(g)][h] = l
      /\ Abstract!Adrift(l) <=> (list[h].size # 0 /\ list[h].cursor = NULL)
  BY LiveShape, ContentsIs DEF Abstract!Adrift
<1>3. PICK n \in Fresh :
         \/ /\ list[h].size # 0 /\ list[h].cursor = NULL
            /\ AddFails(h, n, x)
         \/ /\ list[h].size = 0 \/ list[h].cursor # NULL
            /\ Adds(h, p, n, x) /\ value' = Success
  BY ListInsertStep
<1>4. CASE Abstract!Adrift(l)
  <2>1. AddFails(h, n, x)
    BY <1>2, <1>3, <1>4
  <2>2. Abstract!Leaves(-1) /\ ListInv' /\ LossIsKnown
    BY <1>1, <2>1, FailsToAdd
  <2> HIDE DEF l, p
  <2> QED
    BY <1>1, <1>2, <1>4, <2>2 DEF Abstract!ListInsert, Abstract!PutAt, Abstract!Failure
<1>5. CASE ~ Abstract!Adrift(l)
  <2>1. Adds(h, p, n, x) /\ value' = Success
    BY <1>2, <1>3, <1>5
  <2>2. /\ Abstract!Becomes(h, [items |-> InsertAt(Contents(h).items, p, x), cur |-> p], 0)
        /\ ListInv' /\ LossIsKnown
    <3> HIDE DEF p
    <3> QED
      BY <2>1, PutsAt
  <2> DEFINE L == [g \in Live |-> Contents(g)][h]
             q == (IF L.cur = 0 THEN 1 ELSE L.cur)
             c1 == [items |-> InsertAt(l.items, p, x), cur |-> p]
             c2 == [items |-> Abstract!InsertAt(L.items, q, x), cur |-> q]
  <2>3. Abstract!Becomes(h, c2, 0) /\ ~ Abstract!Adrift(L)
    <3>1. L = l /\ ~ Abstract!Adrift(l) /\ Abstract!Becomes(h, c1, 0)
      BY <1>2, <1>5, <2>2
    <3> HIDE DEF L, l
    <3>2. c1 = c2
      BY <3>1, SameOperators
    <3> HIDE DEF c1, c2
    <3> QED
      BY <3>1, <3>2
  <2>4. Abstract!PutAt(h, q, x)
    <3>1. Abstract!Becomes(h, c2, Abstract!Success)
      BY <2>3 DEF Abstract!Success
    <3> QED
      BY <2>3, <3>1, Zenon DEF Abstract!PutAt
  <2>5. Abstract!ListInsert(h, x)
    BY <1>1, <2>4, Zenon DEF Abstract!ListInsert
  <2> QED
    BY <2>2, <2>5
<1> QED
  BY <1>4, <1>5

\* Adding at the end, or at the beginning.
LEMMA AppendIsInsertAt ==
    ASSUME NEW S, NEW s \in Seq(S), NEW x \in S
    PROVE  /\ Append(s, x) = InsertAt(s, Len(s) + 1, x)
           /\ Len(Append(s, x)) = Len(s) + 1
           /\ <<x>> \o s = InsertAt(s, 1, x)
<1> DEFINE p == Len(s) + 1
           one == 1
           a == Append(s, x)
           b == InsertAt(s, p, x)
           c == <<x>> \o s
           d == InsertAt(s, one, x)
<1>1. p \in 1..(Len(s) + 1) /\ one \in 1..(Len(s) + 1) /\ Len(s) \in Nat
  OBVIOUS
<1>2. /\ a \in Seq(S) /\ Len(a) = Len(s) + 1
      /\ \A i \in 1..(Len(s) + 1) : a[i] = IF i < p THEN s[i] ELSE x
  OBVIOUS
<1>3. /\ c \in Seq(S) /\ Len(c) = Len(s) + 1
      /\ \A i \in 1..(Len(s) + 1) : c[i] = IF i = 1 THEN x ELSE s[i - 1]
  OBVIOUS
<1> HIDE DEF a, c
<1>4. /\ b \in Seq(S) /\ Len(b) = Len(s) + 1
      /\ \A i \in 1..(Len(s) + 1) :
            b[i] = IF i < p THEN s[i] ELSE IF i = p THEN x ELSE s[i - 1]
  <2>1. p \in 1..(Len(s) + 1)
    BY <1>1
  <2> HIDE DEF p
  <2>2. b \in Seq(S) /\ Len(b) = Len(s) + 1
    BY <2>1, InsertAtIs
  <2>3. \A i \in 1..(Len(s) + 1) :
            b[i] = IF i < p THEN s[i] ELSE IF i = p THEN x ELSE s[i - 1]
    BY <2>1, InsertAtIs
  <2> QED
    BY <2>2, <2>3
<1>5. /\ d \in Seq(S) /\ Len(d) = Len(s) + 1
      /\ \A i \in 1..(Len(s) + 1) :
            d[i] = IF i < one THEN s[i] ELSE IF i = one THEN x ELSE s[i - 1]
  <2> HIDE DEF one
  <2>1. d \in Seq(S) /\ Len(d) = Len(s) + 1
    BY <1>1, InsertAtIs
  <2>2. \A i \in 1..(Len(s) + 1) :
            d[i] = IF i < one THEN s[i] ELSE IF i = one THEN x ELSE s[i - 1]
    BY <1>1, InsertAtIs
  <2> QED
    BY <2>1, <2>2
<1> HIDE DEF b, d
<1>6. \A i \in 1..(Len(s) + 1) : a[i] = b[i]
  BY <1>1, <1>2, <1>4
<1>7. a = b
  BY <1>2, <1>4, <1>6, SeqEqual
<1>8. \A i \in 1..(Len(s) + 1) : c[i] = d[i]
  BY <1>1, <1>3, <1>5
<1>9. c = d
  BY <1>3, <1>5, <1>8, SeqEqual
<1> QED
  BY <1>2, <1>7, <1>9 DEF a, b, c, d

LEMMA AppendImplements ==
    ASSUME ListInv, NEW h \in Live, NEW x \in Items, ListAppend(h, x)
    PROVE  Abstract!ListAppend(h, x) /\ ListInv' /\ LossIsKnown
<1> DEFINE l == Contents(h)
           it == l.items
           p == Len(Chained(h)) + 1
<1>1. call' = "ListAppend"
  BY DEF ListAppend
<1>2. /\ [g \in Live |-> Contents(g)][h] = l
      /\ it \in Seq(Items \cup {NULL}) /\ Len(it) = Len(Chained(h))
  BY ContentsIs
<1>3. PICK n \in Fresh : Adds(h, p, n, x) /\ value' = Success
  BY ListAppendStep
<1>4. /\ Abstract!Becomes(h, [items |-> InsertAt(Contents(h).items, p, x), cur |-> p], 0)
      /\ ListInv' /\ LossIsKnown
  <2> HIDE DEF p
  <2> QED
    BY <1>3, PutsAt
<1>5. Append(it, x) = InsertAt(it, p, x) /\ Len(Append(it, x)) = p
  <2> DEFINE S == Items \cup {NULL}
  <2>1. it \in Seq(S) /\ x \in S /\ Len(it) + 1 = p
    BY <1>2
  <2> HIDE DEF it, p, S
  <2>2. Append(it, x) = InsertAt(it, Len(it) + 1, x) /\ Len(Append(it, x)) = Len(it) + 1
    BY <2>1, AppendIsInsertAt
  <2> QED
    BY <2>1, <2>2
<1>6. Abstract!Becomes(h, [items |-> InsertAt(it, p, x), cur |-> p], 0)
  BY <1>4
<1> HIDE DEF l, p
<1> QED
  BY <1>1, <1>2, <1>4, <1>5, <1>6 DEF Abstract!ListAppend, Abstract!Success

LEMMA PrependImplements ==
    ASSUME ListInv, NEW h \in Live, NEW x \in Items, ListPrepend(h, x)
    PROVE  Abstract!ListPrepend(h, x) /\ ListInv' /\ LossIsKnown
<1> DEFINE l == Contents(h)
           it == l.items
<1>1. call' = "ListPrepend"
  BY DEF ListPrepend
<1>2. /\ [g \in Live |-> Contents(g)][h] = l
      /\ it \in Seq(Items \cup {NULL})
  BY ContentsIs
<1>3. PICK n \in Fresh : Adds(h, 1, n, x) /\ value' = Success
  BY ListPrependStep
<1>4. /\ Abstract!Becomes(h, [items |-> InsertAt(it, 1, x), cur |-> 1], 0)
      /\ ListInv' /\ LossIsKnown
  <2> DEFINE one == 1
  <2>1. Adds(h, one, n, x) /\ value' = Success
    BY <1>3
  <2> HIDE DEF one
  <2>2. /\ Abstract!Becomes(h, [items |-> InsertAt(Contents(h).items, one, x), cur |-> one], 0)
        /\ ListInv' /\ LossIsKnown
    BY <2>1, PutsAt
  <2> QED
    BY <2>2 DEF one
<1>5. <<x>> \o it = InsertAt(it, 1, x)
  <2> HIDE DEF it
  <2> QED
    BY <1>2, AppendIsInsertAt
<1> HIDE DEF l
<1> QED
  BY <1>1, <1>2, <1>4, <1>5 DEF Abstract!ListPrepend, Abstract!Success


-----------------------------------------------------------------------------
(* The functions of list_removers.c implement the abstract ones.           *)

LEMMA TakesOut ==
    ASSUME ListInv, NEW h \in Live, NEW p, Removes(h, p)
    PROVE  LET it == Contents(h).items
               t == RemoveAt(it, p)
           IN  /\ Abstract!Becomes(h, [items |-> t, cur |-> IF p > Len(t) THEN Len(t) ELSE p],
                                   it[p])
               /\ ListInv' /\ LossIsKnown
               /\ p \in 1..Len(it) /\ Len(t) = Len(it) - 1
<1> DEFINE it == Contents(h).items
           t == RemoveAt(it, p)
           s == RemoveAt(Chained(h), p)
           m == Len(Chained(h)) - 1
           c == [items |-> t, cur |-> IF p > m THEN m ELSE p]
           c2 == [items |-> t, cur |-> IF p > Len(t) THEN Len(t) ELSE p]
           v == it[p]
<1>1. Outcome({h}, {h}, s, {}) /\ Contents(h)' = c /\ value' = v /\ p \in 1..Len(Chained(h))
  BY RemovesOutcome
<1>2. crashed' = crashed
  BY DEF Removes
<1>3. it \in Seq(Items \cup {NULL}) /\ Len(it) = Len(Chained(h))
  BY ContentsIs
<1>4. p \in 1..Len(it) /\ Len(t) = Len(it) - 1
  <2> DEFINE S == Items \cup {NULL}
  <2>1. it \in Seq(S) /\ p \in 1..Len(it)
    BY <1>1, <1>3
  <2> HIDE DEF it, S
  <2>2. Len(RemoveAt(it, p)) = Len(it) - 1
    BY <2>1, RemoveAtIs
  <2> QED
    BY <2>1, <2>2
<1>5. Len(t) = m
  BY <1>3, <1>4
<1> HIDE DEF m, t, it
<1>6. c = c2
  BY <1>5
<1> HIDE DEF s, c, v
<1>7. Abstract!Becomes(h, c, v) /\ ListInv' /\ LossIsKnown
  BY <1>1, <1>2, ChangesListNoLoss
<1> HIDE DEF c2
<1>8. Abstract!Becomes(h, c2, v)
  BY <1>6, <1>7
<1>9. Abstract!Becomes(h, [items |-> t, cur |-> IF p > Len(t) THEN Len(t) ELSE p], it[p])
  BY <1>8, Zenon DEF c2, v
<1> QED
  BY <1>4, <1>7, <1>9, Zenon DEF t, it

LEMMA RemoveImplements ==
    ASSUME ListInv, NEW h \in Live, ListRemove(h)
    PROVE  Abstract!ListRemove(h) /\ ListInv' /\ LossIsKnown
<1> DEFINE l == Contents(h)
           p == l.cur
           L == [g \in Live |-> Contents(g)][h]
           t == RemoveAt(l.items, p)
           T == Abstract!RemoveAt(L.items, L.cur)
           c1 == [items |-> t, cur |-> IF p > Len(t) THEN Len(t) ELSE p]
           c2 == [items |-> T, cur |-> IF L.cur > Len(T) THEN Len(T) ELSE L.cur]
<1>1. call' = "ListRemove"
  BY DEF ListRemove
<1>2. L = l
  OBVIOUS
<1>3. \/ p = 0 /\ Leaves(NULL)
      \/ p # 0 /\ Removes(h, p)
  BY ListRemoveStep
<1>4. CASE p = 0
  <2>1. Leaves(NULL)
    BY <1>3, <1>4
  <2>2. Abstract!Leaves(NULL) /\ ListInv' /\ LossIsKnown
    BY <2>1, ChangesNothing
  <2>3. L.cur = 0
    BY <1>2, <1>4
  <2> QED
    BY <1>1, <2>2, <2>3 DEF Abstract!ListRemove
<1>5. CASE p # 0
  <2>1. Removes(h, p)
    BY <1>3, <1>5
  <2>2. Abstract!Becomes(h, c1, l.items[p]) /\ ListInv' /\ LossIsKnown
    <3> HIDE DEF p
    <3> QED
      BY <2>1, TakesOut
  <2>3. Abstract!Becomes(h, c2, Abstract!Current(L)) /\ L.cur # 0
    <3> HIDE DEF L, l
    <3>1. t = T /\ L.cur = p /\ Abstract!Current(L) = l.items[p]
      BY <1>2, <1>5, SameOperators DEF Abstract!Current
    <3> HIDE DEF t, T
    <3>2. c1 = c2
      BY <3>1
    <3> HIDE DEF c1, c2
    <3> QED
      BY <1>5, <2>2, <3>1, <3>2
  <2>4. Abstract!ListRemove(h)
    BY <1>1, <2>3, Zenon DEF Abstract!ListRemove
  <2> QED
    BY <2>2, <2>4
<1> QED
  BY <1>4, <1>5

LEMMA TrimImplements ==
    ASSUME ListInv, NEW h \in Live, ListTrim(h)
    PROVE  Abstract!ListTrim(h) /\ ListInv' /\ LossIsKnown
<1> DEFINE it == Contents(h).items
           p == Len(Chained(h))
           I == [g \in Live |-> Contents(g)][h].items
           t == RemoveAt(it, p)
           T == Abstract!Front(I)
           c1 == [items |-> t, cur |-> IF p > Len(t) THEN Len(t) ELSE p]
           c2 == [items |-> T, cur |-> Len(T)]
<1>1. call' = "ListTrim"
  BY DEF ListTrim
<1>2. /\ I = it /\ it \in Seq(Items \cup {NULL}) /\ Len(it) = p /\ p \in Nat
      /\ it = <<>> <=> p = 0
  <2>1. I = it
    OBVIOUS
  <2>2. it \in Seq(Items \cup {NULL}) /\ Len(it) = p /\ p \in Nat
    BY ContentsIs
  <2>3. it = <<>> <=> p = 0
    BY ContentsIs
  <2> QED
    BY <2>1, <2>2, <2>3
<1>3. \/ p = 0 /\ Leaves(NULL)
      \/ p # 0 /\ Removes(h, p)
  BY ListTrimStep
<1>4. CASE p = 0
  <2>1. Leaves(NULL)
    BY <1>3, <1>4
  <2>2. Abstract!Leaves(NULL) /\ ListInv' /\ LossIsKnown
    BY <2>1, ChangesNothing
  <2>3. I = <<>>
    BY <1>2, <1>4
  <2> QED
    BY <1>1, <2>2, <2>3 DEF Abstract!ListTrim
<1>5. CASE p # 0
  <2>1. Removes(h, p)
    BY <1>3, <1>5
  <2>2. Abstract!Becomes(h, c1, it[p]) /\ ListInv' /\ LossIsKnown /\ Len(t) = Len(it) - 1
    <3> HIDE DEF p
    <3> QED
      BY <2>1, TakesOut
  <2>3. Abstract!Becomes(h, c2, Abstract!Last(I)) /\ I # <<>>
    <3> HIDE DEF it, I, p
    <3>1. Front(it) = RemoveAt(it, Len(it)) /\ Last(it) = it[Len(it)]
      <4> DEFINE S == Items \cup {NULL}
      <4>1. it \in Seq(S) /\ it # <<>>
        BY <1>2, <1>5
      <4> HIDE DEF S
      <4> QED
        BY <4>1, FrontIs
    <3>2. t = T /\ Abstract!Last(I) = it[p] /\ I # <<>>
      BY <1>2, <1>5, <3>1, SameOperators
    <3>3. Len(t) = p - 1 /\ p \in Nat
      BY <1>2, <2>2
    <3> HIDE DEF t, T
    <3>4. c1 = c2
      BY <3>2, <3>3
    <3> HIDE DEF c1, c2
    <3> QED
      BY <2>2, <3>2, <3>4
  <2> QED
    BY <1>1, <2>2, <2>3 DEF Abstract!ListTrim
<1> QED
  BY <1>4, <1>5


-----------------------------------------------------------------------------
(* Lists come and go.                                                      *)

\* An empty list is a list, of no nodes.
LEMMA EmptyIsList ==
    ASSUME NEW nd, NEW l, l.head = NULL, l.tail = NULL, l.cursor = NULL, l.size = 0
    PROVE  IsList(nd, l, <<>>)
<1> DEFINE s == <<>>
<1>1. s \in Seq(Nodes) /\ Len(s) = 0
  OBVIOUS
<1> HIDE DEF s
<1>2. IsWalk(nd, l.head, s)
  BY <1>1 DEF IsWalk, Nth
<1>3. IsList(nd, l, s)
  BY <1>1, <1>2 DEF IsList, Nth
<1> QED
  BY <1>3 DEF s

\* Nothing is stored in no nodes.
LEMMA NothingStored ==
    ASSUME NEW nd
    PROVE  Stored(nd, <<>>) = <<>> /\ Position(<<>>, NULL) = 0
<1>1. Stored(nd, <<>>) = <<>>
  BY DEF Stored
<1> DEFINE s == <<>>
<1>2. s \in Seq(Nodes) /\ \A i, j \in 1..Len(s) : s[i] = s[j] => i = j
  OBVIOUS
<1> HIDE DEF s
<1>3. Position(s, NULL) = 0
  BY <1>2, PositionIs
<1> QED
  BY <1>1, <1>3 DEF s

LEMMA CreateImplements ==
    ASSUME ListInv, NEW h \in Handles, ListCreate(h)
    PROVE  Abstract!ListCreate(h) /\ ListInv' /\ LossIsKnown
<1> DEFINE l2 == [BlankList EXCEPT !.in_use = TRUE]
           s == <<>>
           none == {}
<1>1. /\ h \notin Live /\ call' = "ListCreate"
      /\ node' = node /\ list' = [list EXCEPT ![h] = l2] /\ value' = h /\ crashed' = crashed
  BY DEF ListCreate, Writes, Returns
<1>2. /\ l2 = [in_use |-> TRUE, head |-> NULL, tail |-> NULL, cursor |-> NULL, size |-> 0]
      /\ l2 \in InternalList
  <2> DEFINE b == BlankList
  <2>1. b = [in_use |-> FALSE, head |-> NULL, tail |-> NULL, cursor |-> NULL, size |-> 0]
    BY DEF BlankList
  <2>2. l2 = [b EXCEPT !.in_use = TRUE]
    OBVIOUS
  <2> HIDE DEF b, l2
  <2>3. l2 = [in_use |-> TRUE, head |-> NULL, tail |-> NULL, cursor |-> NULL, size |-> 0]
    BY <2>1, <2>2
  <2> QED
    BY <2>3 DEF InternalList
<1>3. l2.in_use /\ l2.head = NULL /\ l2.tail = NULL /\ l2.cursor = NULL /\ l2.size = 0
  BY <1>2
<1> HIDE DEF l2
<1>4. /\ list \in [Handles -> InternalList] /\ node \in [Nodes -> InternalNode]
      /\ crashed \in BOOLEAN
  BY DEF ListInv, TypeOK
<1>5. list' \in [Handles -> InternalList] /\ list'[h] = l2 /\ \A g \in Handles \ {h} : list'[g] = list[g]
  BY <1>1, <1>2, <1>4
<1>6. TypeOK'
  BY <1>1, <1>4, <1>5 DEF TypeOK
<1>7. IsList(node', list'[h], s)
  <2> DEFINE nd == node'
  <2> HIDE DEF nd
  <2>1. IsList(nd, l2, s)
    BY <1>3, EmptyIsList
  <2> QED
    BY <2>1, <1>5 DEF nd
<1>8. NodesOf({h}) = {} /\ ToSet(s) = {}
  <2>1. {h} \cap Live = {} /\ ToSet(s) = {}
    BY <1>1 DEF ToSet
  <2> QED
    BY <2>1 DEF NodesOf
<1>9. InUse' = (InUse \ NodesOf({h})) \cup ToSet(s) \cup none
  BY <1>1, <1>8 DEF InUse
<1>10. Keeps({h})
  BY <1>1, <1>5 DEF Keeps
<1>11. Outcome({h}, {h}, s, none)
  <2>1. none \subseteq (NodesOf({h}) \cup Fresh) \ ToSet(s) /\ ToSet(s) \subseteq NodesOf({h}) \cup Fresh
    BY <1>8
  <2>2. \A g \in {h} : list'[g].in_use /\ IsList(node', list'[g], s)
    BY <1>3, <1>5, <1>7
  <2> HIDE DEF s, none
  <2> QED
    BY <1>6, <1>9, <1>10, <2>1, <2>2 DEF Outcome
<1>12. Live' = Live \cup {h} /\ ListInv' /\ Lost' = Lost /\ Chained(h)' = s
  <2> HIDE DEF s
  <2>1. Live' = (Live \ {h}) \cup {h}
    BY <1>11, LiveAfter
  <2>2. ListInv' /\ Lost' = Lost \cup none
    BY <1>11, OutcomeKeepsInv, LostAfter
  <2>3. Chained(h)' = s
    BY <1>11, NewList
  <2> QED
    BY <2>1, <2>2, <2>3
<1>13. Contents(h)' = [items |-> <<>>, cur |-> 0]
  <2>1. list'[h].cursor = NULL
    BY <1>3, <1>5
  <2>2. Contents(h)' = [items |-> Stored(node', s), cur |-> Position(s, NULL)]
    BY <1>12, <2>1 DEF Contents
  <2> QED
    BY <2>2, NothingStored
<1>14. \A g \in Live : Contents(g)' = Contents(g)
  BY <1>1, <1>10, OthersStay
<1> DEFINE before == [g \in Live |-> Contents(g)]
           after == [g \in Live' |-> Contents(g)']
<1>15. DOMAIN before = Live /\ \A g \in Live : before[g] = Contents(g)
  OBVIOUS
<1>16. after = [g \in DOMAIN before \cup {h} |->
                  IF g = h THEN [items |-> <<>>, cur |-> 0] ELSE before[g]]
  BY <1>1, <1>12, <1>13, <1>14
<1> QED
  BY <1>1, <1>12, <1>15, <1>16, NoLoss
     DEF Abstract!ListCreate, Abstract!Returns, Abstract!Empty, Abstract!Live


\* The struct that ListConcat leaves.
LEMMA JoinedIs ==
    ASSUME NEW l1 \in InternalList, NEW l2 \in InternalList
    PROVE  Joined(l1, l2) =
             [in_use |-> l1.in_use,
              head |-> IF l1.head = NULL THEN l2.head ELSE l1.head,
              tail |-> IF l2.tail # NULL THEN l2.tail ELSE l1.tail,
              cursor |-> l1.cursor,
              size |-> l1.size + l2.size]
<1> DEFINE u == l1.in_use
           hd == l1.head
           tl == l1.tail
           cu == l1.cursor
           sz == l1.size
           hd2 == l2.head
           tl2 == l2.tail
           n2 == l2.size
           hd3 == IF hd = NULL THEN hd2 ELSE hd
           tl3 == IF tl2 # NULL THEN tl2 ELSE tl
           sz3 == sz + n2
           j1 == [l1 EXCEPT !.head = IF @ = NULL THEN l2.head ELSE @]
           j2 == [j1 EXCEPT !.tail = IF l2.tail # NULL THEN l2.tail ELSE @]
           j3 == [j2 EXCEPT !.size = @ + l2.size]
<1>1. Joined(l1, l2) = j3
  BY DEF Joined
<1>2. l1 = [in_use |-> u, head |-> hd, tail |-> tl, cursor |-> cu, size |-> sz]
  BY DEF InternalList
<1>3. /\ hd3 = (IF hd = NULL THEN hd2 ELSE hd)
      /\ tl3 = (IF tl2 # NULL THEN tl2 ELSE tl)
      /\ sz3 = sz + n2
  OBVIOUS
<1>4. /\ u = l1.in_use /\ hd = l1.head /\ tl = l1.tail /\ cu = l1.cursor /\ sz = l1.size
      /\ hd2 = l2.head /\ tl2 = l2.tail /\ n2 = l2.size
  OBVIOUS
<1> HIDE DEF u, hd, tl, cu, sz, hd2, tl2, n2, hd3, tl3, sz3
<1>5. j1 = [in_use |-> u, head |-> hd3, tail |-> tl, cursor |-> cu, size |-> sz]
  BY <1>2, <1>3, <1>4
<1> HIDE DEF j1
<1>6. j2 = [in_use |-> u, head |-> hd3, tail |-> tl3, cursor |-> cu, size |-> sz]
  BY <1>3, <1>4, <1>5
<1> HIDE DEF j2
<1>7. j3 = [in_use |-> u, head |-> hd3, tail |-> tl3, cursor |-> cu, size |-> sz3]
  BY <1>3, <1>4, <1>6
<1> HIDE DEF j3
<1>8. Joined(l1, l2) = [in_use |-> u, head |-> hd3, tail |-> tl3, cursor |-> cu, size |-> sz3]
  BY <1>1, <1>7
<1> QED
  BY <1>3, <1>4, <1>8

\* nd2 is nd with the nodes a and b linked, as far as they are nodes.
Bridged(nd, nd2, a, b) ==
    /\ nd2 \in [Nodes -> InternalNode]
    /\ \A k \in Nodes : nd2[k] = Relinked(nd, k, a, b, b, a)
    /\ \A k \in Nodes : nd2[k].in_use = nd[k].in_use /\ nd2[k].item = nd[k].item

\* l3 is l1 with l2 behind it.
Concatenated(l1, l2, l3) ==
    /\ l3.head = IF l1.head = NULL THEN l2.head ELSE l1.head
    /\ l3.tail = IF l2.tail # NULL THEN l2.tail ELSE l1.tail
    /\ l3.cursor = l1.cursor /\ l3.size = l1.size + l2.size

\* Two lists, the last node of the first and the first of the second linked,
\* are one list.
LEMMA JoinedWalk ==
    ASSUME NEW nd, NEW nd2, NEW l1, NEW l2, NEW l3, NEW s1, NEW s2, NEW a, NEW b,
           IsList(nd, l1, s1), IsList(nd, l2, s2), ToSet(s1) \cap ToSet(s2) = {},
           a = Nth(s1, Len(s1)), b = Nth(s2, 1),
           Bridged(nd, nd2, a, b), Concatenated(l1, l2, l3)
    PROVE  IsList(nd2, l3, s1 \o s2) /\ ToSet(s1 \o s2) = ToSet(s1) \cup ToSet(s2)
<1> DEFINE s == s1 \o s2
           m == Len(s1)
           n == Len(s2)
<1>1. /\ s1 \in Seq(Nodes) /\ m \in Nat /\ ToSet(s1) = {s1[i] : i \in 1..m}
      /\ \A i \in 1..m : s1[i] \in Nodes /\ s1[i] \in ToSet(s1)
      /\ \A i, j \in 1..m : s1[i] = s1[j] => i = j
  BY ChainOfList
<1>2. /\ s2 \in Seq(Nodes) /\ n \in Nat /\ ToSet(s2) = {s2[i] : i \in 1..n}
      /\ \A i \in 1..n : s2[i] \in Nodes /\ s2[i] \in ToSet(s2)
      /\ \A i, j \in 1..n : s2[i] = s2[j] => i = j
  BY ChainOfList
<1>3. /\ s \in Seq(Nodes) /\ Len(s) = m + n
      /\ \A i \in 1..m : s[i] = s1[i]
      /\ \A i \in 1..n : s[m + i] = s2[i]
  BY <1>1, <1>2
<1>4. /\ l1.head = Nth(s1, 1) /\ l1.size = m /\ l1.tail = a
      /\ l1.cursor \in ToSet(s1) \cup {NULL}
      /\ \A i \in 1..m : /\ nd[s1[i]].next = Nth(s1, i + 1)
                         /\ nd[s1[i]].in_use /\ nd[s1[i]].prev = Nth(s1, i - 1)
  BY DEF IsList, IsWalk
<1>5. /\ l2.head = b /\ l2.size = n /\ l2.tail = Nth(s2, n)
      /\ \A i \in 1..n : /\ nd[s2[i]].next = Nth(s2, i + 1)
                         /\ nd[s2[i]].in_use /\ nd[s2[i]].prev = Nth(s2, i - 1)
  BY DEF IsList, IsWalk
<1> HIDE DEF s, m, n
<1>6. /\ m = 0 => a = NULL
      /\ m # 0 => (m \in 1..m /\ a = s1[m])
      /\ n = 0 => b = NULL
      /\ n # 0 => (1 \in 1..n /\ b = s2[1])
  BY <1>1, <1>2 DEF Nth, m, n
<1>7. \A k \in Nodes : /\ nd2[k].in_use = nd[k].in_use
                       /\ nd2[k].next = IF k = a THEN b ELSE nd[k].next
                       /\ nd2[k].prev = IF k = b THEN a ELSE nd[k].prev
  <2> SUFFICES ASSUME NEW k \in Nodes
               PROVE  /\ nd2[k].in_use = nd[k].in_use
                      /\ nd2[k].next = IF k = a THEN b ELSE nd[k].next
                      /\ nd2[k].prev = IF k = b THEN a ELSE nd[k].prev
    OBVIOUS
  <2> DEFINE next == IF k = a THEN b ELSE nd[k].next
             prev == IF k = b THEN a ELSE nd[k].prev
             u == nd[k].in_use
             x == nd[k].item
  <2>1. nd2[k] = [in_use |-> u, item |-> x, next |-> next, prev |-> prev]
    BY DEF Bridged, Relinked
  <2> HIDE DEF next, prev, u, x
  <2>2. nd2[k].in_use = u /\ nd2[k].next = next /\ nd2[k].prev = prev
    BY <2>1
  <2> QED
    BY <2>2 DEF next, prev, u
<1>8. /\ \A i \in 1..m : s1[i] # NULL /\ s1[i] # b
      /\ \A i \in 1..n : s2[i] # NULL /\ s2[i] # a
  <2>1. a \in ToSet(s1) \cup {NULL} /\ b \in ToSet(s2) \cup {NULL}
    BY <1>1, <1>2, <1>6
  <2>2. \A i \in 1..m : s1[i] # NULL /\ s1[i] \in ToSet(s1)
    BY <1>1, NullIsNothing
  <2>3. \A i \in 1..n : s2[i] # NULL /\ s2[i] \in ToSet(s2)
    BY <1>2, NullIsNothing
  <2> DEFINE S1 == ToSet(s1)
             S2 == ToSet(s2)
  <2>4. S1 \cap S2 = {}
    OBVIOUS
  <2> HIDE DEF S1, S2
  <2> QED
    BY <2>1, <2>2, <2>3, <2>4 DEF S1, S2
<1>9. ASSUME NEW i \in 1..(m + n)
      PROVE  \/ i \in 1..m /\ s[i] = s1[i]
             \/ i - m \in 1..n /\ s[i] = s2[i - m] /\ m + (i - m) = i
  <2>1. CASE i <= m
    BY <2>1, <1>1, <1>2, <1>3
  <2>2. CASE i > m
    <3>1. i - m \in 1..n /\ m + (i - m) = i
      BY <2>2, <1>1, <1>2
    <3>2. s[m + (i - m)] = s2[i - m]
      BY <3>1, <1>3
    <3> QED
      BY <3>1, <3>2
  <2> QED
    BY <2>1, <2>2, <1>1, <1>2
<1>10. /\ \A i \in Int : Nth(s, i) = IF i <= m THEN Nth(s1, i) ELSE Nth(s2, i - m)
       /\ \A i \in 1..(m + n) : s[i] = IF i <= m THEN s1[i] ELSE s2[i - m]
  <2>1. ASSUME NEW i \in Int
        PROVE  Nth(s, i) = IF i <= m THEN Nth(s1, i) ELSE Nth(s2, i - m)
    <3>1. CASE i \in 1..m
      <4>1. i \in 1..(m + n) /\ i <= m
        BY <3>1, <1>1, <1>2
      <4>2. Nth(s, i) = s[i] /\ Nth(s1, i) = s1[i]
        BY <3>1, <4>1, <1>3 DEF Nth, m
      <4> QED
        BY <3>1, <4>1, <4>2, <1>3
    <3>2. CASE i - m \in 1..n
      <4>1. i \in 1..(m + n) /\ ~ (i <= m) /\ m + (i - m) = i
        BY <3>2, <1>1, <1>2
      <4>2. Nth(s, i) = s[i] /\ Nth(s2, i - m) = s2[i - m]
        BY <3>2, <4>1, <1>3 DEF Nth, n
      <4>3. s[m + (i - m)] = s2[i - m]
        BY <3>2, <1>3
      <4> QED
        BY <4>1, <4>2, <4>3
    <3>3. CASE i \notin 1..m /\ i - m \notin 1..n
      <4>1. i \notin 1..(m + n)
        BY <3>3, <1>1, <1>2
      <4>2. Nth(s, i) = NULL /\ Nth(s1, i) = NULL /\ Nth(s2, i - m) = NULL
        BY <3>3, <4>1, <1>3 DEF Nth, m, n
      <4> QED
        BY <4>2
    <3> QED
      BY <3>1, <3>2, <3>3
  <2>2. ASSUME NEW i \in 1..(m + n)
        PROVE  s[i] = IF i <= m THEN s1[i] ELSE s2[i - m]
    <3>1. i \in 1..m => i <= m
      BY <1>1
    <3>2. i - m \in 1..n => ~ (i <= m)
      BY <1>1, <1>2
    <3> QED
      BY <1>9, <3>1, <3>2
  <2> QED
    BY <2>1, <2>2
<1>11. ASSUME NEW i \in 1..Len(s)
       PROVE  /\ nd2[s[i]].next = Nth(s, i + 1)
              /\ nd2[s[i]].in_use /\ nd2[s[i]].prev = Nth(s, i - 1)
  <2>1. i \in 1..(m + n) /\ i \in Int /\ i + 1 \in Int /\ i - 1 \in Int
    BY <1>3
  <2>2. CASE i \in 1..m /\ s[i] = s1[i]
    <3> DEFINE k == s1[i]
    <3>1. /\ k \in Nodes /\ k # b
          /\ nd[k].next = Nth(s1, i + 1) /\ nd[k].in_use /\ nd[k].prev = Nth(s1, i - 1)
          /\ k = a <=> i = m
      <4>1. k \in Nodes /\ k # b
        BY <2>2, <1>1, <1>8
      <4>2. nd[k].next = Nth(s1, i + 1) /\ nd[k].in_use /\ nd[k].prev = Nth(s1, i - 1)
        BY <2>2, <1>4
      <4>3. m # 0
        BY <2>2, <1>1
      <4>4. k = a <=> i = m
        BY <2>2, <4>3, <1>1, <1>6
      <4> QED
        BY <4>1, <4>2, <4>4
    <3>2. Nth(s, i - 1) = Nth(s1, i - 1)
      <4>1. i - 1 <= m
        BY <2>2, <1>1
      <4> QED
        BY <4>1, <2>1, <1>10
    <3>3. CASE i = m
      <4>1. ~ (i + 1 <= m) /\ (i + 1) - m = 1
        BY <3>3, <1>1
      <4>2. Nth(s, i + 1) = Nth(s2, 1)
        BY <4>1, <2>1, <1>10
      <4> QED
        BY <3>1, <3>2, <3>3, <4>2, <2>2, <1>7
    <3>4. CASE i # m
      <4>1. i + 1 <= m
        BY <3>4, <2>2, <1>1
      <4>2. Nth(s, i + 1) = Nth(s1, i + 1)
        BY <4>1, <2>1, <1>10
      <4> QED
        BY <3>1, <3>2, <3>4, <4>2, <2>2, <1>7
    <3> QED
      BY <3>3, <3>4
  <2>3. CASE i - m \in 1..n /\ s[i] = s2[i - m]
    <3> DEFINE j == i - m
               k == s2[j]
    <3>1. /\ k \in Nodes /\ k # a
          /\ nd[k].next = Nth(s2, j + 1) /\ nd[k].in_use /\ nd[k].prev = Nth(s2, j - 1)
          /\ k = b <=> j = 1
      <4>1. j \in 1..n
        BY <2>3
      <4> HIDE DEF j
      <4>2. k \in Nodes /\ k # a
        BY <4>1, <1>2, <1>8
      <4>3. nd[k].next = Nth(s2, j + 1) /\ nd[k].in_use /\ nd[k].prev = Nth(s2, j - 1)
        BY <4>1, <1>5
      <4>4. n # 0
        BY <4>1, <1>2
      <4>5. k = b <=> j = 1
        BY <4>1, <4>4, <1>2, <1>6
      <4> QED
        BY <4>2, <4>3, <4>5
    <3>2. Nth(s, i + 1) = Nth(s2, j + 1)
      <4>1. ~ (i + 1 <= m) /\ (i + 1) - m = j + 1
        BY <2>1, <2>3, <1>1, <1>2
      <4> QED
        BY <4>1, <2>1, <1>10
    <3>3. s[i] = k /\ nd2[k].in_use /\ nd2[k].next = Nth(s, i + 1)
          /\ nd2[k].prev = IF k = b THEN a ELSE nd[k].prev
      <4>1. s[i] = k
        BY <2>3
      <4> HIDE DEF k, j
      <4>2. /\ nd2[k].in_use /\ nd2[k].next = nd[k].next
            /\ nd2[k].prev = IF k = b THEN a ELSE nd[k].prev
        BY <3>1, <1>7
      <4> QED
        BY <4>1, <4>2, <3>1, <3>2
    <3>4. Nth(s, i - 1) = nd2[k].prev
      <4>1. CASE j = 1
        <5>1. i - 1 = m /\ i - 1 <= m
          BY <4>1, <1>1, <2>1
        <5>2. Nth(s, i - 1) = Nth(s1, m)
          BY <5>1, <2>1, <1>10
        <5>3. Nth(s, i - 1) = a
          BY <5>2 DEF m
        <5>4. k = b
          BY <4>1, <3>1
        <5> HIDE DEF k, j
        <5> QED
          BY <5>3, <5>4, <3>3
      <4>2. CASE j # 1
        <5>1. ~ (i - 1 <= m) /\ (i - 1) - m = j - 1
          <6>1. m \in Nat /\ n \in Nat /\ i \in Int /\ i - m \in 1..n /\ i - m # 1
            BY <4>2, <2>1, <2>3, <1>1, <1>2
          <6> QED
            BY <6>1
        <5>2. Nth(s, i - 1) = Nth(s2, j - 1)
          <6> DEFINE e == i - 1
                     e2 == j - 1
          <6>1. e \in Int /\ ~ (e <= m) /\ e - m = e2
            BY <5>1, <2>1
          <6> HIDE DEF e, e2
          <6>2. Nth(s, e) = Nth(s2, e - m)
            BY <6>1, <1>10
          <6>3. Nth(s, e) = Nth(s2, e2)
            BY <6>1, <6>2
          <6> QED
            BY <6>3 DEF e, e2
        <5>3. k # b
          BY <4>2, <3>1
        <5>4. nd2[k].prev = nd[k].prev
          <6> HIDE DEF k
          <6> QED
            BY <5>3, <3>3
        <5>5. nd[k].prev = Nth(s2, j - 1)
          BY <3>1
        <5> QED
          BY <5>2, <5>4, <5>5
      <4> QED
        BY <4>1, <4>2
    <3> HIDE DEF k
    <3> QED
      BY <3>3, <3>4
  <2> QED
    BY <2>1, <2>2, <2>3, <1>9
<1>12. ASSUME NEW i \in 1..Len(s), NEW j \in 1..Len(s), s[i] = s[j]
       PROVE  i = j
  <2>1. i \in 1..(m + n) /\ j \in 1..(m + n)
    BY <1>3
  <2>2. CASE i \in 1..m /\ j \in 1..m
    BY <2>1, <2>2, <1>1, <1>3, <1>12
  <2>3. CASE i - m \in 1..n /\ j - m \in 1..n
    <3>1. s[i] = s2[i - m] /\ s[j] = s2[j - m]
      <4>1. ~ (i <= m) /\ ~ (j <= m)
        BY <2>3, <1>1, <1>2, <2>1
      <4> QED
        BY <4>1, <2>1, <1>10
    <3>2. i - m = j - m
      BY <3>1, <2>3, <1>2, <1>12
    <3> QED
      BY <3>2, <2>1, <1>1
  <2>4. \A x \in 1..m, y \in 1..n : s1[x] # s2[y]
    BY <1>1, <1>2
  <2>5. CASE i \in 1..m /\ j - m \in 1..n
    <3>1. i <= m /\ ~ (j <= m)
      BY <2>1, <2>5, <1>1, <1>2
    <3>2. s[i] = s1[i] /\ s[j] = s2[j - m]
      BY <2>1, <3>1, <1>10
    <3> QED
      BY <2>4, <2>5, <3>2, <1>12
  <2>6. CASE i - m \in 1..n /\ j \in 1..m
    <3>1. ~ (i <= m) /\ j <= m
      BY <2>1, <2>6, <1>1, <1>2
    <3>2. s[i] = s2[i - m] /\ s[j] = s1[j]
      BY <2>1, <3>1, <1>10
    <3> QED
      BY <2>4, <2>6, <3>2, <1>12
  <2> QED
    BY <2>1, <2>2, <2>3, <2>5, <2>6, <1>9
<1>13. ToSet(s) = ToSet(s1) \cup ToSet(s2)
  <2>1. ToSet(s) = {s[i] : i \in 1..(m + n)}
    BY <1>3 DEF ToSet
  <2>2. ASSUME NEW x \in ToSet(s)
        PROVE  x \in ToSet(s1) \cup ToSet(s2)
    BY <2>1, <1>9, <1>1, <1>2
  <2>3. ASSUME NEW x \in ToSet(s1)
        PROVE  x \in ToSet(s)
    <3>1. PICK i \in 1..m : x = s1[i]
      BY <1>1
    <3>2. i \in 1..(m + n) /\ s[i] = s1[i]
      BY <1>1, <1>2, <1>3
    <3> QED
      BY <2>1, <3>1, <3>2
  <2>4. ASSUME NEW x \in ToSet(s2)
        PROVE  x \in ToSet(s)
    <3>1. PICK i \in 1..n : x = s2[i]
      BY <1>2
    <3>2. m + i \in 1..(m + n) /\ s[m + i] = s2[i]
      BY <1>1, <1>2, <1>3
    <3> QED
      BY <2>1, <3>1, <3>2
  <2> QED
    BY <2>2, <2>3, <2>4
<1>14. l3.head = Nth(s, 1) /\ l3.tail = Nth(s, Len(s))
  <2>1. l3.head = Nth(s, 1)
    <3>1. CASE m = 0
      <4>1. l1.head = NULL /\ ~ (1 <= m) /\ 1 - m = 1
        BY <3>1, <1>4 DEF Nth, m
      <4>2. Nth(s, 1) = Nth(s2, 1)
        BY <4>1, <1>10
      <4> QED
        BY <4>1, <4>2, <1>5 DEF Concatenated
    <3>2. CASE m # 0
      <4>1. 1 \in 1..m /\ 1 <= m
        BY <3>2, <1>1
      <4>2. Nth(s, 1) = Nth(s1, 1)
        BY <4>1, <1>10
      <4>3. l1.head # NULL
        BY <4>1, <1>4, <1>8 DEF Nth, m
      <4> QED
        BY <4>2, <4>3, <1>4 DEF Concatenated
    <3> QED
      BY <3>1, <3>2
  <2>2. l3.tail = Nth(s, m + n)
    <3>1. CASE n = 0
      <4>1. l2.tail = NULL
        BY <3>1, <1>5 DEF Nth, n
      <4>2. m + n <= m /\ m + n = m /\ m + n \in Int
        BY <3>1, <1>1
      <4>3. Nth(s, m + n) = Nth(s1, m)
        BY <4>2, <1>10
      <4> QED
        BY <4>1, <4>3, <1>4 DEF m, Concatenated
    <3>2. CASE n # 0
      <4>1. n \in 1..n /\ ~ (m + n <= m) /\ m + n - m = n /\ m + n \in Int
        BY <3>2, <1>1, <1>2
      <4>2. Nth(s, m + n) = Nth(s2, n)
        <5> DEFINE e == m + n
        <5>1. e \in Int /\ ~ (e <= m) /\ e - m = n
          BY <3>2, <1>1, <1>2
        <5>2. \A i \in Int : Nth(s, i) = IF i <= m THEN Nth(s1, i) ELSE Nth(s2, i - m)
          BY <1>10
        <5> HIDE DEF e
        <5>3. Nth(s, e) = Nth(s2, e - m)
          BY <5>1, <5>2
        <5>4. Nth(s, e) = Nth(s2, n)
          BY <5>1, <5>3
        <5> QED
          BY <5>4 DEF e
      <4>3. l2.tail # NULL
        BY <4>1, <1>5, <1>8 DEF Nth, n
      <4> QED
        BY <4>2, <4>3, <1>5 DEF Concatenated
    <3> QED
      BY <3>1, <3>2
  <2> QED
    BY <2>1, <2>2, <1>3
<1>15. IsList(nd2, l3, s)
  <2>1. l3.size = Len(s) /\ l3.cursor \in ToSet(s) \cup {NULL}
    BY <1>3, <1>4, <1>5, <1>13 DEF Concatenated
  <2> QED
    BY <2>1, <1>3, <1>11, <1>12, <1>14 DEF IsList, IsWalk
<1> QED
  BY <1>13, <1>15 DEF s


\* The items of the two lists are those of the one, and the current node of
\* the first is where it was.
LEMMA JoinedItems ==
    ASSUME NEW nd \in [Nodes -> InternalNode], NEW nd2 \in [Nodes -> InternalNode],
           \A k \in Nodes : nd2[k].item = nd[k].item,
           NEW s1 \in Seq(Nodes), NEW s2 \in Seq(Nodes),
           \A i, j \in 1..Len(s1 \o s2) : (s1 \o s2)[i] = (s1 \o s2)[j] => i = j,
           NEW c \in ToSet(s1) \cup {NULL}
    PROVE  /\ Stored(nd2, s1 \o s2) = Stored(nd, s1) \o Stored(nd, s2)
           /\ Position(s1 \o s2, c) = Position(s1, c)
<1> DEFINE s == s1 \o s2
           m == Len(s1)
           n == Len(s2)
           a == Stored(nd2, s)
           b1 == Stored(nd, s1)
           b2 == Stored(nd, s2)
           b == b1 \o b2
<1>1. /\ m \in Nat /\ n \in Nat /\ s \in Seq(Nodes) /\ Len(s) = m + n
      /\ \A i \in 1..m : s[i] = s1[i] /\ s1[i] \in Nodes
      /\ \A i \in 1..n : s[m + i] = s2[i] /\ s2[i] \in Nodes
      /\ \A i, j \in 1..Len(s) : s[i] = s[j] => i = j
      /\ DOMAIN s1 = 1..m
  <2>1. \A i, j \in 1..Len(s) : s[i] = s[j] => i = j
    OBVIOUS
  <2>2. m \in Nat /\ n \in Nat /\ s \in Seq(Nodes) /\ Len(s) = m + n /\ DOMAIN s1 = 1..m
    OBVIOUS
  <2>3. \A i \in 1..m : s[i] = s1[i] /\ s1[i] \in Nodes
    OBVIOUS
  <2>4. \A i \in 1..n : s[m + i] = s2[i] /\ s2[i] \in Nodes
    OBVIOUS
  <2> HIDE DEF s, m, n
  <2> QED
    BY <2>1, <2>2, <2>3, <2>4
<1> HIDE DEF s
<1>2. /\ a \in Seq(Items \cup {NULL}) /\ Len(a) = m + n
      /\ \A i \in 1..(m + n) : a[i] = nd2[s[i]].item
  <2>1. /\ a \in Seq(Items \cup {NULL}) /\ Len(a) = Len(s)
        /\ \A i \in 1..Len(s) : a[i] = nd2[s[i]].item
    BY <1>1, StoredIs
  <2> HIDE DEF a, m, n
  <2> QED
    BY <1>1, <2>1
<1>3. /\ b1 \in Seq(Items \cup {NULL}) /\ Len(b1) = m /\ \A i \in 1..m : b1[i] = nd[s1[i]].item
      /\ b2 \in Seq(Items \cup {NULL}) /\ Len(b2) = n /\ \A i \in 1..n : b2[i] = nd[s2[i]].item
  <2>1. b1 \in Seq(Items \cup {NULL}) /\ Len(b1) = m /\ \A i \in 1..m : b1[i] = nd[s1[i]].item
    BY StoredIs
  <2>2. b2 \in Seq(Items \cup {NULL}) /\ Len(b2) = n /\ \A i \in 1..n : b2[i] = nd[s2[i]].item
    BY StoredIs
  <2> QED
    BY <2>1, <2>2
<1> HIDE DEF m, n, a, b1, b2
<1>4. /\ b \in Seq(Items \cup {NULL}) /\ Len(b) = m + n
      /\ \A i \in 1..m : b[i] = b1[i]
      /\ \A i \in 1..n : b[m + i] = b2[i]
  <2> DEFINE S == Items \cup {NULL}
  <2>1. b1 \in Seq(S) /\ b2 \in Seq(S) /\ Len(b1) = m /\ Len(b2) = n
    BY <1>3
  <2> HIDE DEF S
  <2>2. /\ b \in Seq(S) /\ Len(b) = Len(b1) + Len(b2)
        /\ \A i \in 1..Len(b1) + Len(b2) : b[i] = IF i <= Len(b1) THEN b1[i] ELSE b2[i - Len(b1)]
    <3>1. b1 \in Seq(S) /\ b2 \in Seq(S)
      BY <2>1
    <3>2. b \in Seq(S) /\ Len(b) = Len(b1) + Len(b2)
      BY <3>1, ConcatProperties
    <3>3. \A i \in 1..Len(b1) + Len(b2) : b[i] = IF i <= Len(b1) THEN b1[i] ELSE b2[i - Len(b1)]
      BY <3>1, ConcatProperties
    <3> QED
      BY <3>2, <3>3
  <2> HIDE DEF b
  <2>3. \A i \in 1..m : b[i] = b1[i]
    BY <2>1, <2>2, <1>1
  <2>4. \A i \in 1..n : b[m + i] = b2[i]
    <3> SUFFICES ASSUME NEW i \in 1..n
                 PROVE  b[m + i] = b2[i]
      OBVIOUS
    <3> DEFINE j == m + i
    <3>1. j \in 1..(m + n) /\ ~ (j <= m) /\ j - m = i
      BY <1>1
    <3> HIDE DEF j
    <3>2. b[j] = b2[j - m]
      BY <3>1, <2>1, <2>2
    <3> QED
      BY <3>1, <3>2 DEF j
  <2> QED
    BY <2>1, <2>2, <2>3, <2>4 DEF S
<1> HIDE DEF b
<1>5. ASSUME NEW i \in 1..(m + n)
      PROVE  a[i] = b[i]
  <2>1. CASE i <= m
    <3>1. i \in 1..m
      BY <2>1, <1>1
    <3>2. s[i] = s1[i] /\ s1[i] \in Nodes /\ b[i] = nd[s1[i]].item
      BY <3>1, <1>1, <1>3, <1>4
    <3> QED
      BY <3>2, <1>2
  <2>2. CASE ~ (i <= m)
    <3> DEFINE j == i - m
    <3>1. j \in 1..n /\ m + j = i
      BY <2>2, <1>1
    <3> HIDE DEF j
    <3>2. s[m + j] = s2[j] /\ s2[j] \in Nodes /\ b[m + j] = nd[s2[j]].item
      BY <3>1, <1>1, <1>3, <1>4
    <3>3. s[i] = s2[j] /\ b[i] = nd[s2[j]].item
      BY <3>1, <3>2
    <3> QED
      BY <3>2, <3>3, <1>2
  <2> QED
    BY <2>1, <2>2
<1>6. a = b
  <2> DEFINE S == Items \cup {NULL}
  <2>1. a \in Seq(S) /\ b \in Seq(S) /\ Len(a) = Len(b) /\ \A i \in 1..Len(a) : a[i] = b[i]
    BY <1>2, <1>4, <1>5
  <2> HIDE DEF S
  <2> QED
    BY <2>1, SeqEqual
<1>7. Position(s, c) = Position(s1, c)
  <2>1. CASE c = NULL
    <3>1. Position(s, NULL) = 0 /\ Position(s1, NULL) = 0
      <4>1. \A i, j \in 1..m : s1[i] = s1[j] => i = j
        BY <1>1
      <4> QED
        BY <4>1, <1>1, PositionIs DEF m
    <3> QED
      BY <2>1, <3>1
  <2>2. CASE c \in ToSet(s1)
    <3>1. PICK k \in 1..m : c = s1[k]
      BY <2>2, <1>1 DEF ToSet
    <3>2. k \in 1..Len(s) /\ s[k] = c
      BY <3>1, <1>1
    <3>3. Position(s, s[k]) = k
      BY <3>2, <1>1, PositionIs
    <3>4. \A i, j \in 1..m : s1[i] = s1[j] => i = j
      BY <1>1
    <3>5. Position(s1, s1[k]) = k
      BY <3>1, <3>4, PositionIs DEF m
    <3> QED
      BY <3>1, <3>2, <3>3, <3>5
  <2> QED
    BY <2>1, <2>2
<1> QED
  BY <1>6, <1>7 DEF a, b, b1, b2, s

LEMMA JoinedNodes ==
    ASSUME NEW nd, NEW l1, NEW l2, NEW s1, NEW s2, IsList(nd, l1, s1), IsList(nd, l2, s2)
    PROVE  ToSet(s1 \o s2) = ToSet(s1) \cup ToSet(s2)
<1>1. s1 \in Seq(Nodes) /\ s2 \in Seq(Nodes)
  BY DEF IsList, IsWalk
<1> DEFINE s == s1 \o s2
<1>2. /\ ToSet(s1) = {s1[i] : i \in 1..Len(s1)} /\ ToSet(s2) = {s2[i] : i \in 1..Len(s2)}
      /\ ToSet(s) = {s[i] : i \in 1..Len(s)}
  BY <1>1 DEF ToSet
<1>3. /\ Len(s) = Len(s1) + Len(s2) /\ Len(s1) \in Nat /\ Len(s2) \in Nat
      /\ \A i \in 1..Len(s1) : s[i] = s1[i]
      /\ \A i \in 1..Len(s2) : s[Len(s1) + i] = s2[i]
  BY <1>1
<1> HIDE DEF s
<1>4. ASSUME NEW i \in 1..Len(s)
      PROVE  s[i] \in ToSet(s1) \cup ToSet(s2)
  <2>1. CASE i \in 1..Len(s1)
    BY <2>1, <1>2, <1>3
  <2>2. CASE i \notin 1..Len(s1)
    <3>1. PICK j \in 1..Len(s2) : i = Len(s1) + j
      <4>1. i - Len(s1) \in 1..Len(s2) /\ i = Len(s1) + (i - Len(s1))
        BY <2>2, <1>3
      <4> QED
        BY <4>1
    <3> QED
      BY <3>1, <1>2, <1>3
  <2> QED
    BY <2>1, <2>2
<1>5. \A i \in 1..Len(s1) : s1[i] \in ToSet(s)
  <2> SUFFICES ASSUME NEW i \in 1..Len(s1) PROVE s1[i] \in ToSet(s)
    OBVIOUS
  <2>1. i \in 1..Len(s) /\ s[i] = s1[i]
    BY <1>3
  <2> QED
    BY <2>1, <1>2
<1>6. \A i \in 1..Len(s2) : s2[i] \in ToSet(s)
  <2> SUFFICES ASSUME NEW i \in 1..Len(s2) PROVE s2[i] \in ToSet(s)
    OBVIOUS
  <2>1. Len(s1) + i \in 1..Len(s) /\ s[Len(s1) + i] = s2[i]
    BY <1>3
  <2> QED
    BY <2>1, <1>2
<1> QED
  BY <1>2, <1>4, <1>5, <1>6 DEF s

LEMMA JoinedByLinks ==
    ASSUME NEW nd \in [Nodes -> InternalNode],
           NEW a \in Nodes \cup {NULL}, NEW b \in Nodes \cup {NULL},
           NEW nd2, nd2 = LinkPrev(LinkNext(nd, a, b), b, a)
    PROVE  Bridged(nd, nd2, a, b)
<1> DEFINE nd1 == LinkNext(nd, a, b)
<1>1. NextSet(nd, nd1, a, b)
  BY LinkNextIs
<1>2. nd2 = LinkPrev(nd1, b, a)
  OBVIOUS
<1> HIDE DEF nd1
<1>3. nd1 \in [Nodes -> InternalNode]
  BY <1>1 DEF NextSet
<1>4. PrevSet(nd1, nd2, b, a)
  BY <1>2, <1>3, LinkPrevIs
<1>5. ASSUME NEW k \in Nodes
      PROVE  /\ nd2[k] = Relinked(nd, k, a, b, b, a)
             /\ nd2[k].in_use = nd[k].in_use /\ nd2[k].item = nd[k].item
  <2> DEFINE next == IF k = a THEN b ELSE nd[k].next
             prev == IF k = b THEN a ELSE nd[k].prev
             u == nd[k].in_use
             x == nd[k].item
  <2>1. nd1[k] = [in_use |-> u, item |-> x, next |-> next, prev |-> nd[k].prev]
    BY <1>1 DEF NextSet
  <2>2. nd1[k].in_use = u /\ nd1[k].item = x /\ nd1[k].next = next /\ nd1[k].prev = nd[k].prev
    <3> DEFINE p0 == nd[k].prev
    <3>1. nd1[k] = [in_use |-> u, item |-> x, next |-> next, prev |-> p0]
      BY <2>1
    <3> HIDE DEF next, u, x, p0
    <3> QED
      BY <3>1 DEF p0
  <2>3. nd2[k] = [in_use |-> nd1[k].in_use, item |-> nd1[k].item, next |-> nd1[k].next,
                  prev |-> IF k = b THEN a ELSE nd1[k].prev]
    BY <1>4 DEF PrevSet
  <2>4. nd2[k] = [in_use |-> u, item |-> x, next |-> next, prev |-> prev]
    BY <2>2, <2>3
  <2>5. nd2[k] = Relinked(nd, k, a, b, b, a)
    BY <2>4 DEF Relinked
  <2>6. nd2[k].in_use = u /\ nd2[k].item = x
    <3> HIDE DEF next, prev, u, x
    <3> QED
      BY <2>4
  <2> QED
    BY <2>5, <2>6
<1> QED
  BY <1>4, <1>5 DEF PrevSet, Bridged


LEMMA ConcatOutcome ==
    ASSUME ListInv, NEW g \in Live, NEW h \in Live, ListConcat(g, h)
    PROVE  /\ Outcome({g, h}, {g}, Chained(g) \o Chained(h), {})
           /\ Contents(g)' = [items |-> Contents(g).items \o Contents(h).items,
                              cur |-> Contents(g).cur]
<1> DEFINE s1 == Chained(g)
           s2 == Chained(h)
           s == s1 \o s2
           l1 == list[g]
           l2 == list[h]
           l3 == Joined(l1, l2)
           a == l1.tail
           b == l2.head
           nd == node
           nd2 == node'
           none == {}
<1>1. /\ g # h /\ node' = LinkPrev(LinkNext(node, a, b), b, a)
      /\ list' = [list EXCEPT ![g] = l3, ![h] = BlankList] /\ crashed' = crashed
  BY DEF ListConcat, Returns
<1>2. /\ g \in Handles /\ l1.in_use /\ IsList(nd, l1, s1)
      /\ Linked(g) = ToSet(s1) /\ Linked(g) \subseteq InUse
  BY LiveList DEF Linked
<1>3. /\ h \in Handles /\ IsList(nd, l2, s2)
      /\ Linked(h) = ToSet(s2) /\ Linked(h) \subseteq InUse
  BY LiveList DEF Linked
<1>4. /\ list \in [Handles -> InternalList] /\ nd \in [Nodes -> InternalNode]
      /\ crashed \in BOOLEAN /\ l1 \in InternalList /\ l2 \in InternalList
  BY <1>2, <1>3 DEF ListInv, TypeOK
<1>5. ToSet(s1) \cap ToSet(s2) = {}
  <2>1. Linked(g) \cap Linked(h) = {}
    BY <1>1 DEF ListInv
  <2> QED
    BY <2>1, <1>2, <1>3
<1>6. a \in Nodes \cup {NULL} /\ b \in Nodes \cup {NULL} /\ l1.head \in Nodes \cup {NULL}
      /\ l2.tail \in Nodes \cup {NULL} /\ l1.cursor \in Nodes \cup {NULL}
      /\ l1.size \in Nat /\ l2.size \in Nat
  BY <1>4 DEF InternalList
<1>7. /\ nd2 \in [Nodes -> InternalNode]
      /\ \A k \in Nodes : nd2[k] = Relinked(nd, k, a, b, b, a)
      /\ \A k \in Nodes : nd2[k].in_use = nd[k].in_use /\ nd2[k].item = nd[k].item
  <2>1. nd2 = LinkPrev(LinkNext(nd, a, b), b, a) /\ nd \in [Nodes -> InternalNode]
    BY <1>1, <1>4
  <2> HIDE DEF nd, nd2, a, b
  <2>2. Bridged(nd, nd2, a, b)
    BY <2>1, <1>6, JoinedByLinks
  <2> QED
    BY <2>2 DEF Bridged
<1> HIDE DEF l3
<1>8. l3 = [in_use |-> l1.in_use,
            head |-> IF l1.head = NULL THEN b ELSE l1.head,
            tail |-> IF l2.tail # NULL THEN l2.tail ELSE l1.tail,
            cursor |-> l1.cursor,
            size |-> l1.size + l2.size]
  <2> HIDE DEF l1, l2
  <2> QED
    BY <1>4, JoinedIs DEF l3
<1>9. /\ l3 \in InternalList /\ l3.in_use
      /\ l3.head = IF l1.head = NULL THEN b ELSE l1.head
      /\ l3.tail = IF l2.tail # NULL THEN l2.tail ELSE l1.tail
      /\ l3.cursor = l1.cursor
      /\ l3.size = l1.size + l2.size
  <2> DEFINE u == l1.in_use
             hd == IF l1.head = NULL THEN b ELSE l1.head
             tl == IF l2.tail # NULL THEN l2.tail ELSE l1.tail
             cu == l1.cursor
             sz == l1.size + l2.size
  <2>1. /\ u \in BOOLEAN /\ hd \in Nodes \cup {NULL} /\ tl \in Nodes \cup {NULL}
        /\ cu \in Nodes \cup {NULL} /\ sz \in Nat /\ u
    BY <1>2, <1>4, <1>6 DEF InternalList
  <2>2. l3 = [in_use |-> u, head |-> hd, tail |-> tl, cursor |-> cu, size |-> sz]
    BY <1>8
  <2> HIDE DEF u, hd, tl, cu, sz
  <2>3. l3 \in InternalList
    BY <2>1, <2>2 DEF InternalList
  <2>4. l3.in_use = u /\ l3.head = hd /\ l3.tail = tl /\ l3.cursor = cu /\ l3.size = sz
    BY <2>2
  <2> QED
    BY <2>1, <2>3, <2>4 DEF u, hd, tl, cu, sz
<1>10. a = Nth(s1, Len(s1)) /\ b = Nth(s2, 1)
  BY <1>2, <1>3 DEF IsList, IsWalk
<1>11. IsList(nd2, l3, s) /\ ToSet(s) = ToSet(s1) \cup ToSet(s2)
  <2>1. Concatenated(l1, l2, l3)
    BY <1>9 DEF Concatenated
  <2>2. Bridged(nd, nd2, a, b)
    BY <1>7 DEF Bridged
  <2>3. IsList(nd, l1, s1) /\ IsList(nd, l2, s2)
    BY <1>2, <1>3
  <2> HIDE DEF nd, nd2, l1, l2, s1, s2, a, b
  <2>4. IsList(nd2, l3, s1 \o s2)
    BY <1>5, <1>10, <2>1, <2>2, <2>3, JoinedWalk
  <2>5. ToSet(s1 \o s2) = ToSet(s1) \cup ToSet(s2)
    BY <2>3, JoinedNodes
  <2> QED
    BY <2>4, <2>5
<1>12. /\ list' \in [Handles -> InternalList] /\ list'[g] = l3 /\ list'[h] = BlankList
       /\ \A k \in Handles \ {g, h} : list'[k] = list[k]
  <2> DEFINE f == [list EXCEPT ![g] = l3]
  <2>1. list' = [f EXCEPT ![h] = BlankList]
    BY <1>1
  <2>2. f \in [Handles -> InternalList] /\ f[g] = l3 /\ \A k \in Handles \ {g} : f[k] = list[k]
    BY <1>2, <1>4, <1>9
  <2>3. BlankList \in InternalList
    BY DEF BlankList, InternalList
  <2> HIDE DEF f
  <2> QED
    BY <1>1, <1>2, <1>3, <2>1, <2>2, <2>3
<1>13. TypeOK'
  BY <1>1, <1>4, <1>7, <1>12 DEF TypeOK
<1>14. NodesOf({g, h}) = ToSet(s) /\ InUse' = InUse /\ ToSet(s) \subseteq InUse
  <2>1. NodesOf({g, h}) = Linked(g) \cup Linked(h)
    BY DEF NodesOf
  <2>2. InUse' = InUse
    BY <1>7 DEF InUse
  <2> HIDE DEF s
  <2> QED
    BY <2>1, <2>2, <1>2, <1>3, <1>11
<1>15. ASSUME NEW k \in Nodes, k \notin Linked(g), k \notin Linked(h)
       PROVE  nd2[k] = nd[k]
  <2>1. k # a
    <3>1. a \in ToSet(s1) \cup {NULL}
      <4> HIDE DEF s1, a, nd, l1
      <4>1. ToSet(s1) = {s1[i] : i \in 1..Len(s1)}
        BY <1>2, ChainOfList
      <4> QED
        BY <4>1, <1>10 DEF Nth
    <3> QED
      BY <3>1, <1>2, <1>15, NullIsNothing
  <2>2. k # b
    <3>1. b \in ToSet(s2) \cup {NULL}
      <4> HIDE DEF s2, b, nd, l2
      <4>1. ToSet(s2) = {s2[i] : i \in 1..Len(s2)}
        BY <1>3, ChainOfList
      <4> QED
        BY <4>1, <1>10 DEF Nth
    <3> QED
      BY <3>1, <1>3, <1>15, NullIsNothing
  <2> HIDE DEF nd, nd2, a, b
  <2>3. Relinked(nd, k, a, b, b, a) = nd[k]
    BY <1>4, <2>1, <2>2, RelinkedElsewhere
  <2> QED
    BY <2>3, <1>7
<1>16. Keeps({g, h})
  <2>1. ASSUME NEW j \in Handles \ {g, h}, j \in Live, NEW k \in Linked(j)
        PROVE  node'[k] = node[k]
    <3>1. k \notin Linked(g) /\ k \notin Linked(h)
      BY <2>1 DEF ListInv
    <3>2. k \in Nodes
      BY <2>1, LiveList DEF InUse
    <3> QED
      BY <1>15, <3>1, <3>2
  <2> QED
    BY <2>1, <1>12 DEF Keeps
<1>17. Outcome({g, h}, {g}, s, none)
  <2>1. /\ ToSet(s) \subseteq NodesOf({g, h}) \cup Fresh
        /\ none \subseteq (NodesOf({g, h}) \cup Fresh) \ ToSet(s)
        /\ InUse' = (InUse \ NodesOf({g, h})) \cup ToSet(s) \cup none
    BY <1>14
  <2>2. \A j \in {g, h} : list'[j].in_use <=> j \in {g}
    BY <1>1, <1>9, <1>12 DEF BlankList
  <2>3. \A j \in {g} : IsList(node', list'[j], s)
    BY <1>11, <1>12
  <2>4. {g} \subseteq {g, h} /\ {g, h} \subseteq Handles /\ (\A i, j \in {g} : i = j) /\ {g} # {}
    BY <1>2, <1>3
  <2> HIDE DEF s, none
  <2> QED
    BY <1>13, <1>16, <2>1, <2>2, <2>3, <2>4 DEF Outcome
<1>18. Chained(g)' = s
  <2> DEFINE H == {g, h}
  <2>1. Outcome(H, {g}, s, none)
    BY <1>17
  <2> HIDE DEF H, s, none
  <2> QED
    BY <2>1, NewList
<1>19. /\ Stored(nd2, s) = Stored(nd, s1) \o Stored(nd, s2)
       /\ Position(s, l1.cursor) = Position(s1, l1.cursor)
  <2> DEFINE c == l1.cursor
  <2>1. /\ s1 \in Seq(Nodes) /\ s2 \in Seq(Nodes) /\ c \in ToSet(s1) \cup {NULL}
        /\ \A i, j \in 1..Len(s) : s[i] = s[j] => i = j
        /\ nd \in [Nodes -> InternalNode] /\ nd2 \in [Nodes -> InternalNode]
        /\ \A k \in Nodes : nd2[k].item = nd[k].item
    BY <1>2, <1>3, <1>4, <1>7, <1>11 DEF IsList, IsWalk
  <2> HIDE DEF c, s1, s2, nd, nd2
  <2>2. Stored(nd2, s) = Stored(nd, s1) \o Stored(nd, s2)
    BY <2>1, JoinedItems
  <2>3. Position(s, c) = Position(s1, c)
    BY <2>1, JoinedItems
  <2> QED
    BY <2>2, <2>3 DEF c
<1>20. Contents(g)' = [items |-> Stored(nd2, s), cur |-> Position(s, l1.cursor)]
  BY <1>9, <1>12, <1>18 DEF Contents
<1>21. /\ Contents(g).items = Stored(nd, s1) /\ Contents(g).cur = Position(s1, l1.cursor)
       /\ Contents(h).items = Stored(nd, s2)
  BY DEF Contents
<1> DEFINE i2 == Stored(nd2, s)
           c2 == Position(s, l1.cursor)
           i1 == Contents(g).items \o Contents(h).items
           c1 == Contents(g).cur
<1>22. i2 = i1 /\ c2 = c1 /\ Contents(g)' = [items |-> i2, cur |-> c2]
  BY <1>19, <1>20, <1>21
<1> HIDE DEF i1, i2, c1, c2
<1>23. Contents(g)' = [items |-> i1, cur |-> c1]
  BY <1>22
<1> QED
  BY <1>17, <1>23 DEF i1, c1


LEMMA ConcatImplements ==
    ASSUME ListInv, NEW g \in Live, NEW h \in Live, ListConcat(g, h)
    PROVE  Abstract!ListConcat(g, h) /\ ListInv' /\ LossIsKnown
<1> DEFINE s == Chained(g) \o Chained(h)
           H == {g, h}
           K == {g}
           none == {}
           i1 == Contents(g).items
           i2 == Contents(h).items
           c1 == Contents(g).cur
           before == [k \in Live |-> Contents(k)]
           after == [k \in Live' |-> Contents(k)']
<1>1. g # h /\ call' = "ListConcat" /\ value' = NULL /\ crashed' = crashed
  BY DEF ListConcat, Returns
<1>2. /\ Outcome(H, K, s, none)
      /\ Contents(g)' = [items |-> i1 \o i2, cur |-> c1]
  BY ConcatOutcome
<1>3. Live' = Live \ {h} /\ ListInv' /\ Lost' = Lost
  <2> HIDE DEF s, none, H, K
  <2>1. Live' = (Live \ H) \cup K
    BY <1>2, LiveAfter
  <2>2. ListInv' /\ Lost' = Lost \cup none
    BY <1>2, OutcomeKeepsInv, LostAfter
  <2> QED
    BY <1>1, <2>1, <2>2 DEF H, K, none
<1>4. \A k \in Live \ H : Contents(k)' = Contents(k)
  <2> HIDE DEF s, none, H, K
  <2>1. Keeps(H)
    BY <1>2 DEF Outcome
  <2> QED
    BY <2>1, OthersStay
<1>5. [before[g] EXCEPT !.items = @ \o before[h].items] = [items |-> i1 \o i2, cur |-> c1]
  <2>1. /\ before[g] = [items |-> i1, cur |-> c1]
        /\ before[h].items = i2
    BY DEF Contents
  <2> DEFINE l == before[g]
             j == before[g].items \o before[h].items
  <2>3. [before[g] EXCEPT !.items = @ \o before[h].items] = [l EXCEPT !.items = j]
    OBVIOUS
  <2> HIDE DEF before, i1, i2, c1
  <2>2. l = [items |-> i1, cur |-> c1] /\ j = i1 \o i2
    BY <2>1
  <2>5. l = [items |-> i1, cur |-> c1]
    BY <2>2
  <2> HIDE DEF l, j
  <2>4. [l EXCEPT !.items = j] = [items |-> j, cur |-> c1]
    BY <2>5
  <2> QED
    BY <2>2, <2>3, <2>4
<1>6. after = [k \in Live \ {h} |->
                  IF k = g THEN [before[g] EXCEPT !.items = @ \o before[h].items]
                  ELSE before[k]]
  <2> DEFINE l == [items |-> i1 \o i2, cur |-> c1]
             l2 == [before[g] EXCEPT !.items = @ \o before[h].items]
  <2>1. l2 = l /\ Contents(g)' = l
    BY <1>2, <1>5
  <2>2. \A k \in Live \ {g, h} : Contents(k)' = before[k]
    BY <1>4
  <2> HIDE DEF l, l2, before
  <2>3. \A k \in Live \ {h} : Contents(k)' = IF k = g THEN l2 ELSE before[k]
    BY <2>1, <2>2
  <2> QED
    BY <1>3, <2>3 DEF l2
<1>7. Abstract!ListConcat(g, h)
  BY <1>1, <1>6, Zenon
     DEF Abstract!ListConcat, Abstract!Returns, Abstract!Live
<1> QED
  BY <1>3, <1>7, NoLoss


\* All nodes of a list but the one before its last are destroyed with it.
Forgotten(s) == IF Len(s) >= 2 THEN {s[Len(s) - 1]} ELSE {}

LEMMA DestroyedIs ==
    ASSUME NEW l, NEW s, IsList(node, l, s)
    PROVE  Destroyed(s) = ToSet(s) \ Forgotten(s)
<1> DEFINE m == Len(s)
           D == Destroyed(s)
<1>1. /\ m \in Nat /\ ToSet(s) = {s[i] : i \in 1..m}
      /\ \A i, j \in 1..m : s[i] = s[j] => i = j
  BY ChainOfList
<1>2. \A i \in 2..m : node[s[i]].prev = s[i - 1]
  <2> SUFFICES ASSUME NEW i \in 2..m PROVE node[s[i]].prev = s[i - 1]
    OBVIOUS
  <2>1. i \in 1..m /\ i - 1 \in 1..m
    BY <1>1
  <2>2. node[s[i]].prev = Nth(s, i - 1)
    BY <2>1 DEF IsList
  <2> QED
    BY <2>1, <2>2 DEF Nth
<1>3. D = {node[s[i]].prev : i \in 2..(m - 1)} \cup {s[i] : i \in {m} \ {0}}
  BY DEF Destroyed
<1>4. Forgotten(s) = IF m >= 2 THEN {s[m - 1]} ELSE {}
  BY DEF Forgotten
<1> HIDE DEF m, D
<1>5. ASSUME NEW n \in D
      PROVE  n \in ToSet(s) \ Forgotten(s)
  <2>1. CASE n \in {node[s[i]].prev : i \in 2..(m - 1)}
    <3>1. PICK i \in 2..(m - 1) : n = node[s[i]].prev
      BY <2>1
    <3>2. i \in 2..m /\ i - 1 \in 1..m /\ i - 1 # m - 1 /\ m >= 2 /\ m - 1 \in 1..m
      BY <1>1
    <3>3. n = s[i - 1]
      BY <1>2, <3>1, <3>2
    <3> DEFINE j == i - 1
               k == m - 1
    <3> HIDE DEF j, k
    <3>4. n = s[j] /\ j \in 1..m /\ k \in 1..m /\ j # k
      BY <3>2, <3>3 DEF j, k
    <3>5. Forgotten(s) = {s[k]}
      BY <3>2, <1>4 DEF k
    <3> QED
      BY <3>4, <3>5, <1>1
  <2>2. CASE n \in {s[i] : i \in {m} \ {0}}
    <3>1. n = s[m] /\ m # 0
      BY <2>2
    <3>2. m \in 1..m
      BY <1>1, <3>1
    <3>3. CASE m >= 2
      <4> DEFINE k == m - 1
      <4>1. k \in 1..m /\ k # m /\ Forgotten(s) = {s[k]}
        BY <1>1, <1>4, <3>3
      <4> HIDE DEF k
      <4> QED
        BY <3>1, <3>2, <4>1, <1>1
    <3>4. CASE ~ (m >= 2)
      BY <3>1, <3>2, <3>4, <1>1, <1>4
    <3> QED
      BY <3>3, <3>4
  <2> QED
    BY <1>3, <2>1, <2>2
<1>6. ASSUME NEW n \in ToSet(s) \ Forgotten(s)
      PROVE  n \in D
  <2>1. PICK i \in 1..m : n = s[i]
    BY <1>1
  <2>2. CASE i = m
    <3>1. i \in {m} \ {0}
      BY <2>2, <1>1
    <3> QED
      BY <1>3, <2>1, <3>1
  <2>3. CASE i # m
    <3> DEFINE k == i + 1
    <3>1. i # m - 1
      <4> SUFFICES ASSUME i = m - 1 PROVE FALSE
        OBVIOUS
      <4>1. m >= 2
        BY <1>1
      <4>2. n = s[m - 1]
        BY <2>1
      <4> QED
        BY <4>1, <4>2, <1>4, <1>6
    <3>2. k \in 2..(m - 1) /\ k \in 2..m /\ k - 1 = i
      BY <1>1, <2>3, <3>1
    <3> HIDE DEF k
    <3>3. node[s[k]].prev = n
      BY <1>2, <2>1, <3>2
    <3> QED
      BY <1>3, <3>2, <3>3
  <2> QED
    BY <2>2, <2>3
<1> QED
  BY <1>5, <1>6 DEF D

\* What ListFree writes.
LEMMA FreeWrites ==
    ASSUME ListInv, NEW h \in Live, ListFree(h)
    PROVE  /\ h \in Handles /\ call' = "ListFree" /\ crashed' = crashed
           /\ TypeOK' /\ value' = Contents(h).items
           /\ Len(value') = Len(Chained(h))
           /\ ~ list'[h].in_use
           /\ \A g \in Handles \ {h} : list'[g] = list[g]
           /\ \A n \in Nodes :
                node'[n] = IF n \in (IF Live = {h} THEN Nodes ELSE Destroyed(Chained(h)))
                           THEN BlankNode ELSE node[n]
<1> DEFINE s == Chained(h)
           gone == IF Live = {h} THEN Nodes ELSE Destroyed(s)
<1>1. /\ call' = "ListFree" /\ crashed' = crashed /\ value' = Stored(node, s)
      /\ node' = [n \in Nodes |-> IF n \in gone THEN BlankNode ELSE node[n]]
      /\ list' = [list EXCEPT ![h] = BlankList]
  BY DEF ListFree, Writes, Returns
<1>2. /\ h \in Handles /\ list \in [Handles -> InternalList]
      /\ node \in [Nodes -> InternalNode] /\ crashed \in BOOLEAN
  BY LiveList DEF ListInv, TypeOK
<1>3. BlankList \in InternalList /\ BlankNode \in InternalNode /\ ~ BlankList.in_use
  BY DEF BlankList, BlankNode, InternalList, InternalNode
<1> HIDE DEF gone
<1>4. /\ list' \in [Handles -> InternalList] /\ list'[h] = BlankList
      /\ \A g \in Handles \ {h} : list'[g] = list[g]
  BY <1>1, <1>2, <1>3
<1>5. /\ node' \in [Nodes -> InternalNode]
      /\ \A n \in Nodes : node'[n] = IF n \in gone THEN BlankNode ELSE node[n]
  BY <1>1, <1>2, <1>3
<1>6. TypeOK'
  BY <1>1, <1>2, <1>4, <1>5 DEF TypeOK
<1>7. value' = Contents(h).items
  BY <1>1 DEF Contents
<1>8. Len(value') = Len(s)
  <2>1. Len(Contents(h).items) = Len(Chained(h))
    BY ContentsIs
  <2> QED
    BY <1>7, <2>1
<1> QED
  BY <1>1, <1>2, <1>3, <1>4, <1>5, <1>6, <1>7, <1>8 DEF gone


\* A list other than the last one is freed.
LEMMA FreeOutcome ==
    ASSUME ListInv, NEW h \in Live, ListFree(h), Live # {h}
    PROVE  Outcome({h}, {}, <<>>, Forgotten(Chained(h)))
<1> DEFINE s == Chained(h)
           lost == Forgotten(s)
           gone == Destroyed(s)
<1>1. /\ h \in Handles /\ TypeOK' /\ ~ list'[h].in_use
      /\ \A g \in Handles \ {h} : list'[g] = list[g]
      /\ \A n \in Nodes : node'[n] = IF n \in gone THEN BlankNode ELSE node[n]
  BY FreeWrites
<1>2. IsList(node, list[h], s) /\ Linked(h) = ToSet(s) /\ Linked(h) \subseteq InUse
  BY LiveList DEF Linked
<1>3. gone = Linked(h) \ lost /\ lost \subseteq Linked(h)
  <2> DEFINE l == list[h]
  <2>1. IsList(node, l, s)
    BY <1>2
  <2> HIDE DEF l, s
  <2>2. Destroyed(s) = ToSet(s) \ Forgotten(s)
    BY <2>1, DestroyedIs
  <2>3. Forgotten(s) \subseteq ToSet(s)
    <3>1. Len(s) \in Nat /\ ToSet(s) = {s[i] : i \in 1..Len(s)}
      BY <2>1, ChainOfList
    <3>2. CASE Len(s) >= 2
      <4>1. Len(s) - 1 \in 1..Len(s)
        BY <3>1, <3>2
      <4> QED
        BY <3>1, <3>2, <4>1 DEF Forgotten
    <3>3. CASE ~ (Len(s) >= 2)
      BY <3>3 DEF Forgotten
    <3> QED
      BY <3>2, <3>3
  <2> QED
    BY <1>2, <2>2, <2>3
<1>4. NodesOf({h}) = Linked(h)
  BY DEF NodesOf
<1> HIDE DEF s, lost, gone
<1>5. InUse' = (InUse \ Linked(h)) \cup lost
  <2>1. \A n \in Nodes : node'[n].in_use <=> (n \notin gone /\ node[n].in_use)
    <3> SUFFICES ASSUME NEW n \in Nodes
                 PROVE  node'[n].in_use <=> (n \notin gone /\ node[n].in_use)
      OBVIOUS
    <3>1. ~ BlankNode.in_use
      BY DEF BlankNode
    <3>2. node[n].in_use \in BOOLEAN
      BY DEF ListInv, TypeOK, InternalNode
    <3> QED
      BY <1>1, <3>1, <3>2
  <2> QED
    BY <2>1, <1>2, <1>3 DEF InUse
<1>6. Keeps({h})
  <2>1. ASSUME NEW g \in Handles \ {h}, g \in Live, NEW m \in Linked(g)
        PROVE  node'[m] = node[m]
    <3>1. m \notin Linked(h)
      BY <2>1 DEF ListInv
    <3>2. m \in Nodes
      BY <2>1, LiveList DEF InUse
    <3> QED
      BY <1>1, <1>3, <3>1, <3>2
  <2> QED
    BY <1>1, <2>1 DEF Keeps
<1>7. ToSet(<<>>) = {}
  BY DEF ToSet
<1>8. /\ ToSet(<<>>) \subseteq NodesOf({h}) \cup Fresh
      /\ lost \subseteq (NodesOf({h}) \cup Fresh) \ ToSet(<<>>)
      /\ InUse' = (InUse \ NodesOf({h})) \cup ToSet(<<>>) \cup lost
  BY <1>3, <1>4, <1>5, <1>7
<1> DEFINE e == <<>>
<1> HIDE DEF e
<1>9. /\ ToSet(e) \subseteq NodesOf({h}) \cup Fresh
      /\ lost \subseteq (NodesOf({h}) \cup Fresh) \ ToSet(e)
      /\ InUse' = (InUse \ NodesOf({h})) \cup ToSet(e) \cup lost
  BY <1>8 DEF e
<1>10. Outcome({h}, {}, e, lost)
  <2>1. e = <<>>
    BY DEF e
  <2> QED
    BY <1>1, <1>6, <1>9, <2>1 DEF Outcome
<1> QED
  BY <1>10 DEF e, lost, s

\* With the last list all memory goes.
LEMMA LastListFreed ==
    ASSUME ListInv, NEW h \in Live, ListFree(h), Live = {h}
    PROVE  Live' = {} /\ InUse' = {} /\ ListInv' /\ LossIsKnown
<1>1. /\ h \in Handles /\ TypeOK' /\ ~ list'[h].in_use
      /\ \A g \in Handles \ {h} : list'[g] = list[g]
      /\ \A n \in Nodes : node'[n] = BlankNode
  BY FreeWrites
<1>2. Live' = {}
  BY <1>1 DEF Live
<1>3. InUse' = {}
  BY <1>1 DEF InUse, BlankNode
<1>4. ListInv'
  BY <1>1, <1>2 DEF ListInv
<1>5. Lost' = {}
  BY <1>3 DEF Lost
<1> QED
  BY <1>2, <1>3, <1>4, <1>5 DEF LossIsKnown

LEMMA FreeImplements ==
    ASSUME ListInv, NEW h \in Live, ListFree(h)
    PROVE  Abstract!ListFree(h) /\ ListInv' /\ LossIsKnown
<1> DEFINE s == Chained(h)
           lost == Forgotten(s)
           H == {h}
           K == {}
           e == <<>>
           before == [g \in Live |-> Contents(g)]
           after == [g \in Live' |-> Contents(g)']
<1>1. /\ call' = "ListFree" /\ crashed' = crashed
      /\ value' = Contents(h).items /\ Len(value') = Len(s)
  BY FreeWrites
<1>2. Live' = Live \ {h} /\ ListInv' /\ LossIsKnown /\ \A g \in Live \ {h} : Contents(g)' = Contents(g)
  <2>1. CASE Live = {h}
    BY <2>1, LastListFreed
  <2>2. CASE Live # {h}
    <3>1. Outcome(H, K, e, lost)
      BY <2>2, FreeOutcome
    <3> HIDE DEF H, K, e, lost
    <3>2. Live' = (Live \ H) \cup K
      BY <3>1, LiveAfter
    <3>3. ListInv' /\ Lost' = Lost \cup lost
      BY <3>1, OutcomeKeepsInv, LostAfter
    <3>4. \A g \in Live \ H : Contents(g)' = Contents(g)
      BY <3>1, OthersStay DEF Outcome
    <3>5. ASSUME NEW n \in Lost' \ Lost
          PROVE  Lost' \ Lost = {n} /\ Len(value') >= 2
      <4>1. n \in lost
        BY <3>3, <3>5
      <4>2. Len(s) >= 2 /\ lost = {n}
        BY <4>1 DEF lost, Forgotten
      <4> QED
        BY <1>1, <3>3, <3>5, <4>2
    <3>6. LossIsKnown
      BY <1>1, <3>3, <3>5 DEF LossIsKnown
    <3> QED
      BY <3>2, <3>3, <3>4, <3>6 DEF H, K
  <2> QED
    BY <2>1, <2>2
<1>3. before[h].items = Contents(h).items
  OBVIOUS
<1>4. after = [g \in Live \ {h} |-> before[g]]
  BY <1>2
<1>5. Abstract!ListFree(h)
  BY <1>1, <1>3, <1>4, Zenon
     DEF Abstract!ListFree, Abstract!Returns, Abstract!Live
<1> QED
  BY <1>2, <1>5



-----------------------------------------------------------------------------
(* The theorems.                                                           *)

LEMMA InitImplements ==
    ASSUME Init
    PROVE  ListInv /\ Abstract!Init
<1>1. TypeOK
  BY DEF Init, TypeOK, BlankNode, BlankList, InternalNode, InternalList
<1>2. Live = {}
  BY DEF Init, Live, BlankList
<1>3. ListInv
  BY <1>1, <1>2 DEF ListInv
<1>4. [h \in Live |-> Contents(h)] = [h \in {} |-> Abstract!Empty]
  BY <1>2
<1> QED
  BY <1>3, <1>4 DEF Init, Abstract!Init

\* Every call does what ListSpec says, and keeps the invariant.
LEMMA StepImplements ==
    ASSUME ListInv, Next
    PROVE  Abstract!Next /\ ListInv' /\ LossIsKnown
<1>1. ~ crashed /\ Abstract!Live = Live
  BY DEF Next, Abstract!Live
<1>2. CASE \E h \in Handles : ListCreate(h)
  <2>1. PICK h \in Handles : ListCreate(h)
    BY <1>2
  <2>2. Abstract!ListCreate(h) /\ ListInv' /\ LossIsKnown
    BY <2>1, CreateImplements
  <2> QED
    BY <1>1, <2>2 DEF Abstract!Next
<1>3. ASSUME NEW h \in Live, NEW x \in Items, ListAdd(h, x)
      PROVE  Abstract!Next /\ ListInv' /\ LossIsKnown
  <2>1. Abstract!ListAdd(h, x) /\ ListInv' /\ LossIsKnown
    BY <1>3, AddImplements
  <2> QED
    BY <1>1, <2>1 DEF Abstract!Next
<1>4. ASSUME NEW h \in Live, NEW x \in Items, ListInsert(h, x)
      PROVE  Abstract!Next /\ ListInv' /\ LossIsKnown
  <2>1. Abstract!ListInsert(h, x) /\ ListInv' /\ LossIsKnown
    BY <1>4, InsertImplements
  <2> QED
    BY <1>1, <2>1 DEF Abstract!Next
<1>5. ASSUME NEW h \in Live, NEW x \in Items, ListAppend(h, x)
      PROVE  Abstract!Next /\ ListInv' /\ LossIsKnown
  <2>1. Abstract!ListAppend(h, x) /\ ListInv' /\ LossIsKnown
    BY <1>5, AppendImplements
  <2> QED
    BY <1>1, <2>1 DEF Abstract!Next
<1>6. ASSUME NEW h \in Live, NEW x \in Items, ListPrepend(h, x)
      PROVE  Abstract!Next /\ ListInv' /\ LossIsKnown
  <2>1. Abstract!ListPrepend(h, x) /\ ListInv' /\ LossIsKnown
    BY <1>6, PrependImplements
  <2> QED
    BY <1>1, <2>1 DEF Abstract!Next
<1>7. ASSUME NEW h \in Live, NEW x \in Items, ListSearch(h, x)
      PROVE  Abstract!Next /\ ListInv' /\ LossIsKnown
  <2>1. Abstract!ListSearch(h, x) /\ ListInv' /\ LossIsKnown
    BY <1>7, SearchImplements
  <2> QED
    BY <1>1, <2>1 DEF Abstract!Next
<1>8. ASSUME NEW h \in Live, NEW g \in Live, ListConcat(h, g)
      PROVE  Abstract!Next /\ ListInv' /\ LossIsKnown
  <2>1. Abstract!ListConcat(h, g) /\ ListInv' /\ LossIsKnown
    BY <1>8, ConcatImplements
  <2> QED
    BY <1>1, <2>1 DEF Abstract!Next
<1>9. ASSUME NEW h \in Live, ListFirst(h) \/ ListLast(h)
      PROVE  Abstract!Next /\ ListInv' /\ LossIsKnown
  <2>1. (Abstract!ListFirst(h) \/ Abstract!ListLast(h)) /\ ListInv' /\ LossIsKnown
    BY <1>9, FirstImplements, LastImplements
  <2> QED
    BY <1>1, <2>1 DEF Abstract!Next
<1>10. ASSUME NEW h \in Live, ListNext(h) \/ ListPrev(h)
       PROVE  Abstract!Next /\ ListInv' /\ LossIsKnown
  <2>1. /\ Abstract!ListNext(h) \/ Abstract!ListPrev(h) \/ Abstract!Crash(h)
        /\ ListInv' /\ LossIsKnown
    BY <1>10, NextImplements, PrevImplements
  <2> QED
    BY <1>1, <2>1 DEF Abstract!Next
<1>11. ASSUME NEW h \in Live, ListCurr(h) \/ ListCount(h)
       PROVE  Abstract!Next /\ ListInv' /\ LossIsKnown
  <2>1. (Abstract!ListCurr(h) \/ Abstract!ListCount(h)) /\ ListInv' /\ LossIsKnown
    BY <1>11, CurrImplements, CountImplements
  <2> QED
    BY <1>1, <2>1 DEF Abstract!Next
<1>12. ASSUME NEW h \in Live, ListRemove(h) \/ ListTrim(h)
       PROVE  Abstract!Next /\ ListInv' /\ LossIsKnown
  <2>1. (Abstract!ListRemove(h) \/ Abstract!ListTrim(h)) /\ ListInv' /\ LossIsKnown
    BY <1>12, RemoveImplements, TrimImplements
  <2> QED
    BY <1>1, <2>1 DEF Abstract!Next
<1>13. ASSUME NEW h \in Live, ListFree(h)
       PROVE  Abstract!Next /\ ListInv' /\ LossIsKnown
  <2>1. Abstract!ListFree(h) /\ ListInv' /\ LossIsKnown
    BY <1>13, FreeImplements
  <2> QED
    BY <1>1, <2>1 DEF Abstract!Next
<1> QED
  BY <1>2, <1>3, <1>4, <1>5, <1>6, <1>7, <1>8, <1>9, <1>10, <1>11, <1>12, <1>13 DEF Next

LEMMA StutterImplements ==
    ASSUME ListInv, UNCHANGED vars
    PROVE  /\ UNCHANGED <<[h \in Live |-> Contents(h)], call, value, crashed>>
           /\ ListInv' /\ LossIsKnown
<1>1. node' = node /\ list' = list /\ call' = call /\ value' = value /\ crashed' = crashed
  BY DEF vars
<1>2. crashed' \in BOOLEAN
  BY <1>1 DEF ListInv, TypeOK
<1>3. /\ ListInv' /\ Live' = Live /\ Lost' = Lost
      /\ \A g : Contents(g)' = Contents(g)
  BY <1>1, <1>2, NothingChanges
<1>4. [h \in Live' |-> Contents(h)'] = [h \in Live |-> Contents(h)]
  BY <1>3
<1> QED
  BY <1>1, <1>3, <1>4, NoLoss


\* The structure every call relies on holds whenever a call begins: each list
\* is a walk along the next links from its head to null, without repetitions
\* and with the links back, and two lists share no node.
THEOREM Invariance == Spec => []ListInv
<1>1. Init => ListInv
  BY InitImplements
<1>2. ListInv /\ [Next]_vars => ListInv'
  BY StepImplements, StutterImplements
<1> QED
  BY <1>1, <1>2, PTL DEF Spec

\* Variables stay within their types.
THEOREM TypeCorrect == Spec => []TypeOK
<1>1. ListInv => TypeOK
  BY DEF ListInv
<1> QED
  BY <1>1, Invariance, PTL

\* A list of the invariant reads the same in both directions.
LEMMA ListIsWellLinked ==
    ASSUME ListInv, NEW h \in Live
    PROVE  EndsAtTail(h) /\ LinkedBack(h) /\ list[h].cursor \in Linked(h) \cup {NULL}
<1> DEFINE c == Chained(h)
           l == list[h]
<1>1. IsList(node, l, c) /\ Linked(h) = ToSet(c) /\ Linked(h) \subseteq InUse
  BY LiveList DEF Linked
<1> HIDE DEF c, l
<1>2. c \in Seq(Nodes) /\ Len(c) \in Nat
  BY <1>1, ChainOfList
<1>3. l.tail = IF c = <<>> THEN NULL ELSE Last(c)
  <2>1. l.tail = Nth(c, Len(c))
    BY <1>1 DEF IsList
  <2>2. CASE c = <<>>
    BY <2>1, <2>2 DEF Nth
  <2>3. CASE c # <<>>
    <3>1. Len(c) \in 1..Len(c)
      BY <1>2, <2>3
    <3> QED
      BY <2>1, <2>3, <3>1 DEF Nth, Last
  <2> QED
    BY <2>2, <2>3
<1>4. EndsAtTail(h)
  BY <1>1, <1>3 DEF EndsAtTail, IsList, c, l
<1>5. \A i \in 1..Len(c) : node[c[i]].prev = IF i = 1 THEN NULL ELSE c[i - 1]
  <2> SUFFICES ASSUME NEW i \in 1..Len(c)
               PROVE  node[c[i]].prev = IF i = 1 THEN NULL ELSE c[i - 1]
    OBVIOUS
  <2>1. node[c[i]].prev = Nth(c, i - 1)
    BY <1>1 DEF IsList
  <2> QED
    BY <2>1, <1>2 DEF Nth
<1>6. LinkedBack(h)
  BY <1>5 DEF LinkedBack, c
<1> QED
  BY <1>1, <1>4, <1>6 DEF IsList, l

\* Any order of calls keeps every list readable in both directions, its size,
\* its ends and its cursor right, and no node on two lists.
THEOREM AlwaysWellLinked == Spec => []WellLinked
<1>1. ListInv => WellLinked
  BY ListIsWellLinked DEF ListInv, WellLinked
<1> QED
  BY <1>1, Invariance, PTL

\* A node is lost only by ListFree of a list of two or more, or by ListAdd or
\* ListInsert with no current item, one at a time, and stays lost until the
\* last list is freed.
THEOREM OnlyKnownLosses == Spec => LossesAreKnown
<1>1. ListInv /\ [Next]_vars => LossIsKnown
  BY StepImplements, StutterImplements
<1>2. ListInv /\ [Next]_vars => [LossIsKnown]_vars
  BY <1>1
<1> QED
  BY <1>2, Invariance, PTL DEF Spec, LossesAreKnown

\* The linked nodes implement sequences with a current position: each call
\* returns what ListSpec says and changes only the list it is given.
THEOREM ImplementsSequences == Spec => ImplementsListSpec
<1>1. Init => Abstract!Init
  BY InitImplements
<1>2. ListInv /\ [Next]_vars => [Abstract!Next]_(Abstract!vars)
  BY StepImplements, StutterImplements DEF Abstract!vars
<1> QED
  BY <1>1, <1>2, Invariance, PTL DEF Spec, ImplementsListSpec, Abstract!Spec
=============================================================================
