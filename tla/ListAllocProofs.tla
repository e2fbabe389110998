-------------------------- MODULE ListAllocProofs --------------------------
(***************************************************************************)
(* Proofs about module ListAlloc: whatever the smallest sizes of the       *)
(* arenas and the number of structs, and wherever memory is refused.       *)
(***************************************************************************)
EXTENDS ListAlloc, FiniteSetTheorems, SequenceTheorems, TLAPS

-----------------------------------------------------------------------------
(* The sizes an arena can have: those reached from m by doubling.           *)

Doublings(m) ==
    {x \in Nat : \A S \in SUBSET Nat : m \in S /\ (\A y \in S : 2 * y \in S) => x \in S}

LEMMA DoublingsInduct ==
    ASSUME NEW m, NEW x \in Doublings(m), NEW S \in SUBSET Nat,
           m \in S, \A y \in S : 2 * y \in S
    PROVE  x \in S
  BY DEF Doublings

LEMMA DoublingsStart ==
    ASSUME NEW m \in Nat
    PROVE  m \in Doublings(m)
  BY DEF Doublings

LEMMA DoublingsNext ==
    ASSUME NEW m \in Nat, NEW x \in Doublings(m)
    PROVE  2 * x \in Doublings(m)
<1>1. x \in Nat /\ 2 * x \in Nat
  BY DEF Doublings
<1>2. ASSUME NEW S \in SUBSET Nat, m \in S, \A y \in S : 2 * y \in S
      PROVE  2 * x \in S
  BY <1>2, DoublingsInduct
<1> QED
  BY <1>1, <1>2 DEF Doublings

LEMMA DoublingsBound ==
    ASSUME NEW m \in Nat, NEW x \in Doublings(m)
    PROVE  x \in Nat /\ m <= x
<1> DEFINE S == {y \in Nat : m <= y}
<1>1. m \in S /\ \A y \in S : 2 * y \in S
  OBVIOUS
<1> HIDE DEF S
<1>2. S \in SUBSET Nat
  BY DEF S
<1>3. x \in S
  BY <1>1, <1>2, DoublingsInduct
<1> QED
  BY <1>3 DEF S

\* What is larger than m is the double of a size.
LEMMA DoublingsHalf ==
    ASSUME NEW m \in Nat, NEW x \in Doublings(m), x # m
    PROVE  \E y \in Doublings(m) : x = 2 * y
<1> DEFINE S == {m} \cup {2 * y : y \in Doublings(m)}
<1>1. m \in S
  OBVIOUS
<1>2. Doublings(m) \subseteq Nat
  BY DEF Doublings
<1>3. S \in SUBSET Nat
  BY <1>2
<1>4. ASSUME NEW y \in S PROVE 2 * y \in S
  <2>1. y \in Doublings(m)
    BY DoublingsStart, DoublingsNext
  <2> QED
    BY <2>1
<1> HIDE DEF S
<1>5. x \in S
  BY <1>1, <1>3, <1>4, DoublingsInduct
<1> QED
  BY <1>5 DEF S

\* A table that is larger than its arena has room for twice the arena.
LEMMA DoublingsAfter ==
    ASSUME NEW m \in Nat, NEW x \in Doublings(m), x # m
    PROVE  x \in Doublings(2 * m)
<1> DEFINE n == 2 * m
           S == {m} \cup Doublings(n)
<1>1. n \in Nat
  OBVIOUS
<1>2. Doublings(n) \subseteq Nat
  BY DEF Doublings
<1>3. n \in Doublings(n)
  BY <1>1, DoublingsStart
<1>4. ASSUME NEW y \in Doublings(n) PROVE 2 * y \in Doublings(n)
  BY <1>1, DoublingsNext
<1>5. m \in S /\ S \in SUBSET Nat
  BY <1>2
<1>6. \A y \in S : 2 * y \in S
  BY <1>3, <1>4
<1> HIDE DEF S
<1>7. x \in S
  BY <1>5, <1>6, DoublingsInduct
<1> QED
  BY <1>7 DEF S

LEMMA DoublingsBefore ==
    ASSUME NEW m \in Nat, NEW x \in Doublings(2 * m)
    PROVE  x \in Doublings(m)
<1> DEFINE n == 2 * m
           S == Doublings(m)
<1>1. S \in SUBSET Nat
  BY DEF Doublings
<1>2. n \in S /\ \A y \in S : 2 * y \in S
  BY DoublingsStart, DoublingsNext
<1>3. n \in Nat /\ x \in Doublings(n)
  OBVIOUS
<1> HIDE DEF n, S
<1>4. x \in S
  BY <1>1, <1>2, <1>3, DoublingsInduct
<1> QED
  BY <1>4 DEF S

-----------------------------------------------------------------------------
(* What holds between the parts of an arena.                                *)

Zero(slot) == {s \in DOMAIN slot : slot[s] = 0}

\* Sequence f begins with the elements of S, each of them once; if anything
\* follows, a pointer to released memory comes first.
Begins(f, S) ==
    \E z \in 0..Len(f) :
        /\ {f[k] : k \in 1..z} = S
        /\ \A k, m \in 1..z : f[k] = f[m] => k = m
        /\ z < Len(f) => f[z + 1] = Stale

\* Indices in use and slots in use lead to each other.
Located(held, table, slot) ==
    /\ held \subseteq DOMAIN table
    /\ \A i \in held : table[i] \in DOMAIN slot /\ slot[table[i]] = i
    /\ \A s \in DOMAIN slot : slot[s] \notin {0, Stale} => slot[s] \in held /\ table[slot[s]] = s

\* Sequence f holds the indices up to size that nobody holds, each of them once.
Lists(f, size, held) ==
    /\ {f[k] : k \in DOMAIN f} = (1..size) \ held
    /\ \A k, m \in DOMAIN f : f[k] = f[m] => k = m

\* Behind the first room entries of f, the table points nowhere.
Nowhere(f, table, room) == \A k \in DOMAIN f : k > room => ~ IsPointer(table[f[k]])

InUse(slot) == {s \in DOMAIN slot : slot[s] \notin {0, Stale}}

\* As many indices as slots are in use; with no room left, it is all of them.
LEMMA LocatedCount ==
    ASSUME NEW n \in Nat, NEW size \in Nat, NEW slot, NEW table, NEW held,
           DOMAIN slot = 1..n, DOMAIN table = 1..size, Located(held, table, slot)
    PROVE  /\ IsFiniteSet(held) /\ Cardinality(held) \in Nat
           /\ IsFiniteSet(InUse(slot)) /\ Cardinality(InUse(slot)) = Cardinality(held)
           /\ Cardinality(held) <= n /\ Cardinality(held) <= size
           /\ Cardinality(held) = n => InUse(slot) = 1..n
           /\ Cardinality(held) = size => held = 1..size
<1> DEFINE I == InUse(slot)
           f == [i \in held |-> table[i]]
<1>1. /\ IsFiniteSet(1..n) /\ Cardinality(1..n) = n
      /\ IsFiniteSet(1..size) /\ Cardinality(1..size) = size
  <2>1. 1 \in Int /\ n \in Int /\ size \in Int
    OBVIOUS
  <2>2. IsFiniteSet(1..n) /\ Cardinality(1..n) = IF 1 > n THEN 0 ELSE n - 1 + 1
    BY <2>1, FS_Interval
  <2>3. IsFiniteSet(1..size) /\ Cardinality(1..size) = IF 1 > size THEN 0 ELSE size - 1 + 1
    BY <2>1, FS_Interval
  <2> QED
    BY <2>2, <2>3
<1>2. held \subseteq 1..size /\ I \subseteq 1..n
  BY DEF Located, InUse
<1>3. /\ IsFiniteSet(held) /\ Cardinality(held) <= size
      /\ (Cardinality(held) = size => held = 1..size)
  <2> DEFINE J == 1..size
  <2>1. IsFiniteSet(J) /\ Cardinality(J) = size /\ held \subseteq J
    BY <1>1, <1>2
  <2> HIDE DEF J
  <2>2. /\ IsFiniteSet(held) /\ Cardinality(held) <= Cardinality(J)
        /\ (Cardinality(held) = Cardinality(J) => held = J)
    BY <2>1, FS_Subset
  <2> QED
    BY <2>1, <2>2 DEF J
<1>4. /\ IsFiniteSet(I) /\ Cardinality(I) <= n
      /\ (Cardinality(I) = n => I = 1..n)
  BY <1>1, <1>2, FS_Subset
<1>5. \A i \in held : f[i] \in I /\ slot[f[i]] = i
  BY <1>2 DEF Located, InUse, Stale
<1>6. \A s \in I : slot[s] \in held /\ f[slot[s]] = s
  BY DEF Located, InUse
<1>7. f \in Bijection(held, I)
  BY <1>5, <1>6 DEF Bijection, Injection, Surjection, IsInjective
<1> HIDE DEF I, f
<1>8. ExistsBijection(held, I)
  BY <1>7 DEF ExistsBijection
<1>9. Cardinality(I) = Cardinality(held) /\ Cardinality(held) \in Nat
  BY <1>3, <1>8, FS_Bijection, FS_CardinalityType
<1> QED
  BY <1>3, <1>4, <1>9 DEF I

\* Where every slot was written, those that are not in use are zero.
LEMMA ZeroCount ==
    ASSUME NEW n \in Nat, NEW slot, DOMAIN slot = 1..n,
           \A s \in 1..n : slot[s] # Stale
    PROVE  /\ IsFiniteSet(Zero(slot))
           /\ Cardinality(Zero(slot)) = n - Cardinality(InUse(slot))
<1> DEFINE I == InUse(slot)
           Z == Zero(slot)
<1>1. IsFiniteSet(1..n) /\ Cardinality(1..n) = n
  <2>1. 1 \in Int /\ n \in Int
    OBVIOUS
  <2>2. IsFiniteSet(1..n) /\ Cardinality(1..n) = IF 1 > n THEN 0 ELSE n - 1 + 1
    BY <2>1, FS_Interval
  <2> QED
    BY <2>2
<1>2. Z = (1..n) \ I /\ I \subseteq 1..n
  BY DEF Zero, InUse
<1> HIDE DEF I, Z
<1>3. IsFiniteSet(I) /\ IsFiniteSet(Z)
  BY <1>1, <1>2, FS_Subset
<1>4. (1..n) \cap I = I
  BY <1>2
<1>5. Cardinality(Z) = Cardinality(1..n) - Cardinality(I)
  <2> DEFINE J == 1..n
  <2>1. IsFiniteSet(J) /\ J \cap I = I /\ Z = J \ I
    BY <1>1, <1>2, <1>4
  <2> HIDE DEF J
  <2>2. Cardinality(J \ I) = Cardinality(J) - Cardinality(J \cap I)
    BY <2>1, FS_Difference
  <2> QED
    BY <2>1, <2>2 DEF J
<1> QED
  BY <1>1, <1>3, <1>5 DEF I, Z

LEMMA BeginsCount ==
    ASSUME NEW X, NEW f \in Seq(X), NEW S, Begins(f, S)
    PROVE  /\ IsFiniteSet(S) /\ Cardinality(S) \in 0..Len(f)
           /\ {f[k] : k \in 1..Cardinality(S)} = S
<1>1. PICK z \in 0..Len(f) : /\ {f[k] : k \in 1..z} = S
                             /\ \A k, m \in 1..z : f[k] = f[m] => k = m
  BY DEF Begins
<1> DEFINE g == [k \in 1..z |-> f[k]]
<1>2. g \in Bijection(1..z, S)
  BY <1>1 DEF Bijection, Injection, Surjection, IsInjective
<1> HIDE DEF g
<1>3. ExistsBijection(1..z, S)
  BY <1>2 DEF ExistsBijection
<1>4. IsFiniteSet(1..z) /\ Cardinality(1..z) = z
  <2>1. 1 \in Int /\ z \in Int
    OBVIOUS
  <2>2. IsFiniteSet(1..z) /\ Cardinality(1..z) = IF 1 > z THEN 0 ELSE z - 1 + 1
    BY <2>1, FS_Interval
  <2> QED
    BY <2>2
<1>5. IsFiniteSet(S) /\ Cardinality(S) = z
  BY <1>3, <1>4, FS_Bijection
<1> QED
  BY <1>1, <1>5

LEMMA BeginsTail ==
    ASSUME NEW X, NEW f \in Seq(X), NEW S, Begins(f, S), f # <<>>, Head(f) # Stale
    PROVE  Head(f) \in S /\ Begins(Tail(f), S \ {Head(f)})
<1>1. PICK z \in 0..Len(f) : /\ {f[k] : k \in 1..z} = S
                             /\ \A k, m \in 1..z : f[k] = f[m] => k = m
                             /\ z < Len(f) => f[z + 1] = Stale
  BY DEF Begins
<1>2. Len(f) > 0 /\ Head(f) = f[1]
  OBVIOUS
<1>3. z # 0
  BY <1>1, <1>2
<1>4. Len(Tail(f)) = Len(f) - 1 /\ \A k \in 1..(Len(f) - 1) : Tail(f)[k] = f[k + 1]
  BY HeadTailProperties
<1> DEFINE t == Tail(f)
           y == z - 1
<1>5. y \in 0..Len(t) /\ \A k \in 1..y : t[k] = f[k + 1] /\ k + 1 \in 1..z
  BY <1>1, <1>3, <1>4
<1>6. y < Len(t) => t[y + 1] = Stale
  BY <1>1, <1>3, <1>4
<1> HIDE DEF t
<1>7. \A k, m \in 1..y : t[k] = t[m] => k = m
  <2> SUFFICES ASSUME NEW k \in 1..y, NEW m \in 1..y, t[k] = t[m] PROVE k = m
    OBVIOUS
  <2>1. k + 1 = m + 1
    BY <1>1, <1>5
  <2> QED
    BY <2>1
<1>8. {t[k] : k \in 1..y} = S \ {f[1]}
  <2>1. ASSUME NEW k \in 1..y PROVE t[k] \in S /\ t[k] # f[1]
    <3>1. k + 1 \in 1..z /\ 1 \in 1..z /\ k + 1 # 1
      BY <1>3, <1>5
    <3> QED
      BY <1>1, <1>5, <3>1
  <2>2. ASSUME NEW s \in S, s # f[1] PROVE \E k \in 1..y : s = t[k]
    <3>1. PICK m \in 1..z : s = f[m]
      BY <1>1
    <3>2. m - 1 \in 1..y /\ (m - 1) + 1 = m
      BY <2>2, <3>1
    <3> QED
      BY <1>5, <3>1, <3>2
  <2> QED
    BY <2>1, <2>2
<1>9. f[1] \in S
  BY <1>1, <1>3
<1> QED
  BY <1>2, <1>5, <1>6, <1>7, <1>8, <1>9 DEF Begins, t

LEMMA BeginsCons ==
    ASSUME NEW X, NEW f \in Seq(X), NEW S, NEW s \in X, s \notin S, Begins(f, S)
    PROVE  Begins(<<s>> \o f, S \cup {s})
<1>1. PICK z \in 0..Len(f) : /\ {f[k] : k \in 1..z} = S
                             /\ \A k, m \in 1..z : f[k] = f[m] => k = m
                             /\ z < Len(f) => f[z + 1] = Stale
  BY DEF Begins
<1> DEFINE t == <<s>> \o f
           y == z + 1
<1>2. Len(t) = Len(f) + 1 /\ t[1] = s /\ \A k \in 1..Len(f) : t[k + 1] = f[k]
  OBVIOUS
<1> HIDE DEF t
<1>3. \A k \in 1..y : k = 1 \/ (k - 1 \in 1..z /\ t[k] = f[k - 1])
  <2> SUFFICES ASSUME NEW k \in 1..y, k # 1 PROVE k - 1 \in 1..z /\ t[k] = f[k - 1]
    OBVIOUS
  <2>1. k - 1 \in 1..z /\ k - 1 \in 1..Len(f) /\ (k - 1) + 1 = k
    BY <1>1
  <2> QED
    BY <1>2, <2>1
<1>4. y \in 0..Len(t) /\ (y < Len(t) => t[y + 1] = Stale)
  BY <1>1, <1>2
<1>7. ASSUME NEW k \in 1..y, k # 1 PROVE t[k] \in S /\ t[k] # t[1]
  <2>1. k - 1 \in 1..z /\ t[k] = f[k - 1]
    BY <1>3, <1>7
  <2>2. t[k] \in S
    BY <1>1, <2>1
  <2> QED
    BY <1>2, <2>2
<1>5. \A k, m \in 1..y : t[k] = t[m] => k = m
  <2> SUFFICES ASSUME NEW k \in 1..y, NEW m \in 1..y, t[k] = t[m] PROVE k = m
    OBVIOUS
  <2>1. CASE k = 1 \/ m = 1
    <3>1. k # 1 => t[k] # t[1]
      BY <1>7
    <3>2. m # 1 => t[m] # t[1]
      BY <1>7
    <3> QED
      BY <2>1, <3>1, <3>2
  <2>2. CASE k # 1 /\ m # 1
    <3>1. k - 1 = m - 1
      BY <1>1, <1>3, <2>2
    <3> QED
      BY <3>1
  <2> QED
    BY <2>1, <2>2
<1>6. {t[k] : k \in 1..y} = S \cup {s}
  <2>1. ASSUME NEW k \in 1..y PROVE t[k] \in S \cup {s}
    BY <1>2, <1>7
  <2>2. 1 \in 1..y
    BY <1>1
  <2>3. ASSUME NEW r \in S PROVE \E k \in 1..y : r = t[k]
    <3>1. PICK m \in 1..z : r = f[m]
      BY <1>1
    <3>2. m + 1 \in 1..y /\ m \in 1..Len(f)
      BY <1>1
    <3> QED
      BY <1>2, <3>1, <3>2
  <2> QED
    BY <1>2, <2>1, <2>2, <2>3
<1> QED
  BY <1>4, <1>5, <1>6 DEF Begins, t

\* As long as a slot is free, the first of the list is one.
LEMMA BeginsHead ==
    ASSUME NEW X, NEW f \in Seq(X), NEW S, Begins(f, S), S # {}
    PROVE  f # <<>> /\ Head(f) \in S
<1>1. PICK z \in 0..Len(f) : {f[k] : k \in 1..z} = S
  BY DEF Begins
<1>2. 1 \in 1..z /\ f # <<>>
  BY <1>1
<1>3. Head(f) = f[1]
  BY <1>2
<1> QED
  BY <1>1, <1>2, <1>3

LEMMA ListsTail ==
    ASSUME NEW X, NEW f \in Seq(X), NEW size \in Nat, NEW held,
           Lists(f, size, held), f # <<>>
    PROVE  /\ Head(f) \in (1..size) \ held
           /\ Lists(Tail(f), size, held \cup {Head(f)})
<1>1. Len(f) > 0 /\ Head(f) = f[1] /\ DOMAIN f = 1..Len(f)
  OBVIOUS
<1>2. Tail(f) \in Seq(X) /\ Len(Tail(f)) = Len(f) - 1
      /\ \A k \in 1..(Len(f) - 1) : Tail(f)[k] = f[k + 1]
  BY HeadTailProperties
<1> DEFINE t == Tail(f)
           h == f[1]
<1>3. DOMAIN t = 1..(Len(f) - 1)
      /\ \A k \in DOMAIN t : t[k] = f[k + 1] /\ k + 1 \in DOMAIN f /\ k + 1 # 1
  BY <1>1, <1>2
<1>4. h \in (1..size) \ held
  BY <1>1 DEF Lists
<1> HIDE DEF t
<1>5. \A k, m \in DOMAIN t : t[k] = t[m] => k = m
  <2> SUFFICES ASSUME NEW k \in DOMAIN t, NEW m \in DOMAIN t, t[k] = t[m] PROVE k = m
    OBVIOUS
  <2>1. k + 1 = m + 1
    BY <1>3 DEF Lists
  <2> QED
    BY <1>3, <2>1
<1>6. {t[k] : k \in DOMAIN t} = (1..size) \ (held \cup {h})
  <2>1. ASSUME NEW k \in DOMAIN t PROVE t[k] \in (1..size) \ (held \cup {h})
    <3>1. 1 \in DOMAIN f
      BY <1>1
    <3> QED
      BY <1>3, <3>1 DEF Lists
  <2>2. ASSUME NEW i \in (1..size) \ (held \cup {h}) PROVE \E k \in DOMAIN t : i = t[k]
    <3>1. PICK m \in DOMAIN f : i = f[m]
      BY DEF Lists
    <3>2. m - 1 \in DOMAIN t /\ (m - 1) + 1 = m
      BY <1>1, <1>3, <3>1
    <3> QED
      BY <1>3, <3>1, <3>2
  <2> QED
    BY <2>1, <2>2
<1> QED
  BY <1>1, <1>4, <1>5, <1>6 DEF Lists, t

LEMMA ListsCons ==
    ASSUME NEW X, NEW f \in Seq(X), NEW size \in Nat, NEW held, NEW i \in X,
           i \in held, i \in 1..size, Lists(f, size, held)
    PROVE  Lists(<<i>> \o f, size, held \ {i})
<1> DEFINE t == <<i>> \o f
<1>1. DOMAIN f = 1..Len(f) /\ Len(f) \in Nat /\ DOMAIN t = 1..(Len(f) + 1)
      /\ t[1] = i /\ \A k \in 1..Len(f) : t[k + 1] = f[k]
  OBVIOUS
<1> HIDE DEF t
<1>2. \A k \in DOMAIN t : k = 1 \/ (k - 1 \in DOMAIN f /\ t[k] = f[k - 1])
  <2> SUFFICES ASSUME NEW k \in DOMAIN t, k # 1 PROVE k - 1 \in DOMAIN f /\ t[k] = f[k - 1]
    OBVIOUS
  <2>1. k - 1 \in 1..Len(f) /\ (k - 1) + 1 = k
    BY <1>1
  <2> QED
    BY <1>1, <2>1
<1>3. \A k \in DOMAIN f : f[k] \in (1..size) \ held
  BY DEF Lists
<1>4. \A k, m \in DOMAIN t : t[k] = t[m] => k = m
  <2> SUFFICES ASSUME NEW k \in DOMAIN t, NEW m \in DOMAIN t, t[k] = t[m] PROVE k = m
    OBVIOUS
  <2>1. CASE k = 1 \/ m = 1
    BY <1>1, <1>2, <1>3, <2>1
  <2>2. CASE k # 1 /\ m # 1
    <3>1. k - 1 = m - 1
      BY <1>2, <2>2 DEF Lists
    <3> QED
      BY <1>1, <3>1
  <2> QED
    BY <2>1, <2>2
<1>5. {t[k] : k \in DOMAIN t} = (1..size) \ (held \ {i})
  <2>1. ASSUME NEW k \in DOMAIN t PROVE t[k] \in (1..size) \ (held \ {i})
    BY <1>1, <1>2, <1>3
  <2>2. ASSUME NEW r \in (1..size) \ (held \ {i}) PROVE \E k \in DOMAIN t : r = t[k]
    <3>1. CASE r = i
      BY <1>1, <3>1
    <3>2. CASE r # i
      <4>1. PICK m \in DOMAIN f : r = f[m]
        BY <3>2 DEF Lists
      <4>2. m + 1 \in DOMAIN t
        BY <1>1
      <4> QED
        BY <1>1, <4>1, <4>2
    <3> QED
      BY <3>1, <3>2
  <2> QED
    BY <2>1, <2>2
<1> QED
  BY <1>4, <1>5 DEF Lists, t

LEMMA IntervalFacts ==
    ASSUME NEW m \in Nat, NEW n \in Nat, m <= n + 1
    PROVE  /\ Interval(m, n) \in Seq(m..n)
           /\ Len(Interval(m, n)) = n - m + 1
           /\ \A k \in 1..(n - m + 1) : Interval(m, n)[k] = m + k - 1
           /\ Begins(Interval(m, n), m..n)
<1> DEFINE l == n - m + 1
           f == Interval(m, n)
<1>1. l \in Nat /\ \A k \in 1..l : m + k - 1 \in m..n
  OBVIOUS
<1>2. f = [k \in 1..l |-> m + k - 1]
  BY DEF Interval
<1> HIDE DEF l, f
<1>3. f \in Seq(m..n) /\ Len(f) = l
  BY <1>1, <1>2
<1>4. \A k \in 1..l : f[k] = m + k - 1
  BY <1>2
<1>5. {f[k] : k \in 1..l} = m..n
  <2>1. ASSUME NEW i \in m..n PROVE \E k \in 1..l : i = f[k]
    <3>1. i - m + 1 \in 1..l /\ m + (i - m + 1) - 1 = i
      BY DEF l
    <3> QED
      BY <1>4, <3>1
  <2> QED
    BY <1>1, <1>4, <2>1
<1>6. \A k, j \in 1..l : f[k] = f[j] => k = j
  BY <1>1, <1>4
<1>7. l \in 0..Len(f) /\ ~ (l < Len(f))
  BY <1>1, <1>3
<1> QED
  BY <1>3, <1>4, <1>5, <1>6, <1>7 DEF Begins, f, l

-----------------------------------------------------------------------------
(* The invariant of an arena.                                               *)

Fields ==
    [allocated : BOOLEAN, used : Nat, slot : Seq(Int), table : Seq(Int),
     free : Seq(Int), free_index : Seq(Int), held : SUBSET Int]

\* An arena with other parts.
With(a, u, s, t, f, g, h) ==
    [a EXCEPT !.used = u, !.slot = s, !.table = t, !.free = f, !.free_index = g, !.held = h]

LEMMA WithParts ==
    ASSUME NEW a \in Fields, NEW u \in Nat, NEW s \in Seq(Int), NEW t \in Seq(Int),
           NEW f \in Seq(Int), NEW g \in Seq(Int), NEW h \in SUBSET Int,
           NEW b, b = With(a, u, s, t, f, g, h)
    PROVE  /\ b \in Fields /\ b.allocated = a.allocated /\ b.used = u
           /\ b.slot = s /\ b.table = t /\ b.free = f /\ b.free_index = g /\ b.held = h
<1>1. b \in Fields
  BY DEF Fields, With
<1> QED
  BY <1>1 DEF Fields, With

ArenaInv(a, min) ==
    /\ a \in Fields /\ ArenaType(a)
    /\ Size(a) \in Doublings(min) /\ TableSize(a) \in Doublings(Size(a))
    /\ a.used = Cardinality(a.held)
    /\ Located(a.held, a.table, a.slot)
    /\ Begins(a.free, Zero(a.slot))
    /\ Lists(a.free_index, TableSize(a), a.held)
    /\ Len(a.free_index) = TableSize(a) - a.used
    /\ Nowhere(a.free_index, a.table, Size(a) - a.used)

LEMMA ArenaFacts ==
    ASSUME NEW min \in Nat \ {0}, NEW a, ArenaInv(a, min)
    PROVE  /\ Size(a) \in Nat \ {0} /\ min <= Size(a)
           /\ TableSize(a) \in Nat \ {0} /\ Size(a) <= TableSize(a)
           /\ DOMAIN a.slot = 1..Size(a) /\ a.slot \in Seq(Int)
           /\ DOMAIN a.table = 1..TableSize(a) /\ a.table \in Seq(Int)
           /\ a.free \in Seq(Int) /\ a.free_index \in Seq(Int)
           /\ a.used \in Nat /\ a.held \subseteq 1..TableSize(a)
           /\ IsFiniteSet(a.held)
<1>1. a \in Fields
  BY DEF ArenaInv
<1>2. /\ Size(a) \in Nat /\ TableSize(a) \in Nat
      /\ DOMAIN a.slot = 1..Size(a) /\ DOMAIN a.table = 1..TableSize(a)
  BY <1>1 DEF Fields, Size, TableSize
<1>3. Size(a) \in Doublings(min) /\ TableSize(a) \in Doublings(Size(a))
  BY DEF ArenaInv
<1>4. min <= Size(a) /\ Size(a) <= TableSize(a)
  BY <1>2, <1>3, DoublingsBound
<1>5. Located(a.held, a.table, a.slot)
  BY DEF ArenaInv
<1>6. IsFiniteSet(a.held)
  BY <1>2, <1>5, LocatedCount
<1> QED
  BY <1>1, <1>2, <1>4, <1>5, <1>6 DEF Fields, Located

\* newNode takes a struct.
LEMMA TakenInv ==
    ASSUME NEW min \in Nat \ {0}, NEW a, ArenaInv(a, min), ~ TakeFaults(a)
    PROVE  /\ ArenaInv(Taken(a), min)
           /\ Taken(a).allocated = a.allocated /\ Taken(a).used = a.used + 1
           /\ Size(Taken(a)) = Size(a)
           /\ DecreaseFaults(Taken(a)) => DecreaseFaults(a)
<1> DEFINE s == Head(a.free)
           i == Head(a.free_index)
           b == Taken(a)
           n == Size(a)
           t == TableSize(a)
<1>1. a \in Fields /\ ArenaType(a)
  BY DEF ArenaInv
<1>2. /\ n \in Nat \ {0} /\ t \in Nat \ {0} /\ n <= t
      /\ DOMAIN a.slot = 1..n /\ a.slot \in Seq(Int)
      /\ DOMAIN a.table = 1..t /\ a.table \in Seq(Int)
      /\ a.free \in Seq(Int) /\ a.free_index \in Seq(Int)
      /\ a.used \in Nat /\ a.held \subseteq 1..t
      /\ IsFiniteSet(a.held)
  BY ArenaFacts
<1>3. a.free # <<>> /\ a.free_index # <<>> /\ s # Stale
  BY DEF TakeFaults, IsPointer
<1>4. s \in Zero(a.slot) /\ Begins(Tail(a.free), Zero(a.slot) \ {s})
  BY <1>2, <1>3, BeginsTail DEF ArenaInv
<1>5. s \in 1..n /\ a.slot[s] = 0
  BY <1>2, <1>4 DEF Zero
<1>6. i \in (1..t) \ a.held /\ Lists(Tail(a.free_index), t, a.held \cup {i})
  <2> DEFINE f == a.free_index
             h == a.held
  <2>1. f \in Seq(Int) /\ t \in Nat /\ Lists(f, t, h) /\ f # <<>>
    BY <1>2, <1>3 DEF ArenaInv
  <2> HIDE DEF f, h, t
  <2>2. Head(f) \in (1..t) \ h /\ Lists(Tail(f), t, h \cup {Head(f)})
    BY <2>1, ListsTail
  <2> QED
    BY <2>2 DEF f, h
<1>19. Size(a) = n /\ TableSize(a) = t
  OBVIOUS
<1> HIDE DEF n, t, s, i
<1>7. /\ b \in Fields /\ b.allocated = a.allocated /\ b.used = a.used + 1
      /\ b.slot = [a.slot EXCEPT ![s] = i] /\ b.table = [a.table EXCEPT ![i] = s]
      /\ b.free = Tail(a.free) /\ b.free_index = Tail(a.free_index)
      /\ b.held = a.held \cup {i}
  <2> DEFINE u == a.used + 1
             w == [a.slot EXCEPT ![s] = i]
             x == [a.table EXCEPT ![i] = s]
             f == Tail(a.free)
             g == Tail(a.free_index)
             h == a.held \cup {i}
  <2>1. s \in Int /\ i \in Int /\ s \in DOMAIN a.slot /\ i \in DOMAIN a.table
    BY <1>2, <1>5, <1>6
  <2>2. u \in Nat /\ h \in SUBSET Int
    <3>1. 1..t \subseteq Int /\ a.held \subseteq 1..t /\ a.used \in Nat
      BY <1>2
    <3> QED
      BY <2>1, <3>1
  <2>6. w \in Seq(Int) /\ x \in Seq(Int)
    <3> DEFINE v == a.slot
               y == a.table
    <3>1. v \in Seq(Int) /\ y \in Seq(Int) /\ s \in DOMAIN v /\ i \in DOMAIN y
      BY <1>2, <2>1
    <3> HIDE DEF v, y
    <3>2. [v EXCEPT ![s] = i] \in Seq(Int) /\ [y EXCEPT ![i] = s] \in Seq(Int)
      BY <2>1, <3>1
    <3> QED
      BY <3>2 DEF v, y
  <2>7. a \in Fields
    BY <1>1
  <2>3. f \in Seq(Int) /\ g \in Seq(Int)
    BY <1>2, <1>3, HeadTailProperties
  <2>4. b = With(a, u, w, x, f, g, h)
    BY <1>1 DEF Taken, With, Fields, s, i
  <2> HIDE DEF b, u, w, x, f, g, h
  <2>5. /\ b \in Fields /\ b.allocated = a.allocated /\ b.used = u
        /\ b.slot = w /\ b.table = x /\ b.free = f /\ b.free_index = g /\ b.held = h
    BY <2>2, <2>3, <2>4, <2>6, <2>7, WithParts
  <2> QED
    BY <2>5 DEF u, w, x, f, g, h
<1> HIDE DEF b
<1>8. /\ b.slot \in Seq(Int) /\ DOMAIN b.slot = 1..n /\ Size(b) = n
      /\ b.slot[s] = i /\ \A r \in 1..n : r # s => b.slot[r] = a.slot[r]
  <2>1. b.slot \in Seq(Int) /\ DOMAIN b.slot = 1..n
    BY <1>2, <1>7 DEF Fields
  <2>2. Size(b) = n
    BY <1>2, <2>1 DEF Size
  <2>3. b.slot = [a.slot EXCEPT ![s] = i] /\ s \in DOMAIN a.slot /\ DOMAIN a.slot = 1..n
    BY <1>2, <1>5, <1>7
  <2>4. b.slot[s] = i /\ \A r \in 1..n : r # s => b.slot[r] = a.slot[r]
    BY <2>3
  <2> QED
    BY <2>1, <2>2, <2>4
<1>9. /\ b.table \in Seq(Int) /\ DOMAIN b.table = 1..t /\ TableSize(b) = t
      /\ b.table[i] = s /\ \A j \in 1..t : j # i => b.table[j] = a.table[j]
  <2>1. b.table \in Seq(Int) /\ DOMAIN b.table = 1..t
    BY <1>2, <1>7 DEF Fields
  <2>2. TableSize(b) = t
    BY <1>2, <2>1 DEF TableSize
  <2>3. b.table = [a.table EXCEPT ![i] = s] /\ i \in DOMAIN a.table /\ DOMAIN a.table = 1..t
    BY <1>2, <1>6, <1>7
  <2>4. b.table[i] = s /\ \A j \in 1..t : j # i => b.table[j] = a.table[j]
    BY <2>3
  <2> QED
    BY <2>1, <2>2, <2>4
<1>10. b \in Fields
  BY <1>7
<1>11. Located(b.held, b.table, b.slot)
  <2>1. b.held = a.held \cup {i}
    BY <1>7
  <2>2. Located(a.held, a.table, a.slot)
    BY DEF ArenaInv
  <2>3. b.held \subseteq DOMAIN b.table
    BY <1>2, <1>6, <1>9, <2>1
  <2>4. ASSUME NEW j \in b.held PROVE b.table[j] \in DOMAIN b.slot /\ b.slot[b.table[j]] = j
    <3>1. CASE j = i
      BY <1>5, <1>8, <1>9, <3>1
    <3>2. CASE j # i
      <4>1. j \in a.held /\ j \in 1..t /\ b.table[j] = a.table[j]
        BY <1>2, <1>9, <2>1, <3>2
      <4>2. a.table[j] \in 1..n /\ a.slot[a.table[j]] = j
        BY <1>2, <2>2, <4>1 DEF Located
      <4>3. a.table[j] # s
        BY <1>5, <4>1, <4>2
      <4> QED
        BY <1>8, <4>1, <4>2, <4>3
    <3> QED
      BY <3>1, <3>2
  <2>5. ASSUME NEW r \in DOMAIN b.slot, b.slot[r] \notin {0, Stale}
        PROVE  b.slot[r] \in b.held /\ b.table[b.slot[r]] = r
    <3>1. CASE r = s
      BY <1>8, <1>9, <2>1, <3>1
    <3>2. CASE r # s
      <4>1. b.slot[r] = a.slot[r] /\ r \in 1..n
        BY <1>8, <3>2
      <4>2. a.slot[r] \in a.held /\ a.table[a.slot[r]] = r
        BY <1>2, <2>2, <2>5, <4>1 DEF Located
      <4>3. a.slot[r] # i /\ a.slot[r] \in 1..t
        BY <1>2, <1>6, <4>2
      <4> QED
        BY <1>9, <2>1, <4>1, <4>2, <4>3
    <3> QED
      BY <3>1, <3>2
  <2> QED
    BY <2>3, <2>4, <2>5 DEF Located
<1>12. b.used = Cardinality(b.held) /\ b.used \in 0..n
  <2>1. Cardinality(a.held \cup {i}) = Cardinality(a.held) + 1
    BY <1>2, <1>6, FS_AddElement
  <2>2. b.used = Cardinality(b.held)
    BY <1>7, <2>1 DEF ArenaInv
  <2>3. Cardinality(b.held) <= n /\ Cardinality(b.held) \in Nat
    BY <1>2, <1>8, <1>9, <1>11, LocatedCount
  <2> QED
    BY <2>2, <2>3
<1>13. Zero(b.slot) = Zero(a.slot) \ {s}
  <2>1. i # 0 /\ b.slot[s] = i /\ \A r \in 1..n : r # s => b.slot[r] = a.slot[r]
    BY <1>6, <1>8
  <2>2. Zero(b.slot) = {r \in 1..n : b.slot[r] = 0} /\ Zero(a.slot) = {r \in 1..n : a.slot[r] = 0}
    BY <1>2, <1>8 DEF Zero
  <2> QED
    BY <2>1, <2>2
<1>14. /\ Len(a.free_index) > 0 /\ Len(b.free_index) = Len(a.free_index) - 1
       /\ \A k \in 1..(Len(a.free_index) - 1) : b.free_index[k] = a.free_index[k + 1]
       /\ DOMAIN a.free_index = 1..Len(a.free_index) /\ Len(a.free_index) \in Nat
       /\ DOMAIN b.free_index = 1..(Len(a.free_index) - 1)
  <2> DEFINE f == a.free_index
             g == b.free_index
  <2>1. f \in Seq(Int) /\ g = Tail(f) /\ f # <<>>
    BY <1>2, <1>3, <1>7
  <2> HIDE DEF f, g
  <2>2. /\ g \in Seq(Int) /\ Len(g) = Len(f) - 1
        /\ \A k \in 1..(Len(f) - 1) : g[k] = f[k + 1]
    BY <2>1, HeadTailProperties
  <2>3. /\ DOMAIN f = 1..Len(f) /\ Len(f) \in Nat /\ Len(f) # 0
        /\ DOMAIN g = 1..Len(g)
    BY <2>1, <2>2
  <2> QED
    BY <2>2, <2>3 DEF f, g
<1>15. Nowhere(b.free_index, b.table, n - b.used)
  <2> SUFFICES ASSUME NEW k \in DOMAIN b.free_index, k > n - b.used
               PROVE  ~ IsPointer(b.table[b.free_index[k]])
    BY DEF Nowhere
  <2>1. k \in 1..(Len(a.free_index) - 1)
    BY <1>14
  <2>2. k + 1 \in DOMAIN a.free_index /\ k + 1 > n - a.used
    <3>1. n \in Nat /\ a.used \in Nat /\ b.used = a.used + 1
      BY <1>2, <1>7
    <3>2. k \in Nat /\ k + 1 \in 1..Len(a.free_index)
      BY <1>14, <2>1
    <3> QED
      BY <1>14, <3>1, <3>2
  <2>3. b.free_index[k] = a.free_index[k + 1]
    BY <1>14, <2>1
  <2>4. ~ IsPointer(a.table[a.free_index[k + 1]])
    BY <1>19, <2>2 DEF ArenaInv, Nowhere
  <2>5. b.free_index[k] \in (1..t) \ b.held
    BY <1>6, <1>7, <1>14 DEF Lists
  <2>6. b.free_index[k] # i
    BY <1>7, <2>5
  <2> QED
    BY <1>9, <2>3, <2>4, <2>5, <2>6
<1>16. ArenaType(b)
  <2>1. b.allocated \in BOOLEAN /\ b.used \in 0..Size(b) /\ Size(b) <= TableSize(b)
    BY <1>2, <1>8, <1>9, <1>10, <1>12 DEF Fields
  <2>2. \A r \in DOMAIN b.slot : b.slot[r] \in 0..TableSize(b) \cup {Stale}
    <3>1. \A r \in 1..n : a.slot[r] \in 0..t \cup {Stale}
      BY <1>1, <1>2, <1>19 DEF ArenaType
    <3> QED
      <4>1. TableSize(b) = t /\ DOMAIN b.slot = 1..n /\ b.slot[s] = i /\ i \in 1..t
        BY <1>6, <1>8, <1>9
      <4>2. \A r \in 1..n : r # s => b.slot[r] = a.slot[r]
        BY <1>8
      <4>3. t \in Nat
        BY <1>2
      <4> QED
        BY <3>1, <4>1, <4>2, <4>3
  <2>3. \A j \in DOMAIN b.table : b.table[j] \in 0..Size(b) \cup {Stale}
    <3>1. \A j \in 1..t : a.table[j] \in 0..n \cup {Stale}
      BY <1>1, <1>2, <1>19 DEF ArenaType
    <3> QED
      <4>1. Size(b) = n /\ DOMAIN b.table = 1..t /\ b.table[i] = s /\ s \in 1..n
        BY <1>5, <1>8, <1>9
      <4>2. \A j \in 1..t : j # i => b.table[j] = a.table[j]
        BY <1>9
      <4>3. n \in Nat
        BY <1>2
      <4> QED
        BY <3>1, <4>1, <4>2, <4>3
  <2>4. \A k \in DOMAIN b.free : b.free[k] \in 1..Size(b) \cup {Stale}
    <3>1. \A k \in DOMAIN a.free : a.free[k] \in 1..n \cup {Stale}
      BY <1>1, <1>19 DEF ArenaType
    <3>2. \A k \in DOMAIN b.free : b.free[k] \in 1..n \cup {Stale}
      <4> DEFINE f == a.free
                 g == b.free
      <4>1. f \in Seq(Int) /\ g = Tail(f) /\ f # <<>>
        BY <1>2, <1>3, <1>7
      <4>4. \A k \in DOMAIN f : f[k] \in 1..n \cup {Stale}
        BY <3>1
      <4> HIDE DEF f, g
      <4>2. /\ g \in Seq(Int) /\ Len(g) = Len(f) - 1
            /\ \A k \in 1..(Len(f) - 1) : g[k] = f[k + 1]
        BY <4>1, HeadTailProperties
      <4>3. \A k \in DOMAIN g : k + 1 \in DOMAIN f /\ g[k] = f[k + 1]
        BY <4>1, <4>2
      <4> QED
        BY <4>3, <4>4 DEF f, g
    <3> QED
      BY <1>8, <3>2
  <2>5. \A k \in DOMAIN b.free_index : b.free_index[k] \in 1..TableSize(b)
    BY <1>6, <1>7, <1>9 DEF Lists
  <2>6. b.held \subseteq 1..TableSize(b)
    BY <1>9, <1>11 DEF Located
  <2> QED
    BY <2>1, <2>2, <2>3, <2>4, <2>5, <2>6 DEF ArenaType
<1>17. ArenaInv(b, min)
  <2>1. n \in Doublings(min) /\ t \in Doublings(n)
    BY <1>19 DEF ArenaInv
  <2>2. Begins(b.free, Zero(b.slot))
    BY <1>4, <1>7, <1>13
  <2>3. Lists(b.free_index, t, b.held) /\ Len(b.free_index) = t - b.used
    <3>1. Len(a.free_index) = t - a.used
      BY <1>19 DEF ArenaInv
    <3> QED
      BY <1>2, <1>6, <1>7, <1>14, <3>1
  <2> QED
    BY <1>8, <1>9, <1>10, <1>11, <1>12, <1>15, <1>16, <2>1, <2>2, <2>3 DEF ArenaInv
<1>18. DecreaseFaults(b) => DecreaseFaults(a)
  <2>1. \A r \in 1..n : b.slot[r] = Stale => a.slot[r] = Stale
    <3>1. i # Stale /\ b.slot[s] = i /\ \A r \in 1..n : r # s => b.slot[r] = a.slot[r]
      BY <1>6, <1>8 DEF Stale
    <3> QED
      BY <3>1
  <2> QED
    BY <1>2, <1>8, <2>1 DEF DecreaseFaults
<1> QED
  BY <1>7, <1>8, <1>17, <1>18, <1>19 DEF b

\* destroyNode gives a struct back.
LEMMA ReturnedInv ==
    ASSUME NEW min \in Nat \ {0}, NEW a, ArenaInv(a, min), NEW i \in a.held
    PROVE  /\ IsPointer(a.table[i])
           /\ ArenaInv(Returned(a, i), min)
           /\ Returned(a, i).allocated = a.allocated
           /\ Returned(a, i).used = a.used - 1 /\ Returned(a, i).held = a.held \ {i}
           /\ Size(Returned(a, i)) = Size(a)
           /\ DecreaseFaults(Returned(a, i)) => DecreaseFaults(a)
<1> DEFINE s == a.table[i]
           b == Returned(a, i)
           n == Size(a)
           t == TableSize(a)
<1>1. a \in Fields /\ ArenaType(a) /\ Located(a.held, a.table, a.slot)
  BY DEF ArenaInv
<1>2. /\ n \in Nat \ {0} /\ t \in Nat \ {0} /\ n <= t
      /\ DOMAIN a.slot = 1..n /\ a.slot \in Seq(Int)
      /\ DOMAIN a.table = 1..t /\ a.table \in Seq(Int)
      /\ a.free \in Seq(Int) /\ a.free_index \in Seq(Int)
      /\ a.used \in Nat /\ a.held \subseteq 1..t
      /\ IsFiniteSet(a.held)
  BY ArenaFacts
<1>3. i \in 1..t /\ s \in 1..n /\ a.slot[s] = i
  <2> HIDE DEF n, t
  <2>1. i \in 1..t /\ DOMAIN a.slot = 1..n
    BY <1>2
  <2>2. s \in DOMAIN a.slot /\ a.slot[s] = i
    BY <1>1 DEF Located
  <2> QED
    BY <2>1, <2>2
<1>4. IsPointer(s) /\ i # 0 /\ i # Stale
  <2> HIDE DEF n, t, s
  <2>1. s \in 1..n /\ i \in 1..t
    BY <1>3
  <2> QED
    BY <2>1 DEF IsPointer, Stale
<1>5. Size(a) = n /\ TableSize(a) = t
  OBVIOUS
<1>6. Begins(<<s>> \o a.free, Zero(a.slot) \cup {s})
  <2> DEFINE f == a.free
             z == Zero(a.slot)
  <2>3. s \notin z
    BY <1>3, <1>4 DEF Zero
  <2>4. Begins(f, z)
    BY DEF ArenaInv
  <2>5. f \in Seq(Int) /\ s \in Int
    <3> HIDE DEF n, s
    <3> QED
      BY <1>2, <1>3
  <2>1. f \in Seq(Int) /\ s \in Int /\ s \notin z /\ Begins(f, z)
    BY <2>3, <2>4, <2>5
  <2> HIDE DEF f, z, s
  <2>2. Begins(<<s>> \o f, z \cup {s})
    BY <2>1, BeginsCons
  <2> QED
    BY <2>2 DEF f, z
<1>7. Lists(<<i>> \o a.free_index, t, a.held \ {i})
  <2> DEFINE f == a.free_index
             h == a.held
  <2>1. f \in Seq(Int) /\ t \in Nat /\ Lists(f, t, h) /\ i \in Int /\ i \in h /\ i \in 1..t
    BY <1>2, <1>3 DEF ArenaInv
  <2> HIDE DEF f, h, t
  <2>2. Lists(<<i>> \o f, t, h \ {i})
    BY <2>1, ListsCons
  <2> QED
    BY <2>2 DEF f, h
<1>8. a.used # 0
  <2>1. Cardinality(a.held) # 0
    BY <1>2, FS_EmptySet
  <2> QED
    BY <2>1 DEF ArenaInv
<1> HIDE DEF n, t
<1>9. /\ b \in Fields /\ b.allocated = a.allocated /\ b.used = a.used - 1
      /\ b.slot = [a.slot EXCEPT ![s] = 0] /\ b.table = a.table
      /\ b.free = <<s>> \o a.free /\ b.free_index = <<i>> \o a.free_index
      /\ b.held = a.held \ {i}
  <2> DEFINE u == a.used - 1
             w == [a.slot EXCEPT ![s] = 0]
             x == a.table
             f == <<s>> \o a.free
             g == <<i>> \o a.free_index
             h == a.held \ {i}
  <2>1. b = With(a, u, w, x, f, g, h)
    BY <1>1, <1>3 DEF Returned, With, Fields
  <2>2. u \in Nat
    BY <1>2, <1>8
  <2>3. h \in SUBSET Int
    <3>1. 1..t \subseteq Int /\ a.held \subseteq 1..t
      BY <1>2
    <3> QED
      BY <3>1
  <2>4. s \in Int /\ i \in Int
    BY <1>2, <1>3
  <2> HIDE DEF s
  <2>5. w \in Seq(Int)
    <3> DEFINE v == a.slot
    <3>1. v \in Seq(Int) /\ s \in DOMAIN v
      BY <1>2, <1>3
    <3> HIDE DEF v
    <3>2. [v EXCEPT ![s] = 0] \in Seq(Int)
      BY <3>1
    <3> QED
      BY <3>2 DEF v
  <2>6. f \in Seq(Int) /\ g \in Seq(Int)
    BY <1>2, <2>4
  <2>7. x \in Seq(Int) /\ a \in Fields
    BY <1>1, <1>2
  <2> HIDE DEF b, u, w, x, f, g, h
  <2>8. /\ b \in Fields /\ b.allocated = a.allocated /\ b.used = u
        /\ b.slot = w /\ b.table = x /\ b.free = f /\ b.free_index = g /\ b.held = h
    BY <2>1, <2>2, <2>3, <2>5, <2>6, <2>7, WithParts
  <2> QED
    BY <2>8 DEF u, w, x, f, g, h
<1> HIDE DEF b, s
<1>10. /\ DOMAIN b.slot = 1..n /\ Size(b) = n
       /\ b.slot[s] = 0 /\ \A r \in 1..n : r # s => b.slot[r] = a.slot[r]
  <2>1. b.slot \in Seq(Int) /\ DOMAIN b.slot = 1..n
    BY <1>2, <1>9 DEF Fields
  <2>2. Size(b) = n
    BY <1>2, <2>1 DEF Size
  <2>3. b.slot = [a.slot EXCEPT ![s] = 0] /\ s \in DOMAIN a.slot /\ DOMAIN a.slot = 1..n
    BY <1>2, <1>3, <1>9
  <2>4. b.slot[s] = 0 /\ \A r \in 1..n : r # s => b.slot[r] = a.slot[r]
    BY <2>3
  <2> QED
    BY <2>1, <2>2, <2>4
<1>11. DOMAIN b.table = 1..t /\ TableSize(b) = t
  BY <1>2, <1>5, <1>9 DEF TableSize
<1>12. Located(b.held, b.table, b.slot)
  <2>1. b.held \subseteq DOMAIN b.table
    BY <1>2, <1>9
  <2>2. ASSUME NEW j \in b.held PROVE b.table[j] \in DOMAIN b.slot /\ b.slot[b.table[j]] = j
    <3>1. j \in a.held /\ j # i
      BY <1>9
    <3>2. a.table[j] \in 1..n /\ a.slot[a.table[j]] = j
      BY <1>1, <1>2, <3>1 DEF Located
    <3>3. a.table[j] # s
      BY <1>3, <3>1, <3>2
    <3> QED
      BY <1>9, <1>10, <3>2, <3>3
  <2>3. ASSUME NEW r \in DOMAIN b.slot, b.slot[r] \notin {0, Stale}
        PROVE  b.slot[r] \in b.held /\ b.table[b.slot[r]] = r
    <3>1. r # s /\ r \in 1..n /\ b.slot[r] = a.slot[r]
      BY <1>10, <2>3
    <3>2. a.slot[r] \in a.held /\ a.table[a.slot[r]] = r
      BY <1>1, <1>2, <2>3, <3>1 DEF Located
    <3>3. a.slot[r] # i
      BY <3>1, <3>2 DEF s
    <3> QED
      BY <1>9, <3>1, <3>2, <3>3
  <2> QED
    BY <2>1, <2>2, <2>3 DEF Located
<1>13. b.used = Cardinality(b.held) /\ b.used \in 0..n
  <2>1. Cardinality(a.held \ {i}) = Cardinality(a.held) - 1
    BY <1>2, FS_RemoveElement
  <2>2. b.used = Cardinality(b.held)
    BY <1>9, <2>1 DEF ArenaInv
  <2>3. Cardinality(b.held) <= n /\ Cardinality(b.held) \in Nat
    BY <1>2, <1>10, <1>11, <1>12, LocatedCount
  <2> QED
    BY <2>2, <2>3
<1>14. Zero(b.slot) = Zero(a.slot) \cup {s}
  <2>1. Zero(b.slot) = {r \in 1..n : b.slot[r] = 0} /\ Zero(a.slot) = {r \in 1..n : a.slot[r] = 0}
    BY <1>2, <1>10 DEF Zero
  <2> QED
    BY <1>3, <1>10, <2>1
<1>15. /\ Len(b.free_index) = Len(a.free_index) + 1 /\ Len(a.free_index) \in Nat
       /\ b.free_index[1] = i
       /\ \A k \in DOMAIN b.free_index :
            k = 1 \/ (k - 1 \in DOMAIN a.free_index /\ b.free_index[k] = a.free_index[k - 1])
  <2> DEFINE f == a.free_index
             g == b.free_index
  <2>1. f \in Seq(Int) /\ g = <<i>> \o f
    BY <1>2, <1>9
  <2> HIDE DEF f, g
  <2>2. /\ DOMAIN f = 1..Len(f) /\ Len(f) \in Nat /\ Len(g) = Len(f) + 1
        /\ g[1] = i /\ DOMAIN g = 1..(Len(f) + 1)
        /\ \A k \in 1..Len(f) : g[k + 1] = f[k]
    BY <2>1
  <2>3. ASSUME NEW k \in DOMAIN g, k # 1
        PROVE  k - 1 \in DOMAIN f /\ g[k] = f[k - 1]
    <3>1. k - 1 \in 1..Len(f) /\ (k - 1) + 1 = k
      BY <2>2, <2>3
    <3> QED
      BY <2>2, <3>1
  <2>4. /\ Len(g) = Len(f) + 1 /\ Len(f) \in Nat /\ g[1] = i
        /\ \A k \in DOMAIN g : k = 1 \/ (k - 1 \in DOMAIN f /\ g[k] = f[k - 1])
    BY <2>2, <2>3
  <2> QED
    BY <2>4 DEF f, g
<1>16. Nowhere(b.free_index, b.table, n - b.used)
  <2> SUFFICES ASSUME NEW k \in DOMAIN b.free_index, k > n - b.used
               PROVE  ~ IsPointer(b.table[b.free_index[k]])
    BY DEF Nowhere
  <2>1. DOMAIN b.free_index \subseteq Nat
    BY <1>9 DEF Fields
  <2>2. k \in Nat /\ k # 1 /\ k - 1 > n - a.used
    <3>1. a.used <= n /\ n \in Nat /\ a.used \in Nat
      BY <1>1, <1>2, <1>5 DEF ArenaType
    <3>2. k \in Nat /\ k > n - (a.used - 1)
      BY <1>9, <2>1
    <3> QED
      BY <3>1, <3>2
  <2>3. k - 1 \in DOMAIN a.free_index /\ b.free_index[k] = a.free_index[k - 1]
    BY <1>15, <2>2
  <2>4. ~ IsPointer(a.table[a.free_index[k - 1]])
    BY <1>5, <2>2, <2>3 DEF ArenaInv, Nowhere
  <2> QED
    BY <1>9, <2>3, <2>4
<1>17. ArenaType(b)
  <2>1. b.allocated \in BOOLEAN /\ b.used \in 0..Size(b) /\ Size(b) <= TableSize(b)
    BY <1>2, <1>9, <1>10, <1>11, <1>13 DEF Fields
  <2>2. \A r \in DOMAIN b.slot : b.slot[r] \in 0..TableSize(b) \cup {Stale}
    <3>1. \A r \in 1..n : a.slot[r] \in 0..t \cup {Stale}
      BY <1>1, <1>2, <1>5 DEF ArenaType
    <3>2. 0 \in 0..t
      BY <1>2
    <3> QED
      BY <1>10, <1>11, <3>1, <3>2
  <2>3. \A j \in DOMAIN b.table : b.table[j] \in 0..Size(b) \cup {Stale}
    BY <1>1, <1>5, <1>9, <1>10 DEF ArenaType
  <2>4. \A k \in DOMAIN b.free : b.free[k] \in 1..Size(b) \cup {Stale}
    <3> DEFINE f == a.free
               g == b.free
    <3>1. f \in Seq(Int) /\ g = <<s>> \o f /\ s \in 1..n
      BY <1>2, <1>3, <1>9
    <3>2. \A k \in DOMAIN f : f[k] \in 1..n \cup {Stale}
      BY <1>1, <1>5 DEF ArenaType
    <3> HIDE DEF f, g
    <3>3. /\ DOMAIN f = 1..Len(f) /\ Len(f) \in Nat
          /\ g[1] = s /\ DOMAIN g = 1..(Len(f) + 1)
          /\ \A k \in 1..Len(f) : g[k + 1] = f[k]
      BY <3>1
    <3>4. ASSUME NEW k \in DOMAIN g, k # 1 PROVE g[k] \in 1..n \cup {Stale}
      <4>1. k - 1 \in 1..Len(f) /\ (k - 1) + 1 = k
        BY <3>3, <3>4
      <4> QED
        BY <3>2, <3>3, <4>1
    <3> QED
      BY <1>10, <3>1, <3>3, <3>4 DEF g
  <2>5. \A k \in DOMAIN b.free_index : b.free_index[k] \in 1..TableSize(b)
    BY <1>7, <1>9, <1>11 DEF Lists
  <2>6. b.held \subseteq 1..TableSize(b)
    BY <1>11, <1>12 DEF Located
  <2> QED
    BY <2>1, <2>2, <2>3, <2>4, <2>5, <2>6 DEF ArenaType
<1>18. ArenaInv(b, min)
  <2>1. n \in Doublings(min) /\ t \in Doublings(n)
    BY <1>5 DEF ArenaInv
  <2>2. Begins(b.free, Zero(b.slot))
    BY <1>6, <1>9, <1>14
  <2>3. Lists(b.free_index, t, b.held) /\ Len(b.free_index) = t - b.used
    <3>1. Len(a.free_index) = t - a.used
      BY <1>5 DEF ArenaInv
    <3> QED
      BY <1>2, <1>7, <1>9, <1>15, <3>1
  <2> QED
    BY <1>9, <1>10, <1>11, <1>12, <1>13, <1>16, <1>17, <2>1, <2>2, <2>3 DEF ArenaInv
<1>19. DecreaseFaults(b) => DecreaseFaults(a)
  <2>1. \A r \in 1..n : b.slot[r] = Stale => a.slot[r] = Stale
    BY <1>10 DEF Stale
  <2> QED
    BY <1>2, <1>10, <2>1 DEF DecreaseFaults
<1> QED
  BY <1>4, <1>5, <1>9, <1>10, <1>18, <1>19 DEF b, s

LEMMA FunctionIsSeq ==
    ASSUME NEW n \in Nat, NEW f \in [1..n -> Int]
    PROVE  f \in Seq(Int) /\ Len(f) = n
  OBVIOUS

\* A sequence with zeros behind it.
IsPadded(w, v, n) ==
    /\ w \in Seq(Int) /\ Len(w) = Len(v) + n
    /\ \A i \in 1..Len(v) : w[i] = v[i]
    /\ \A i \in (Len(v) + 1)..(Len(v) + n) : w[i] = 0

LEMMA Padded ==
    ASSUME NEW n \in Nat, NEW v \in Seq(Int)
    PROVE  IsPadded(v \o Zeros(n), v, n)
<1> DEFINE z == Zeros(n)
           w == v \o z
<1>1. z \in Seq(Int) /\ Len(z) = n /\ \A k \in 1..n : z[k] = 0
  BY DEF Zeros
<1> HIDE DEF z
<1>2. Len(v) \in Nat
  OBVIOUS
<1>3. /\ w \in Seq(Int) /\ Len(w) = Len(v) + n
      /\ \A i \in 1..(Len(v) + n) : w[i] = IF i <= Len(v) THEN v[i] ELSE z[i - Len(v)]
  <2>1. /\ w \in Seq(Int) /\ Len(w) = Len(v) + Len(z)
        /\ \A i \in 1..(Len(v) + Len(z)) : w[i] = IF i <= Len(v) THEN v[i] ELSE z[i - Len(v)]
    BY <1>1, ConcatProperties
  <2> QED
    BY <1>1, <2>1
<1> HIDE DEF w
<1>4. ASSUME NEW i \in (Len(v) + 1)..(Len(v) + n) PROVE w[i] = 0
  <2>1. i - Len(v) \in 1..n /\ i \in 1..(Len(v) + n) /\ ~ (i <= Len(v))
    BY <1>2
  <2> QED
    BY <1>1, <1>3, <2>1
<1>5. ASSUME NEW i \in 1..Len(v) PROVE w[i] = v[i]
  BY <1>2, <1>3
<1>6. IsPadded(w, v, n)
  BY <1>3, <1>4, <1>5 DEF IsPadded
<1> QED
  BY <1>6 DEF w, z

\* What holds when an arena without room can be enlarged: every slot is in use, and
\* the low indices are.
LEMMA FullArena ==
    ASSUME NEW min \in Nat \ {0}, NEW a, ArenaInv(a, min),
           a.used = Size(a), ~ IncreaseFaults(a)
    PROVE  /\ a.held = 1..Size(a)
           /\ \A s \in 1..Size(a) : a.slot[s] \in 1..Size(a) /\ a.table[a.slot[s]] = s
           /\ \A i \in 1..Size(a) : a.table[i] \in 1..Size(a) /\ a.slot[a.table[i]] = i
           /\ \A i \in (Size(a) + 1)..TableSize(a) : ~ IsPointer(a.table[i])
<1> DEFINE n == Size(a)
           t == TableSize(a)
           h == a.held
<1>1. Located(h, a.table, a.slot) /\ Lists(a.free_index, t, h) /\ a.used = Cardinality(h)
  BY DEF ArenaInv
<1>2. /\ n \in Nat \ {0} /\ t \in Nat \ {0} /\ n <= t
      /\ DOMAIN a.slot = 1..n /\ DOMAIN a.table = 1..t /\ h \subseteq 1..t
      /\ IsFiniteSet(h) /\ a.free_index \in Seq(Int)
  BY ArenaFacts
<1>3. Nowhere(a.free_index, a.table, 0)
  BY <1>2 DEF ArenaInv
<1>4. \A i \in 1..n : IsPointer(a.table[i])
  BY DEF IncreaseFaults
<1>5. Cardinality(h) = n
  BY <1>1
<1> HIDE DEF n, t, h
<1>6. InUse(a.slot) = 1..n
  BY <1>1, <1>2, <1>5, LocatedCount
<1>7. \A i \in (1..t) \ h : ~ IsPointer(a.table[i])
  <2> TAKE i \in (1..t) \ h
  <2>1. PICK k \in DOMAIN a.free_index : a.free_index[k] = i
    BY <1>1 DEF Lists
  <2>2. k > 0
    BY <1>2, <2>1
  <2> QED
    BY <1>3, <2>1, <2>2 DEF Nowhere
<1>8. 1..n \subseteq h
  BY <1>2, <1>4, <1>7
<1>9. h = 1..n
  <2> DEFINE J == 1..n
  <2>1. J \subseteq h /\ Cardinality(J) = n
    <3>1. 1 \in Int /\ n \in Int
      BY <1>2
    <3>2. Cardinality(1..n) = IF 1 > n THEN 0 ELSE n - 1 + 1
      BY <3>1, FS_Interval
    <3> QED
      BY <1>2, <1>8, <3>2
  <2> HIDE DEF J
  <2>2. Cardinality(J) = Cardinality(h) => J = h
    BY <1>2, <2>1, FS_Subset
  <2> QED
    BY <1>5, <2>1, <2>2 DEF J
<1>10. \A s \in 1..n : a.slot[s] \in 1..n /\ a.table[a.slot[s]] = s
  BY <1>1, <1>2, <1>6, <1>9 DEF Located, InUse
<1>11. \A i \in 1..n : a.table[i] \in 1..n /\ a.slot[a.table[i]] = i
  BY <1>1, <1>2, <1>9 DEF Located
<1>12. \A i \in (n + 1)..t : ~ IsPointer(a.table[i])
  <2> TAKE i \in (n + 1)..t
  <2>1. i \in (1..t) \ h
    BY <1>2, <1>9
  <2> QED
    BY <1>7, <2>1
<1> QED
  BY <1>9, <1>10, <1>11, <1>12 DEF n, t, h

\* An enlarged arena, part by part.
LEMMA DoubledParts ==
    ASSUME NEW min \in Nat \ {0}, NEW a, ArenaInv(a, min),
           a.used = Size(a), ~ IncreaseFaults(a), NEW moved \in BOOLEAN,
           NEW b, b = Doubled(a, moved), NEW n, n = Size(a), NEW t, t = TableSize(a)
    PROVE  /\ b \in Fields /\ b.allocated = a.allocated /\ b.used = n /\ b.held = 1..n
           /\ Size(b) = 2 * n /\ DOMAIN b.slot = 1..(2 * n)
           /\ \A s \in 1..n : b.slot[s] = a.slot[s]
           /\ \A s \in (n + 1)..(2 * n) : b.slot[s] = 0
           /\ TableSize(b) = IF t = n THEN 2 * n ELSE t
           /\ DOMAIN b.table = 1..TableSize(b)
           /\ \A i \in 1..n : b.table[i] = a.table[i]
           /\ \A i \in (n + 1)..TableSize(b) : b.table[i] \in {0, Stale}
           /\ b.free = Interval(n + 1, 2 * n)
           /\ b.free_index = IF t = n THEN Interval(n + 1, 2 * n) ELSE a.free_index
<1> DEFINE table == IF TableSize(a) = a.used THEN a.table \o Zeros(Size(a)) ELSE a.table
           Told(s) == {i \in 1..Size(a) : table[i] = s}
           low == [s \in 1..Size(a) |->
                     IF Told(s) = {} THEN a.slot[s]
                     ELSE CHOOSE i \in Told(s) : \A j \in Told(s) : j <= i]
           slot == low \o Zeros(Size(a))
           new == [i \in DOMAIN table |-> IF moved /\ ~ IsPointer(table[i]) THEN Stale
                                           ELSE table[i]]
           free == Interval(Size(a) + 1, 2 * Size(a))
           index == IF TableSize(a) = a.used
                    THEN Interval(Size(a) + 1, 2 * Size(a)) \o a.free_index
                    ELSE a.free_index
<1>1. /\ n \in Nat \ {0} /\ t \in Nat \ {0} /\ n <= t
      /\ DOMAIN a.slot = 1..n /\ a.slot \in Seq(Int)
      /\ DOMAIN a.table = 1..t /\ a.table \in Seq(Int)
      /\ a.free_index \in Seq(Int) /\ a.used = n
  BY ArenaFacts
<1>2. /\ a.held = 1..n
      /\ \A s \in 1..n : a.slot[s] \in 1..n /\ a.table[a.slot[s]] = s
      /\ \A i \in 1..n : a.table[i] \in 1..n /\ a.slot[a.table[i]] = i
      /\ \A i \in (n + 1)..t : ~ IsPointer(a.table[i])
  BY FullArena
<1>3. a \in Fields /\ Len(a.free_index) = t - n
  BY <1>1 DEF ArenaInv
<1>4. b = With(a, a.used, slot, new, free, index, a.held)
  <2>1. b = [a EXCEPT !.slot = slot, !.table = new, !.free = free, !.free_index = index]
    BY DEF Doubled
  <2> HIDE DEF slot, new, free, index
  <2> QED
    BY <1>3, <2>1 DEF With, Fields
<1>5. /\ table \in Seq(Int) /\ Len(table) = (IF t = n THEN 2 * n ELSE t)
      /\ \A i \in 1..n : table[i] = a.table[i]
      /\ \A i \in (n + 1)..Len(table) : ~ IsPointer(table[i])
  <2> DEFINE v == a.table
  <2>1. v \in Seq(Int) /\ Len(v) = t
    BY <1>1
  <2>2. CASE t = n
    <3>1. table = v \o Zeros(n)
      BY <1>1, <2>2
    <3> HIDE DEF table, v
    <3>2. /\ table \in Seq(Int) /\ Len(table) = t + n
          /\ \A i \in 1..t : table[i] = v[i]
          /\ \A i \in (t + 1)..(t + n) : table[i] = 0
      <4>1. n \in Nat /\ v \in Seq(Int)
        BY <1>1, <2>1
      <4>2. IsPadded(v \o Zeros(n), v, n)
        BY <4>1, Padded
      <4> QED
        BY <2>1, <3>1, <4>2 DEF IsPadded
    <3> QED
      BY <1>1, <2>2, <3>2 DEF IsPointer, v
  <2>3. CASE t # n
    <3>1. table = v
      BY <1>1, <2>3
    <3> HIDE DEF table
    <3> QED
      BY <1>1, <1>2, <2>1, <2>3, <3>1
  <2> QED
    BY <2>2, <2>3
<1> HIDE DEF table
<1>6. ASSUME NEW s \in 1..n PROVE Told(s) = {a.slot[s]}
  BY <1>2, <1>5
<1>7. \A s \in 1..n : low[s] = a.slot[s]
  <2> TAKE s \in 1..n
  <2> DEFINE x == a.slot[s]
  <2>1. x \in 1..n /\ Told(s) = {x}
    BY <1>2, <1>6
  <2>2. (CHOOSE i \in {x} : \A j \in {x} : j <= i) = x
    BY <1>1, <2>1
  <2> QED
    BY <2>1, <2>2
<1>8. low \in Seq(Int) /\ Len(low) = n
  <2>1. \A s \in 1..n : low[s] \in Int
    <3> HIDE DEF low
    <3> QED
      BY <1>1, <1>2, <1>7
  <2>2. low = [s \in 1..n |-> low[s]]
    <3> DEFINE e(s) == IF Told(s) = {} THEN a.slot[s]
                       ELSE CHOOSE i \in Told(s) : \A j \in Told(s) : j <= i
    <3>1. low = [s \in 1..n |-> e(s)]
      OBVIOUS
    <3> HIDE DEF low, e
    <3> QED
      BY <3>1
  <2> HIDE DEF low
  <2>3. low \in [1..n -> Int]
    BY <2>1, <2>2
  <2>4. n \in Nat
    BY <1>1
  <2> QED
    BY <2>3, <2>4, FunctionIsSeq
<1> HIDE DEF low
<1>9. /\ slot \in Seq(Int) /\ Len(slot) = 2 * n
      /\ \A s \in 1..n : slot[s] = a.slot[s]
      /\ \A s \in (n + 1)..(2 * n) : slot[s] = 0
  <2>1. n \in Nat /\ slot = low \o Zeros(n)
    BY <1>1
  <2> HIDE DEF slot
  <2>2. /\ slot \in Seq(Int) /\ Len(slot) = n + n
        /\ \A i \in 1..n : slot[i] = low[i]
        /\ \A i \in (n + 1)..(n + n) : slot[i] = 0
    <3>1. IsPadded(low \o Zeros(n), low, n)
      BY <1>8, <2>1, Padded
    <3> QED
      BY <1>8, <2>1, <3>1 DEF IsPadded
  <2>3. 2 * n = n + n
    BY <2>1
  <2>4. \A s \in 1..n : slot[s] = a.slot[s]
    BY <1>7, <2>2
  <2> QED
    BY <2>2, <2>3, <2>4
<1>10. /\ new \in Seq(Int) /\ Len(new) = Len(table)
       /\ \A i \in 1..n : new[i] = a.table[i]
       /\ \A i \in (n + 1)..Len(table) : new[i] \in {0, Stale}
  <2>1. DOMAIN table = 1..Len(table) /\ Len(table) \in Nat /\ n <= Len(table)
    BY <1>1, <1>5
  <2>2. new = [i \in 1..Len(table) |-> IF moved /\ ~ IsPointer(table[i]) THEN Stale ELSE table[i]]
    BY <2>1
  <2>3. \A i \in 1..Len(table) : table[i] \in Int
    BY <1>5, <2>1
  <2> HIDE DEF new
  <2>4. new \in Seq(Int) /\ Len(new) = Len(table)
    BY <2>1, <2>2, <2>3 DEF Stale
  <2>5. ASSUME NEW i \in 1..n PROVE new[i] = a.table[i]
    <3>1. i \in 1..Len(table) /\ table[i] = a.table[i] /\ a.table[i] \in 1..n
      BY <1>1, <1>2, <1>5, <2>1
    <3>2. IsPointer(table[i])
      BY <1>1, <3>1 DEF IsPointer, Stale
    <3> QED
      BY <2>2, <3>1, <3>2
  <2>6. ASSUME NEW i \in (n + 1)..Len(table) PROVE new[i] \in {0, Stale}
    <3>1. i \in 1..Len(table)
      BY <1>1, <2>1
    <3> QED
      BY <1>5, <2>2, <3>1 DEF IsPointer
  <2> QED
    BY <2>4, <2>5, <2>6
<1>11. free \in Seq(Int) /\ index \in Seq(Int)
       /\ index = (IF t = n THEN free ELSE a.free_index)
  <2>1. n + 1 \in Nat /\ 2 * n \in Nat /\ n + 1 <= 2 * n + 1
    BY <1>1
  <2> DEFINE m == n + 1
             l == 2 * n
             f == a.free_index
  <2>2. m \in Nat /\ l \in Nat /\ m <= l + 1 /\ m..l \subseteq Int
    BY <2>1
  <2> HIDE DEF m, l
  <2>3. Interval(m, l) \in Seq(m..l)
    BY <2>2, IntervalFacts
  <2>4. Interval(m, l) \in Seq(Int)
    BY <2>2, <2>3
  <2>5. f \in Seq(Int) /\ (t = n => Len(f) = 0)
    BY <1>1, <1>3
  <2> HIDE DEF f
  <2>6. t = n => f = <<>>
    BY <2>5
  <2>7. t = n => Interval(m, l) \o f = Interval(m, l)
    BY <2>4, <2>6, ConcatEmptySeq
  <2> QED
    BY <1>1, <2>4, <2>5, <2>7 DEF m, l, f
<1> HIDE DEF slot, new, free, index
<1>13. a.used \in Nat /\ a \in Fields /\ a.held \in SUBSET Int
  BY <1>1, <1>2, <1>3
<1>14. /\ b \in Fields /\ b.allocated = a.allocated /\ b.used = n
       /\ b.slot = slot /\ b.table = new /\ b.free = free /\ b.free_index = index
       /\ b.held = a.held
  <2>1. slot \in Seq(Int) /\ new \in Seq(Int) /\ free \in Seq(Int) /\ index \in Seq(Int)
    BY <1>9, <1>10, <1>11
  <2>2. /\ b \in Fields /\ b.allocated = a.allocated /\ b.used = a.used
        /\ b.slot = slot /\ b.table = new /\ b.free = free /\ b.free_index = index
        /\ b.held = a.held
    BY <1>4, <1>13, <2>1, WithParts
  <2> QED
    BY <1>1, <2>2
<1>15. /\ Size(b) = 2 * n /\ DOMAIN b.slot = 1..(2 * n)
       /\ TableSize(b) = Len(table) /\ DOMAIN b.table = 1..Len(table)
  BY <1>9, <1>10, <1>14 DEF Size, TableSize
<1>16. b.free = Interval(n + 1, 2 * n)
       /\ b.free_index = IF t = n THEN Interval(n + 1, 2 * n) ELSE a.free_index
  BY <1>11, <1>14 DEF free
<1> QED
  BY <1>2, <1>5, <1>9, <1>10, <1>14, <1>15, <1>16

\* newNode enlarges an arena.
LEMMA DoubledInv ==
    ASSUME NEW min \in Nat \ {0}, NEW a, ArenaInv(a, min),
           a.used = Size(a), ~ IncreaseFaults(a), NEW moved \in BOOLEAN
    PROVE  /\ ArenaInv(Doubled(a, moved), min)
           /\ Doubled(a, moved).allocated = a.allocated
           /\ Doubled(a, moved).used = a.used
           /\ Size(Doubled(a, moved)) = 2 * Size(a)
           /\ ~ DecreaseFaults(Doubled(a, moved))
<1> DEFINE b == Doubled(a, moved)
           n == Size(a)
           t == TableSize(a)
           m == 2 * n
           l == TableSize(b)
<1>1. /\ b \in Fields /\ b.allocated = a.allocated /\ b.used = n /\ b.held = 1..n
      /\ Size(b) = m /\ DOMAIN b.slot = 1..m
      /\ \A s \in 1..n : b.slot[s] = a.slot[s]
      /\ \A s \in (n + 1)..m : b.slot[s] = 0
      /\ l = (IF t = n THEN m ELSE t)
      /\ DOMAIN b.table = 1..l
      /\ \A i \in 1..n : b.table[i] = a.table[i]
      /\ \A i \in (n + 1)..l : b.table[i] \in {0, Stale}
      /\ b.free = Interval(n + 1, m)
      /\ b.free_index = (IF t = n THEN Interval(n + 1, m) ELSE a.free_index)
  BY DoubledParts
<1>2. /\ n \in Nat \ {0} /\ t \in Nat \ {0} /\ n <= t /\ a.free_index \in Seq(Int)
      /\ a.used = n
  BY ArenaFacts
<1>3. /\ a.held = 1..n
      /\ \A s \in 1..n : a.slot[s] \in 1..n /\ a.table[a.slot[s]] = s
      /\ \A i \in 1..n : a.table[i] \in 1..n /\ a.slot[a.table[i]] = i
  BY FullArena
<1>4. /\ n \in Doublings(min) /\ t \in Doublings(n)
      /\ Lists(a.free_index, t, a.held) /\ Len(a.free_index) = t - a.used
      /\ a.used = Cardinality(a.held)
  BY DEF ArenaInv
<1>5. m \in Nat /\ l \in Nat /\ m \in Doublings(min) /\ l \in Doublings(m) /\ m <= l
  <2>1. m \in Nat /\ m \in Doublings(min)
    BY <1>2, <1>4, DoublingsNext
  <2>2. m \in Doublings(m)
    BY <2>1, DoublingsStart
  <2>3. t # n => t \in Doublings(m)
    BY <1>2, <1>4, DoublingsAfter
  <2>4. l \in Doublings(m)
    BY <1>1, <2>2, <2>3
  <2> HIDE DEF m, l
  <2>5. l \in Nat /\ m <= l
    BY <2>1, <2>4, DoublingsBound
  <2> QED
    BY <2>1, <2>4, <2>5
<1>6. m = n + n
  BY <1>2
<1>7. /\ Size(a) = n /\ TableSize(a) = t /\ TableSize(b) = l
  OBVIOUS
<1>8. /\ Interval(n + 1, m) \in Seq((n + 1)..m)
      /\ Len(Interval(n + 1, m)) = n
      /\ \A k \in 1..n : Interval(n + 1, m)[k] = n + k
      /\ Begins(Interval(n + 1, m), (n + 1)..m)
  <2> DEFINE first == n + 1
  <2>4. n \in Nat /\ m = n + n
    BY <1>2, <1>6
  <2> HIDE DEF n, m
  <2>1. first \in Nat /\ m \in Nat /\ first <= m + 1 /\ m - first + 1 = n
    BY <2>4
  <2>2. \A k \in 1..n : first + k - 1 = n + k
    BY <2>4
  <2> HIDE DEF first
  <2>3. /\ Interval(first, m) \in Seq(first..m)
        /\ Len(Interval(first, m)) = m - first + 1
        /\ \A k \in 1..(m - first + 1) : Interval(first, m)[k] = first + k - 1
        /\ Begins(Interval(first, m), first..m)
    BY <2>1, IntervalFacts
  <2> QED
    BY <2>1, <2>2, <2>3 DEF first
<1> HIDE DEF b, n, t, m, l
<1>9. Located(b.held, b.table, b.slot)
  <2>1. b.held \subseteq DOMAIN b.table
    BY <1>1, <1>2, <1>5, <1>6
  <2>2. ASSUME NEW j \in b.held PROVE b.table[j] \in DOMAIN b.slot /\ b.slot[b.table[j]] = j
    <3>1. j \in 1..n /\ b.table[j] = a.table[j] /\ a.table[j] \in 1..n
      BY <1>1, <1>3
    <3>2. b.slot[a.table[j]] = j
      BY <1>1, <1>3, <3>1
    <3> QED
      BY <1>1, <1>2, <1>6, <3>1, <3>2
  <2>3. ASSUME NEW r \in DOMAIN b.slot, b.slot[r] \notin {0, Stale}
        PROVE  b.slot[r] \in b.held /\ b.table[b.slot[r]] = r
    <3>1. r \in 1..n
      <4>1. r \in 1..m /\ r \notin (n + 1)..m
        BY <1>1, <2>3
      <4> QED
        BY <1>2, <1>5, <4>1
    <3>2. b.slot[r] = a.slot[r] /\ a.slot[r] \in 1..n /\ a.table[a.slot[r]] = r
      BY <1>1, <1>3, <3>1
    <3> QED
      BY <1>1, <3>2
  <2> QED
    BY <2>1, <2>2, <2>3 DEF Located
<1>10. Zero(b.slot) = (n + 1)..m /\ \A s \in 1..m : b.slot[s] # Stale
  <2>1. Zero(b.slot) = {r \in 1..m : b.slot[r] = 0}
    BY <1>1 DEF Zero
  <2>2. \A s \in 1..n : b.slot[s] \in 1..n
    BY <1>1, <1>3
  <2>3. \A s \in 1..m : s \in 1..n \/ s \in (n + 1)..m
    BY <1>2, <1>5
  <2>4. \A s \in 1..m : b.slot[s] = 0 <=> s \in (n + 1)..m
    BY <1>1, <1>2, <1>5, <2>2, <2>3
  <2>5. (n + 1)..m \subseteq 1..m
    BY <1>2, <1>5
  <2>6. \A s \in 1..m : b.slot[s] # Stale
    <3>1. ASSUME NEW s \in 1..m PROVE b.slot[s] # Stale
      <4>1. CASE s \in 1..n
        <5>1. b.slot[s] \in 1..n
          BY <2>2, <4>1
        <5> QED
          BY <5>1 DEF Stale
      <4>2. CASE s \notin 1..n
        <5>1. b.slot[s] = 0
          BY <2>3, <2>4, <4>2
        <5> QED
          BY <5>1 DEF Stale
      <4> QED
        BY <4>1, <4>2
    <3> QED
      BY <3>1
  <2> QED
    BY <2>1, <2>4, <2>5, <2>6
<1>11. /\ Lists(b.free_index, l, b.held) /\ Len(b.free_index) = l - n
       /\ Nowhere(b.free_index, b.table, n)
  <2>1. CASE t = n
    <3> DEFINE f == b.free_index
    <3>1. /\ f \in Seq((n + 1)..m) /\ Len(f) = n /\ DOMAIN f = 1..n
          /\ \A k \in 1..n : f[k] = n + k
      BY <1>1, <1>8, <2>1
    <3> HIDE DEF f
    <3>2. \A k, j \in 1..n : f[k] = f[j] => k = j
      BY <1>2, <3>1
    <3>3. {f[k] : k \in 1..n} = (1..m) \ (1..n)
      <4>1. ASSUME NEW i \in (1..m) \ (1..n) PROVE \E k \in 1..n : i = f[k]
        <5>1. i - n \in 1..n /\ n + (i - n) = i
          BY <1>2, <1>6
        <5> QED
          BY <3>1, <5>1
      <4>2. ASSUME NEW k \in 1..n PROVE f[k] \in (1..m) \ (1..n)
        BY <1>2, <1>6, <3>1
      <4> QED
        BY <4>1, <4>2
    <3>4. l = m /\ l - n = n
      BY <1>1, <1>2, <1>6, <2>1
    <3>5. Lists(f, l, b.held)
      BY <1>1, <3>1, <3>2, <3>3, <3>4 DEF Lists
    <3>6. Nowhere(f, b.table, n)
      BY <1>2, <3>1 DEF Nowhere
    <3> QED
      BY <3>1, <3>4, <3>5, <3>6 DEF f
  <2>2. CASE t # n
    <3>1. b.free_index = a.free_index /\ l = t /\ b.held = a.held
      BY <1>1, <1>3, <2>2
    <3>2. Nowhere(b.free_index, b.table, n)
      <4> SUFFICES ASSUME NEW k \in DOMAIN b.free_index
                   PROVE  ~ IsPointer(b.table[b.free_index[k]])
        BY DEF Nowhere
      <4>1. b.free_index[k] \in (1..l) \ (1..n)
        BY <1>1, <1>4, <3>1 DEF Lists
      <4>2. b.free_index[k] \in (n + 1)..l
        BY <1>2, <1>5, <4>1
      <4> QED
        BY <1>1, <4>2 DEF IsPointer
    <3> QED
      BY <1>2, <1>4, <3>1, <3>2
  <2> QED
    BY <2>1, <2>2
<1>12. ArenaType(b)
  <2>1. b.allocated \in BOOLEAN /\ b.used \in 0..Size(b) /\ Size(b) <= TableSize(b)
    BY <1>1, <1>2, <1>5, <1>6, <1>7 DEF Fields
  <2>2. \A r \in DOMAIN b.slot : b.slot[r] \in 0..TableSize(b) \cup {Stale}
    <3>1. \A s \in 1..m : s \in 1..n \/ s \in (n + 1)..m
      BY <1>2, <1>5
    <3>2. \A s \in 1..n : b.slot[s] \in 1..n
      BY <1>1, <1>3
    <3>3. 1..n \subseteq 0..l /\ 0 \in 0..l
      BY <1>2, <1>5, <1>6
    <3> QED
      BY <1>1, <1>7, <3>1, <3>2, <3>3
  <2>3. \A j \in DOMAIN b.table : b.table[j] \in 0..Size(b) \cup {Stale}
    <3>1. \A j \in 1..l : j \in 1..n \/ j \in (n + 1)..l
      BY <1>2, <1>5
    <3>2. \A j \in 1..n : b.table[j] \in 1..n
      BY <1>1, <1>3
    <3>3. 1..n \subseteq 0..m /\ 0 \in 0..m
      BY <1>2, <1>5, <1>6
    <3> QED
      BY <1>1, <3>1, <3>2, <3>3
  <2>4. \A k \in DOMAIN b.free : b.free[k] \in 1..Size(b) \cup {Stale}
    <3>1. DOMAIN b.free = 1..n /\ \A k \in 1..n : b.free[k] = n + k
      BY <1>1, <1>8
    <3>2. \A k \in 1..n : n + k \in 1..m
      BY <1>2, <1>6
    <3>3. Size(b) = m
      BY <1>1
    <3> QED
      BY <3>1, <3>2, <3>3
  <2>5. \A k \in DOMAIN b.free_index : b.free_index[k] \in 1..TableSize(b)
    BY <1>7, <1>11 DEF Lists
  <2>6. b.held \subseteq 1..TableSize(b)
    BY <1>1, <1>2, <1>5, <1>6, <1>7
  <2> QED
    BY <2>1, <2>2, <2>3, <2>4, <2>5, <2>6 DEF ArenaType
<1>13. ArenaInv(b, min)
  <2>1. b.used = Cardinality(b.held)
    BY <1>1, <1>2, <1>3, <1>4
  <2>2. Begins(b.free, Zero(b.slot))
    BY <1>1, <1>8, <1>10
  <2>3. Size(b) - b.used = n
    BY <1>1, <1>2, <1>6
  <2> QED
    BY <1>1, <1>5, <1>7, <1>9, <1>11, <1>12, <2>1, <2>2, <2>3 DEF ArenaInv
<1>14. ~ DecreaseFaults(b)
  BY <1>1, <1>10 DEF DecreaseFaults
<1> QED
  BY <1>1, <1>2, <1>7, <1>13, <1>14 DEF b, m

-----------------------------------------------------------------------------
(* Where nodeMemDecrease moves the structs.                                 *)

Filled(slot, s) == {t \in 1..s : slot[t] # 0}

Rank(slot, s) == Cardinality(Filled(slot, s))

LEMMA FilledFinite ==
    ASSUME NEW slot, NEW s \in Nat
    PROVE  IsFiniteSet(Filled(slot, s)) /\ Rank(slot, s) \in Nat
<1> DEFINE J == 1..s
           T == Filled(slot, s)
<1>1. 1 \in Int /\ s \in Int
  OBVIOUS
<1>2. IsFiniteSet(J)
  BY <1>1, FS_Interval
<1>3. T \in SUBSET J
  BY DEF Filled
<1> HIDE DEF J, T
<1>4. IsFiniteSet(T)
  BY <1>2, <1>3, FS_Subset
<1>5. Cardinality(T) \in Nat
  BY <1>4, FS_CardinalityType
<1> QED
  BY <1>4, <1>5 DEF T, Rank

\* Structs keep their order.
LEMMA RankOrder ==
    ASSUME NEW slot, NEW r \in Nat, NEW s \in Nat, r < s, slot[s] # 0
    PROVE  Rank(slot, r) < Rank(slot, s)
<1> DEFINE R == Filled(slot, r)
           T == Filled(slot, s)
           Q == R \cup {s}
<1>1. IsFiniteSet(R) /\ IsFiniteSet(T) /\ Cardinality(R) \in Nat /\ Cardinality(T) \in Nat
  BY FilledFinite DEF Rank
<1>2. s \notin R /\ Q \in SUBSET T
  BY DEF Filled
<1> HIDE DEF R, T
<1>3. Cardinality(Q) = Cardinality(R) + 1
  BY <1>1, <1>2, FS_AddElement
<1> HIDE DEF Q
<1>4. Cardinality(Q) <= Cardinality(T)
  BY <1>1, <1>2, FS_Subset
<1>5. Cardinality(R) < Cardinality(T)
  BY <1>1, <1>3, <1>4
<1> QED
  BY <1>5 DEF Rank, R, T

\* The slots in use are numbered from 1 to their number.
LEMMA RankOnto ==
    ASSUME NEW n \in Nat, NEW slot, NEW c, c = Rank(slot, n)
    PROVE  /\ \A s \in Filled(slot, n) : Rank(slot, s) \in 1..c
           /\ \A r, s \in Filled(slot, n) : Rank(slot, r) = Rank(slot, s) => r = s
           /\ \A k \in 1..c : \E s \in Filled(slot, n) : Rank(slot, s) = k
<1> DEFINE U == Filled(slot, n)
           K == 1..c
           f == [s \in U |-> Rank(slot, s)]
<1>1. IsFiniteSet(U) /\ c \in Nat /\ c = Cardinality(U)
  BY FilledFinite DEF Rank
<1>2. U \subseteq 1..n /\ \A s \in U : slot[s] # 0
  BY DEF Filled
<1>3. ASSUME NEW s \in U PROVE Rank(slot, s) \in 1..c
  <2>1. s \in Nat /\ 0 < s /\ slot[s] # 0 /\ s <= n
    BY <1>2
  <2>2. Rank(slot, 0) < Rank(slot, s) /\ Rank(slot, 0) \in Nat /\ Rank(slot, s) \in Nat
    BY <2>1, FilledFinite, RankOrder
  <2> DEFINE T == Filled(slot, s)
  <2>3. T \in SUBSET U
    BY <2>1 DEF Filled
  <2> HIDE DEF T, U
  <2>4. Cardinality(T) <= Cardinality(U)
    BY <1>1, <2>3, FS_Subset
  <2> QED
    BY <1>1, <2>2, <2>4 DEF Rank, T
<1>4. ASSUME NEW r \in U, NEW s \in U, Rank(slot, r) = Rank(slot, s) PROVE r = s
  <2>1. r \in Nat /\ s \in Nat /\ slot[r] # 0 /\ slot[s] # 0
    BY <1>2
  <2>2. Rank(slot, r) \in Nat /\ Rank(slot, s) \in Nat
    BY <2>1, FilledFinite
  <2>3. CASE r < s
    BY <1>4, <2>1, <2>2, <2>3, RankOrder
  <2>4. CASE s < r
    BY <1>4, <2>1, <2>2, <2>4, RankOrder
  <2> QED
    BY <2>1, <2>3, <2>4
<1>5. IsFiniteSet(K) /\ Cardinality(K) = c
  <2>1. 1 \in Int /\ c \in Int
    BY <1>1
  <2>2. IsFiniteSet(1..c) /\ Cardinality(1..c) = IF 1 > c THEN 0 ELSE c - 1 + 1
    BY <2>1, FS_Interval
  <2> QED
    BY <1>1, <2>2
<1>6. f \in Injection(U, K)
  <2> HIDE DEF U, K
  <2>1. \A s \in U : f[s] = Rank(slot, s) /\ f[s] \in K
    BY <1>3 DEF K
  <2> QED
    BY <1>4, <2>1 DEF Injection, IsInjective
<1> HIDE DEF U, K, f
<1>7. f \in Surjection(U, K)
  BY <1>1, <1>5, <1>6, FS_Injection
<1>8. \A k \in K : \E s \in U : f[s] = k
  BY <1>7 DEF Surjection
<1>9. \A s \in U : f[s] = Rank(slot, s)
  BY DEF f
<1>10. \A k \in 1..c : \E s \in U : Rank(slot, s) = k
  BY <1>8, <1>9 DEF K
<1> QED
  BY <1>3, <1>4, <1>10 DEF U

\* nodeMemDecrease moves the structs in use, and no other, to the first slots.
LEMMA MovedParts ==
    ASSUME NEW n \in Nat, NEW a, DOMAIN a.slot = 1..n, NEW c, c = Rank(a.slot, n)
    PROVE  /\ \A s \in Filled(a.slot, n) :
                Rank(a.slot, s) \in 1..c /\ MovedTo(a, Rank(a.slot, s)) = a.slot[s]
           /\ \A k \in 1..c :
                \E s \in Filled(a.slot, n) : Rank(a.slot, s) = k /\ MovedTo(a, k) = a.slot[s]
           /\ \A k \in Nat : k > c => MovedTo(a, k) = Stale
<1> DEFINE slot == a.slot
           U == Filled(slot, n)
           kept(k) == {s \in DOMAIN slot : /\ slot[s] # 0
                                           /\ Cardinality({t \in 1..s : slot[t] # 0}) = k}
<1>1. /\ \A s \in U : Rank(slot, s) \in 1..c
      /\ \A r, s \in U : Rank(slot, r) = Rank(slot, s) => r = s
      /\ \A k \in 1..c : \E s \in U : Rank(slot, s) = k
  BY RankOnto
<1>2. \A k : kept(k) = {s \in U : Rank(slot, s) = k}
  BY DEF Filled, Rank
<1>3. \A k : MovedTo(a, k) = IF kept(k) = {} THEN Stale ELSE slot[CHOOSE s \in kept(k) : TRUE]
  BY DEF MovedTo
<1> HIDE DEF kept, U, slot
<1>4. ASSUME NEW s \in U PROVE MovedTo(a, Rank(slot, s)) = slot[s]
  <2>1. kept(Rank(slot, s)) = {s}
    BY <1>1, <1>2
  <2>2. (CHOOSE r \in {s} : TRUE) = s
    OBVIOUS
  <2> QED
    BY <1>3, <2>1, <2>2
<1>5. ASSUME NEW k \in 1..c PROVE \E s \in U : Rank(slot, s) = k /\ MovedTo(a, k) = slot[s]
  BY <1>1, <1>4
<1>6. ASSUME NEW k \in Nat, k > c PROVE MovedTo(a, k) = Stale
  <2>1. c \in Nat
    BY FilledFinite DEF slot
  <2>2. k \notin 1..c
    BY <1>6, <2>1
  <2>3. kept(k) = {}
    BY <1>1, <1>2, <2>2
  <2> QED
    BY <1>3, <2>3
<1> QED
  BY <1>1, <1>4, <1>5, <1>6 DEF U, slot

\* A reduced arena, part by part.
LEMMA HalvedParts ==
    ASSUME NEW min \in Nat \ {0}, NEW a, ArenaInv(a, min), ~ DecreaseFaults(a),
           NEW m \in Nat, Size(a) = 2 * m, a.used <= m,
           NEW b, b = Halved(a), NEW t, t = TableSize(a)
    PROVE  /\ b \in Fields /\ b.allocated = a.allocated /\ b.used = a.used
           /\ b.held = a.held /\ b.free = <<Stale>> /\ b.free_index = a.free_index
           /\ Size(b) = m /\ DOMAIN b.slot = 1..m
           /\ TableSize(b) = t /\ DOMAIN b.table = 1..t
           /\ \A i \in a.held : b.table[i] \in 1..m /\ b.slot[b.table[i]] = i
           /\ \A i \in (1..t) \ a.held : b.table[i] \in {0, Stale}
           /\ \A s \in 1..a.used : b.slot[s] \in a.held /\ b.table[b.slot[s]] = s
           /\ \A s \in 1..m : s > a.used => b.slot[s] = Stale
<1> DEFINE n == Size(a)
           c == a.used
           h == a.held
           old == a.slot
           U == Filled(old, n)
           slot == [k \in 1..(Size(a) \div 2) |-> MovedTo(a, k)]
           table == [i \in DOMAIN a.table |->
                       IF \E k \in DOMAIN slot : slot[k] = i
                       THEN CHOOSE k \in DOMAIN slot : slot[k] = i
                       ELSE IF a.table[i] = 0 THEN 0 ELSE Stale]
           free == <<Stale>>
<1>1. /\ n \in Nat \ {0} /\ t \in Nat \ {0} /\ n <= t
      /\ DOMAIN a.slot = 1..n /\ DOMAIN a.table = 1..t
      /\ a.free_index \in Seq(Int) /\ c \in Nat /\ h \subseteq 1..t
  BY ArenaFacts
<1>2. a \in Fields /\ Located(h, a.table, old) /\ c = Cardinality(h)
  BY DEF ArenaInv
<1>3. b = With(a, a.used, slot, table, free, a.free_index, a.held)
  <2>1. b = [a EXCEPT !.slot = slot, !.table = table, !.free = free]
    BY DEF Halved
  <2> HIDE DEF slot, table, free
  <2> QED
    BY <1>2, <2>1 DEF With, Fields
<1>4. \A s \in 1..n : old[s] # Stale
  BY <1>1 DEF DecreaseFaults
<1>5. U = InUse(old)
  BY <1>1, <1>4 DEF InUse, Filled
<1>6. c = Rank(old, n)
  <2> HIDE DEF n, c, h, old
  <2>1. Cardinality(InUse(old)) = Cardinality(h)
    <3>1. n \in Nat /\ t \in Nat /\ DOMAIN old = 1..n
      BY <1>1 DEF old
    <3> DEFINE v == a.table
    <3>2. DOMAIN v = 1..t /\ Located(h, v, old)
      BY <1>1, <1>2
    <3> HIDE DEF v
    <3> QED
      BY <3>1, <3>2, LocatedCount
  <2> QED
    BY <1>2, <1>5, <2>1 DEF Rank
<1>7. /\ \A s \in U : Rank(old, s) \in 1..c /\ MovedTo(a, Rank(old, s)) = old[s]
      /\ \A k \in 1..c : \E s \in U : Rank(old, s) = k /\ MovedTo(a, k) = old[s]
      /\ \A k \in Nat : k > c => MovedTo(a, k) = Stale
  <2> HIDE DEF n, c
  <2>1. n \in Nat /\ DOMAIN a.slot = 1..n /\ c = Rank(a.slot, n)
    BY <1>1, <1>6
  <2> QED
    BY <2>1, MovedParts
<1>8. /\ \A s \in U : old[s] \in h /\ a.table[old[s]] = s
      /\ \A i \in h : a.table[i] \in U /\ old[a.table[i]] = i
  <2>1. \A i \in h : i # 0 /\ i # Stale
    BY <1>1 DEF Stale
  <2> QED
    BY <1>1, <1>2, <1>5, <2>1 DEF Located, InUse
<1>9. n \div 2 = m /\ c <= m /\ n = 2 * m
  OBVIOUS
<1>10. slot = [k \in 1..m |-> MovedTo(a, k)]
  BY <1>9
<1> HIDE DEF n, c, h, old, U, slot
<1>11. ASSUME NEW k \in 1..c PROVE slot[k] \in h /\ k \in 1..m
  <2>1. k \in 1..m
    BY <1>1, <1>9
  <2>2. PICK s \in U : MovedTo(a, k) = old[s]
    BY <1>7
  <2> QED
    BY <1>8, <1>10, <2>1, <2>2
<1>12. ASSUME NEW k \in 1..m, k > c PROVE slot[k] = Stale
  BY <1>7, <1>10, <1>12
<1>13. ASSUME NEW k \in 1..m, NEW j \in 1..m, slot[k] = slot[j], slot[k] \in h PROVE k = j
  <2>1. k \in 1..c /\ j \in 1..c
    <3>1. \A i \in h : i # Stale
      BY <1>1 DEF Stale
    <3>2. slot[k] # Stale /\ slot[j] # Stale
      BY <1>13, <3>1
    <3>3. ~ (k > c) /\ ~ (j > c)
      BY <1>12, <3>2
    <3> QED
      BY <1>1, <3>3
  <2>2. PICK r \in U : Rank(old, r) = k /\ MovedTo(a, k) = old[r]
    BY <1>7, <2>1
  <2>3. PICK s \in U : Rank(old, s) = j /\ MovedTo(a, j) = old[s]
    BY <1>7, <2>1
  <2>4. r = s
    BY <1>8, <1>10, <1>13, <2>2, <2>3
  <2> QED
    BY <2>2, <2>3, <2>4
<1>14. ASSUME NEW i \in h PROVE \E k \in 1..m : slot[k] = i
  <2>1. a.table[i] \in U /\ old[a.table[i]] = i
    BY <1>8
  <2> DEFINE k == Rank(old, a.table[i])
  <2>2. k \in 1..c /\ MovedTo(a, k) = i
    BY <1>7, <2>1
  <2> HIDE DEF k
  <2>3. k \in 1..m
    BY <1>11, <2>2
  <2> QED
    BY <1>10, <2>2, <2>3
<1>15. DOMAIN slot = 1..m
  BY <1>10
<1>16. slot \in Seq(Int) /\ Len(slot) = m
  <2>1. ASSUME NEW k \in 1..m PROVE slot[k] \in Int
    <3>1. CASE k > c
      BY <1>12, <3>1 DEF Stale
    <3>2. CASE ~ (k > c)
      <4>1. k \in 1..c
        BY <1>1, <3>2
      <4>2. slot[k] \in 1..t
        BY <1>1, <1>11, <4>1
      <4> QED
        BY <4>2
    <3> QED
      BY <3>1, <3>2
  <2>2. slot = [k \in 1..m |-> slot[k]]
    BY <1>10
  <2>3. slot \in [1..m -> Int]
    BY <2>1, <2>2
  <2> QED
    BY <2>3, FunctionIsSeq
<1>17. ASSUME NEW i \in 1..t
       PROVE  table[i] = IF \E k \in 1..m : slot[k] = i
                         THEN CHOOSE k \in 1..m : slot[k] = i
                         ELSE IF a.table[i] = 0 THEN 0 ELSE Stale
  BY <1>1, <1>15
<1>18. DOMAIN table = 1..t
  BY <1>1
<1>24. table = [i \in 1..t |-> table[i]]
  <2> DEFINE e(i) == IF \E k \in DOMAIN slot : slot[k] = i
                     THEN CHOOSE k \in DOMAIN slot : slot[k] = i
                     ELSE IF a.table[i] = 0 THEN 0 ELSE Stale
  <2>1. table = [i \in 1..t |-> e(i)]
    BY <1>1
  <2> HIDE DEF table, e
  <2> QED
    BY <2>1
<1> HIDE DEF table
<1>19. ASSUME NEW i \in h PROVE table[i] \in 1..m /\ slot[table[i]] = i
  <2>1. i \in 1..t /\ \E k \in 1..m : slot[k] = i
    BY <1>1, <1>14
  <2>2. table[i] = CHOOSE k \in 1..m : slot[k] = i
    BY <1>17, <2>1
  <2> QED
    BY <2>1, <2>2
<1>20. ASSUME NEW i \in (1..t) \ h PROVE table[i] \in {0, Stale}
  <2>1. ASSUME NEW k \in 1..m PROVE slot[k] # i
    <3>1. CASE k > c
      <4>1. slot[k] = Stale
        BY <1>12, <3>1
      <4> QED
        BY <4>1 DEF Stale
    <3>2. CASE ~ (k > c)
      <4>1. k \in 1..c
        BY <1>1, <3>2
      <4> QED
        BY <1>11, <4>1
    <3> QED
      BY <3>1, <3>2
  <2> QED
    BY <1>17, <2>1
<1>21. ASSUME NEW k \in 1..c PROVE slot[k] \in h /\ table[slot[k]] = k
  <2>1. slot[k] \in h /\ k \in 1..m
    BY <1>11
  <2>2. table[slot[k]] \in 1..m /\ slot[table[slot[k]]] = slot[k]
    BY <1>19, <2>1
  <2>3. table[slot[k]] = k
    BY <1>13, <2>1, <2>2
  <2> QED
    BY <2>1, <2>3
<1>22. table \in Seq(Int) /\ Len(table) = t
  <2>1. ASSUME NEW i \in 1..t PROVE table[i] \in Int
    <3>1. CASE i \in h
      <4>1. table[i] \in 1..m
        BY <1>19, <3>1
      <4> QED
        BY <4>1
    <3>2. CASE i \notin h
      BY <1>20, <3>2 DEF Stale
    <3> QED
      BY <3>1, <3>2
  <2>3. table \in [1..t -> Int]
    BY <1>24, <2>1
  <2>4. t \in Nat
    BY <1>1
  <2> QED
    BY <2>3, <2>4, FunctionIsSeq
<1>23. free \in Seq(Int)
  BY DEF Stale
<1> HIDE DEF free
<1>25. /\ b \in Fields /\ b.allocated = a.allocated /\ b.used = c
       /\ b.slot = slot /\ b.table = table /\ b.free = free
       /\ b.free_index = a.free_index /\ b.held = h
  <2> DEFINE g == a.free_index
  <2>1. c \in Nat /\ g \in Seq(Int) /\ h \in SUBSET Int
    BY <1>1
  <2>2. b = With(a, c, slot, table, free, g, h)
    BY <1>3 DEF c, h
  <2> HIDE DEF g
  <2>3. /\ b \in Fields /\ b.allocated = a.allocated /\ b.used = c
        /\ b.slot = slot /\ b.table = table /\ b.free = free
        /\ b.free_index = g /\ b.held = h
    BY <1>2, <1>16, <1>22, <1>23, <2>1, <2>2, WithParts
  <2> QED
    BY <2>3 DEF g
<1>26. Size(b) = m /\ DOMAIN b.slot = 1..m /\ TableSize(b) = t /\ DOMAIN b.table = 1..t
  BY <1>15, <1>16, <1>18, <1>22, <1>25 DEF Size, TableSize
<1>27. /\ \A i \in h : b.table[i] \in 1..m /\ b.slot[b.table[i]] = i
       /\ \A i \in (1..t) \ h : b.table[i] \in {0, Stale}
       /\ \A s \in 1..c : b.slot[s] \in h /\ b.table[b.slot[s]] = s
       /\ \A s \in 1..m : s > c => b.slot[s] = Stale
  BY <1>12, <1>19, <1>20, <1>21, <1>25
<1> QED
  BY <1>25, <1>26, <1>27 DEF c, h, free

\* destroyNode reduces an arena.
LEMMA HalvedInv ==
    ASSUME NEW min \in Nat \ {0}, NEW a, ArenaInv(a, min),
           Reducible(a, min), ~ DecreaseFaults(a)
    PROVE  /\ ArenaInv(Halved(a), min)
           /\ Halved(a).allocated = a.allocated
           /\ Halved(a).used = a.used /\ Halved(a).held = a.held
           /\ Size(a) = 2 * Size(Halved(a))
           /\ a.used = Size(Halved(a)) => ~ DecreaseFaults(Halved(a))
<1> DEFINE b == Halved(a)
           t == TableSize(a)
           h == a.held
           c == a.used
<1>1. /\ Size(a) \in Nat \ {0} /\ min <= Size(a) /\ t \in Nat \ {0} /\ Size(a) <= t
      /\ c \in Nat /\ h \subseteq 1..t
  BY ArenaFacts
<1>2. /\ Size(a) \in Doublings(min) /\ t \in Doublings(Size(a)) /\ c = Cardinality(h)
      /\ Lists(a.free_index, t, h) /\ Len(a.free_index) = t - c
  BY DEF ArenaInv
<1>3. PICK m \in Doublings(min) : Size(a) = 2 * m
  <2>1. Size(a) # min
    BY <1>1 DEF Reducible
  <2> QED
    BY <1>2, <2>1, DoublingsHalf
<1>4. m \in Nat /\ c <= m
  <2>1. m \in Nat
    BY DEF Doublings
  <2>2. c <= Size(a) \div 2 /\ Size(a) \div 2 = m
    BY <1>3, <2>1 DEF Reducible
  <2> QED
    BY <2>1, <2>2
<1>5. t \in Doublings(m) /\ m <= t
  <2>1. t \in Doublings(2 * m)
    BY <1>2, <1>3
  <2> HIDE DEF t
  <2>2. t \in Doublings(m)
    BY <1>4, <2>1, DoublingsBefore
  <2> QED
    BY <1>4, <2>2, DoublingsBound
<1>6. /\ b \in Fields /\ b.allocated = a.allocated /\ b.used = c
      /\ b.held = h /\ b.free = <<Stale>> /\ b.free_index = a.free_index
      /\ Size(b) = m /\ DOMAIN b.slot = 1..m
      /\ TableSize(b) = t /\ DOMAIN b.table = 1..t
      /\ \A i \in h : b.table[i] \in 1..m /\ b.slot[b.table[i]] = i
      /\ \A i \in (1..t) \ h : b.table[i] \in {0, Stale}
      /\ \A s \in 1..c : b.slot[s] \in h /\ b.table[b.slot[s]] = s
      /\ \A s \in 1..m : s > c => b.slot[s] = Stale
  BY <1>3, <1>4, HalvedParts
<1> HIDE DEF b, t, h, c
<1>7. \A s \in 1..m : s \in 1..c \/ b.slot[s] = Stale
  BY <1>1, <1>4, <1>6
<1>8. Located(b.held, b.table, b.slot)
  <2>1. ASSUME NEW s \in DOMAIN b.slot, b.slot[s] \notin {0, Stale}
        PROVE  b.slot[s] \in h /\ b.table[b.slot[s]] = s
    BY <1>6, <1>7, <2>1
  <2> QED
    BY <1>1, <1>6, <2>1 DEF Located
<1>9. Zero(b.slot) = {}
  <2>1. ASSUME NEW s \in 1..m PROVE b.slot[s] # 0
    <3>1. CASE s \in 1..c
      <4>1. b.slot[s] \in 1..t
        BY <1>1, <1>6, <3>1
      <4> QED
        BY <4>1
    <3>2. CASE b.slot[s] = Stale
      BY <3>2 DEF Stale
    <3> QED
      BY <1>7, <3>1, <3>2
  <2> QED
    BY <1>6, <2>1 DEF Zero
<1>10. Begins(b.free, {})
  <2> DEFINE f == <<Stale>>
  <2>1. Len(f) = 1 /\ f[1] = Stale /\ 0 \in 0..Len(f)
    OBVIOUS
  <2> HIDE DEF f
  <2>2. /\ {f[k] : k \in 1..0} = {}
        /\ \A k, j \in 1..0 : f[k] = f[j] => k = j
        /\ 0 < Len(f) => f[0 + 1] = Stale
    BY <2>1
  <2>3. Begins(f, {})
    BY <2>1, <2>2 DEF Begins
  <2> QED
    BY <1>6, <2>3 DEF f
<1>11. Nowhere(b.free_index, b.table, m - c)
  <2> SUFFICES ASSUME NEW k \in DOMAIN b.free_index
               PROVE  ~ IsPointer(b.table[b.free_index[k]])
    BY DEF Nowhere
  <2>1. b.free_index[k] \in (1..t) \ h
    BY <1>2, <1>6 DEF Lists
  <2> QED
    BY <1>6, <2>1 DEF IsPointer
<1>12. ArenaType(b)
  <2>1. b.allocated \in BOOLEAN /\ b.used \in 0..Size(b) /\ Size(b) <= TableSize(b)
    BY <1>1, <1>4, <1>5, <1>6 DEF Fields
  <2>2. ASSUME NEW r \in DOMAIN b.slot PROVE b.slot[r] \in 0..t \cup {Stale}
    <3>1. r \in 1..c => b.slot[r] \in 1..t
      BY <1>1, <1>6
    <3>2. 1..t \subseteq 0..t
      BY <1>1
    <3> QED
      BY <1>6, <1>7, <3>1, <3>2
  <2>3. ASSUME NEW j \in DOMAIN b.table PROVE b.table[j] \in 0..m \cup {Stale}
    <3>1. j \in 1..t /\ 0 \in 0..m /\ 1..m \subseteq 0..m
      BY <1>4, <1>6
    <3>2. CASE j \in h
      BY <1>6, <3>1, <3>2
    <3>3. CASE j \notin h
      BY <1>6, <3>1, <3>3
    <3> QED
      BY <3>2, <3>3
  <2>4. \A k \in DOMAIN b.free : b.free[k] \in 1..Size(b) \cup {Stale}
    BY <1>6
  <2>5. \A k \in DOMAIN b.free_index : b.free_index[k] \in 1..TableSize(b)
    BY <1>2, <1>6 DEF Lists
  <2>6. b.held \subseteq 1..TableSize(b)
    BY <1>1, <1>6
  <2> QED
    BY <1>6, <2>1, <2>2, <2>3, <2>4, <2>5, <2>6 DEF ArenaType
<1>13. ArenaInv(b, min)
  BY <1>2, <1>3, <1>5, <1>6, <1>8, <1>9, <1>10, <1>11, <1>12 DEF ArenaInv
<1>14. ASSUME c = m PROVE ~ DecreaseFaults(b)
  <2>1. ASSUME NEW s \in 1..m PROVE b.slot[s] # Stale
    <3>1. b.slot[s] \in 1..t
      BY <1>1, <1>6, <1>14
    <3> QED
      BY <3>1 DEF Stale
  <2> QED
    BY <1>6, <2>1 DEF DecreaseFaults
<1> QED
  BY <1>3, <1>6, <1>13, <1>14 DEF b, h, c

\* listInit makes an arena.
LEMMA AllocatedInv ==
    ASSUME NEW min \in Nat \ {0}
    PROVE  /\ ArenaInv(Allocated(min), min)
           /\ Allocated(min).allocated /\ Allocated(min).used = 0
           /\ Allocated(min).held = {} /\ Size(Allocated(min)) = min
           /\ ~ DecreaseFaults(Allocated(min))
<1> DEFINE b == Allocated(min)
           z == Zeros(min)
           f == Interval(1, min)
<1>1. z \in Seq(Int) /\ Len(z) = min /\ DOMAIN z = 1..min /\ \A k \in 1..min : z[k] = 0
  BY DEF Zeros
<1>2. f \in Seq(1..min) /\ Len(f) = min /\ Begins(f, 1..min)
      /\ \A k \in 1..min : f[k] = k
  <2> DEFINE one == 1
  <2>1. one \in Nat /\ min \in Nat /\ one <= min + 1 /\ min - one + 1 = min
    OBVIOUS
  <2>2. \A k \in 1..min : one + k - 1 = k
    OBVIOUS
  <2> HIDE DEF one
  <2>3. /\ Interval(one, min) \in Seq(one..min)
        /\ Len(Interval(one, min)) = min - one + 1
        /\ \A k \in 1..(min - one + 1) : Interval(one, min)[k] = one + k - 1
        /\ Begins(Interval(one, min), one..min)
    BY <2>1, IntervalFacts
  <2> QED
    BY <2>1, <2>2, <2>3 DEF one
<1>3. f \in Seq(Int) /\ DOMAIN f = 1..min
  <2>1. 1..min \subseteq Int
    OBVIOUS
  <2> HIDE DEF f
  <2> QED
    BY <1>2, <2>1
<1>4. b = [allocated |-> TRUE, used |-> 0, slot |-> z, table |-> z,
           free |-> f, free_index |-> f, held |-> {}]
  BY DEF Allocated
<1> HIDE DEF z, f, b
<1>5. /\ b.allocated = TRUE /\ b.used = 0 /\ b.slot = z /\ b.table = z
      /\ b.free = f /\ b.free_index = f /\ b.held = {}
  BY <1>4
<1>6. b \in Fields
  <2>1. {} \in SUBSET Int /\ 0 \in Nat
    OBVIOUS
  <2> QED
    BY <1>1, <1>3, <1>4, <2>1 DEF Fields
<1>7. Size(b) = min /\ TableSize(b) = min
  BY <1>1, <1>5 DEF Size, TableSize
<1>8. min \in Doublings(min)
  BY DoublingsStart
<1>9. Cardinality(b.held) = 0
  BY <1>5, FS_EmptySet
<1>10. Located(b.held, b.table, b.slot)
  BY <1>1, <1>5 DEF Located
<1>11. Zero(b.slot) = 1..min
  BY <1>1, <1>5 DEF Zero
<1>12. Lists(b.free_index, min, b.held)
  <2>1. {f[k] : k \in DOMAIN f} = (1..min) \ {}
    BY <1>2, <1>3
  <2>2. \A k, j \in DOMAIN f : f[k] = f[j] => k = j
    BY <1>2, <1>3
  <2>3. Lists(f, min, {})
    BY <2>1, <2>2 DEF Lists
  <2> QED
    BY <1>5, <2>3
<1>13. Nowhere(b.free_index, b.table, min - 0)
  BY <1>1, <1>2, <1>3, <1>5 DEF Nowhere, IsPointer
<1>14. ArenaType(b)
  <2>1. 0 \in 0..min /\ min <= min /\ b.allocated \in BOOLEAN
    BY <1>6 DEF Fields
  <2>2. \A k \in DOMAIN f : f[k] \in 1..min
    BY <1>2, <1>3
  <2> QED
    BY <1>1, <1>5, <1>7, <2>1, <2>2 DEF ArenaType
<1>15. Len(b.free_index) = min - 0
  BY <1>2, <1>5
<1>16. ArenaInv(b, min)
  BY <1>2, <1>5, <1>6, <1>7, <1>8, <1>9, <1>10, <1>11, <1>12, <1>13, <1>14, <1>15 DEF ArenaInv
<1>17. ~ DecreaseFaults(b)
  BY <1>1, <1>5 DEF DecreaseFaults, Stale
<1> QED
  BY <1>5, <1>7, <1>16, <1>17 DEF b

-----------------------------------------------------------------------------
(* Where newNode and destroyNode use a pointer that points nowhere.         *)

\* With room left, the free lists have something to take, unless some slot was
\* never written.
LEMMA TakeFaultsIs ==
    ASSUME NEW min \in Nat \ {0}, NEW a, ArenaInv(a, min), a.used # Size(a), TakeFaults(a)
    PROVE  DecreaseFaults(a)
<1> SUFFICES ASSUME ~ DecreaseFaults(a) PROVE FALSE
  OBVIOUS
<1> DEFINE n == Size(a)
           t == TableSize(a)
           slot == a.slot
           table == a.table
           held == a.held
           free == a.free
<1>1. /\ n \in Nat \ {0} /\ t \in Nat \ {0} /\ n <= t
      /\ DOMAIN slot = 1..n /\ DOMAIN table = 1..t /\ free \in Seq(Int)
      /\ a.free_index \in Seq(Int) /\ a.used \in Nat
  BY ArenaFacts
<1>2. /\ Located(held, table, slot) /\ a.used = Cardinality(held)
      /\ Begins(free, Zero(slot)) /\ Len(a.free_index) = t - a.used
  BY DEF ArenaInv
<1>3. a.used < n
  <2>1. a.used <= n
    BY DEF ArenaInv, ArenaType
  <2> QED
    BY <1>1, <2>1
<1>4. \A s \in 1..n : slot[s] # Stale
  BY <1>1 DEF DecreaseFaults
<1>5. free = <<>> \/ a.free_index = <<>> \/ ~ IsPointer(Head(free))
  BY DEF TakeFaults
<1>6. a.free_index # <<>>
  BY <1>1, <1>2, <1>3
<1> HIDE DEF n, t, slot, table, held, free
<1>7. Cardinality(InUse(slot)) = Cardinality(held)
  BY <1>1, <1>2, LocatedCount
<1>8. Cardinality(Zero(slot)) = n - a.used
  BY <1>1, <1>2, <1>4, <1>7, ZeroCount
<1>9. Zero(slot) # {}
  <2>1. n - a.used # 0
    BY <1>1, <1>3
  <2> QED
    BY <1>8, <2>1, FS_EmptySet
<1>10. free # <<>> /\ Head(free) \in Zero(slot)
  BY <1>1, <1>2, <1>9, BeginsHead
<1>11. IsPointer(Head(free))
  <2>1. Head(free) \in 1..n
    BY <1>1, <1>10 DEF Zero
  <2> QED
    BY <2>1 DEF IsPointer, Stale
<1> QED
  BY <1>5, <1>6, <1>10, <1>11

\* An arena without room that was not enlarged has no slot to take.
LEMMA FullTakeFaults ==
    ASSUME NEW min \in Nat \ {0}, NEW a, ArenaInv(a, min), a.used = Size(a)
    PROVE  TakeFaults(a)
<1> DEFINE n == Size(a)
           t == TableSize(a)
           slot == a.slot
           table == a.table
           held == a.held
           free == a.free
<1>1. /\ n \in Nat \ {0} /\ t \in Nat \ {0} /\ DOMAIN slot = 1..n /\ DOMAIN table = 1..t
      /\ free \in Seq(Int)
  BY ArenaFacts
<1>2. Located(held, table, slot) /\ n = Cardinality(held) /\ Begins(free, Zero(slot))
  BY DEF ArenaInv
<1>3. free = <<>> \/ ~ IsPointer(Head(free)) => TakeFaults(a)
  BY DEF TakeFaults
<1> HIDE DEF n, t, slot, table, held, free
<1>4. InUse(slot) = 1..n
  BY <1>1, <1>2, LocatedCount
<1>5. Zero(slot) = {}
  BY <1>1, <1>4 DEF InUse, Zero
<1>6. PICK z \in 0..Len(free) : /\ {free[k] : k \in 1..z} = {}
                                /\ z < Len(free) => free[z + 1] = Stale
  BY <1>2, <1>5 DEF Begins
<1>7. z = 0
  <2>1. z # 0 => 1 \in 1..z
    BY <1>6
  <2> QED
    BY <1>6, <2>1
<1>8. free # <<>> => Head(free) = Stale
  <2>1. free # <<>> => Len(free) > 0 /\ Head(free) = free[1]
    BY <1>1
  <2> QED
    BY <1>6, <1>7, <2>1
<1> QED
  BY <1>3, <1>8 DEF IsPointer

\* Enlarging an arena fails only if it was reduced before and a low index is free.
LEMMA IncreaseFaultsIs ==
    ASSUME NEW min \in Nat \ {0}, NEW a, ArenaInv(a, min), a.used = Size(a), IncreaseFaults(a)
    PROVE  Regrowth(a)
<1> DEFINE n == Size(a)
           t == TableSize(a)
           slot == a.slot
           table == a.table
           held == a.held
<1>1. /\ n \in Nat \ {0} /\ t \in Nat \ {0} /\ n <= t
      /\ DOMAIN slot = 1..n /\ DOMAIN table = 1..t
  BY ArenaFacts
<1>2. Located(held, table, slot) /\ n = Cardinality(held)
  BY DEF ArenaInv
<1>3. \E i \in 1..n : ~ IsPointer(table[i])
  BY DEF IncreaseFaults
<1>4. n < t /\ ~ (1..n \subseteq held) => Regrowth(a)
  BY DEF Regrowth
<1> HIDE DEF n, t, slot, table, held
<1>5. ~ (1..n \subseteq held)
  <2>1. PICK i \in 1..n : ~ IsPointer(table[i])
    BY <1>3
  <2>2. i \notin held
    <3>1. i \in held => table[i] \in 1..n
      BY <1>1, <1>2 DEF Located
    <3> QED
      BY <2>1, <3>1 DEF IsPointer, Stale
  <2> QED
    BY <2>2
<1>6. n # t
  <2>1. n = t => held = 1..t
    BY <1>1, <1>2, LocatedCount
  <2> QED
    BY <1>5, <2>1
<1> QED
  BY <1>1, <1>4, <1>5, <1>6

\* More than half of an arena that may be reduced is used, and every slot was
\* written: so it is as long as no reduction was refused.
Tight(a, min) == (Size(a) > min => 2 * a.used > Size(a)) /\ ~ DecreaseFaults(a)

LEMMA NewFaultsIs ==
    ASSUME NEW min \in Nat \ {0}, NEW a, ArenaInv(a, min), NEW moved \in BOOLEAN,
           NewFaults(a, moved, FALSE)
    PROVE  Regrowth(a) \/ DecreaseFaults(a)
<1>1. CASE a.used = Size(a)
  <2>1. ~ IncreaseFaults(a) => TakeFaults(Doubled(a, moved))
    BY <1>1 DEF NewFaults, Grown, Roomy
  <2>2. CASE IncreaseFaults(a)
    BY <1>1, <2>2, IncreaseFaultsIs
  <2>3. CASE ~ IncreaseFaults(a)
    <3> DEFINE b == Doubled(a, moved)
    <3>1. /\ ArenaInv(b, min) /\ b.used = a.used /\ Size(b) = 2 * Size(a)
          /\ ~ DecreaseFaults(b)
      BY <1>1, <2>3, DoubledInv
    <3>2. Size(a) \in Nat \ {0}
      BY ArenaFacts
    <3>3. b.used # Size(b) /\ TakeFaults(b)
      BY <1>1, <2>1, <2>3, <3>1, <3>2
    <3> HIDE DEF b
    <3> QED
      BY <3>1, <3>3, TakeFaultsIs
  <2> QED
    BY <2>2, <2>3
<1>2. CASE a.used # Size(a)
  <2>1. TakeFaults(a)
    BY <1>2 DEF NewFaults, Grown, Roomy
  <2> QED
    BY <1>2, <2>1, TakeFaultsIs
<1> QED
  BY <1>1, <1>2

\* newNode keeps the invariant of the arena.
LEMMA NewSound ==
    ASSUME NEW min \in Nat \ {0}, NEW a, ArenaInv(a, min),
           NEW moved \in BOOLEAN, NEW refuse \in BOOLEAN, refuse => a.used = Size(a),
           ~ NewFaults(a, moved, refuse), NEW b, b = Taken(Grown(a, moved, refuse))
    PROVE  /\ ArenaInv(b, min) /\ b.allocated = a.allocated
           /\ Tight(a, min) => Tight(b, min)
<1>0. Size(a) \in Nat \ {0} /\ a.used \in Nat /\ min <= Size(a)
  BY ArenaFacts
<1>1. ~ refuse
  <2> SUFFICES ASSUME refuse PROVE FALSE
    OBVIOUS
  <2>1. TakeFaults(a)
    BY FullTakeFaults
  <2> QED
    BY <2>1 DEF NewFaults, Grown
<1>2. CASE a.used = Size(a)
  <2> DEFINE d == Doubled(a, moved)
  <2>1. ~ IncreaseFaults(a) /\ ~ TakeFaults(d) /\ b = Taken(d)
    BY <1>1, <1>2 DEF NewFaults, Grown, Roomy
  <2>2. /\ ArenaInv(d, min) /\ d.allocated = a.allocated /\ d.used = a.used
        /\ Size(d) = 2 * Size(a) /\ ~ DecreaseFaults(d)
    BY <1>2, <2>1, DoubledInv
  <2> HIDE DEF d
  <2>3. /\ ArenaInv(Taken(d), min) /\ Taken(d).allocated = d.allocated
        /\ Taken(d).used = d.used + 1 /\ Size(Taken(d)) = Size(d)
        /\ DecreaseFaults(Taken(d)) => DecreaseFaults(d)
    BY <2>1, <2>2, TakenInv
  <2>4. ~ DecreaseFaults(b) /\ b.used = Size(a) + 1 /\ Size(b) = 2 * Size(a)
    BY <1>2, <2>1, <2>2, <2>3
  <2>5. Tight(b, min)
    BY <1>0, <2>4 DEF Tight
  <2> QED
    BY <2>1, <2>2, <2>3, <2>5
<1>3. CASE a.used # Size(a)
  <2>1. ~ TakeFaults(a) /\ b = Taken(a)
    BY <1>1, <1>3 DEF NewFaults, Grown, Roomy
  <2>2. /\ ArenaInv(b, min) /\ b.allocated = a.allocated
        /\ b.used = a.used + 1 /\ Size(b) = Size(a)
        /\ DecreaseFaults(b) => DecreaseFaults(a)
    BY <2>1, TakenInv
  <2>3. Tight(a, min) => Tight(b, min)
    BY <1>0, <2>2 DEF Tight
  <2> QED
    BY <2>2, <2>3
<1> QED
  BY <1>2, <1>3

\* destroyNode keeps the invariant of the arena; only a reduction that was refused
\* leaves more than half of it free.
LEMMA DestroySound ==
    ASSUME NEW min \in Nat \ {0}, NEW a, ArenaInv(a, min), NEW i \in a.held,
           NEW refuse \in BOOLEAN, ~ DestroyFaults(Returned(a, i), min, refuse),
           NEW b, b = Shrunk(Returned(a, i), min, refuse)
    PROVE  /\ ArenaInv(b, min) /\ b.allocated = a.allocated
           /\ ~ refuse /\ Tight(a, min) => Tight(b, min)
<1> DEFINE d == Returned(a, i)
<1>1. /\ ArenaInv(d, min) /\ d.allocated = a.allocated /\ d.used = a.used - 1
      /\ Size(d) = Size(a) /\ (DecreaseFaults(d) => DecreaseFaults(a))
  BY ReturnedInv
<1>2. ~ DestroyFaults(d, min, refuse) /\ b = Shrunk(d, min, refuse)
  OBVIOUS
<1> HIDE DEF d
<1>3. Size(d) \in Nat \ {0} /\ d.used \in Nat /\ min <= Size(d)
  BY <1>1, ArenaFacts
<1>4. CASE refuse
  <2>1. b = d
    BY <1>2, <1>4 DEF Shrunk
  <2> QED
    BY <1>1, <1>4, <2>1
<1>5. CASE ~ refuse /\ ~ Reducible(d, min)
  <2>1. b = d
    BY <1>2, <1>5 DEF Shrunk, Trimmed
  <2>2. Tight(a, min) => Tight(d, min)
    BY <1>1, <1>3, <1>5 DEF Tight, Reducible
  <2> QED
    BY <1>1, <2>1, <2>2
<1>6. CASE ~ refuse /\ Reducible(d, min)
  <2>1. b = Halved(d) /\ ~ DecreaseFaults(d)
    BY <1>2, <1>6 DEF Shrunk, Trimmed, DestroyFaults
  <2>2. /\ ArenaInv(b, min) /\ b.allocated = d.allocated /\ b.used = d.used
        /\ Size(d) = 2 * Size(b) /\ (d.used = Size(b) => ~ DecreaseFaults(b))
    BY <1>1, <1>6, <2>1, HalvedInv
  <2>3. Size(b) \in Nat \ {0}
    BY <2>2, ArenaFacts
  <2>4. ASSUME Tight(a, min) PROVE Tight(b, min)
    <3>1. Size(d) > min /\ d.used <= Size(d) \div 2 /\ 2 * (d.used + 1) > Size(d)
      <4>1. Size(a) > min /\ 2 * a.used > Size(a)
        BY <1>1, <1>6, <2>4 DEF Tight, Reducible
      <4>2. a.used \in Nat
        BY ArenaFacts
      <4> QED
        BY <1>1, <1>6, <4>1, <4>2 DEF Reducible
    <3>2. d.used = Size(b)
      BY <1>3, <2>2, <2>3, <3>1
    <3> QED
      BY <2>2, <2>3, <3>2 DEF Tight
  <2> QED
    BY <1>1, <2>2, <2>4
<1> QED
  BY <1>4, <1>5, <1>6

LEMMA DestroyFaultsIs ==
    ASSUME NEW min \in Nat \ {0}, NEW a, ArenaInv(a, min), NEW i \in a.held,
           NEW refuse \in BOOLEAN, DestroyFaults(Returned(a, i), min, refuse)
    PROVE  ~ refuse /\ DecreaseFaults(a)
<1>1. DecreaseFaults(Returned(a, i)) => DecreaseFaults(a)
  BY ReturnedInv
<1> QED
  BY <1>1 DEF DestroyFaults

-----------------------------------------------------------------------------
(* The inductive invariant.                                                 *)

Sound(a, min, place) ==
    IF a.allocated THEN ArenaInv(a, min) /\ (place # "shrink" => Tight(a, min))
    ELSE a = Unallocated

AllocInv ==
    /\ TypeOK
    /\ Sound(lists, LISTMIN, refused)
    /\ Sound(nodes, NODEMIN, refused)

LEMMA UnallocatedParts ==
    /\ ~ Unallocated.allocated /\ Unallocated.used = 0 /\ Unallocated.held = {}
    /\ Unallocated.slot = <<>> /\ Unallocated.table = <<>>
    /\ Unallocated.free = <<>> /\ Unallocated.free_index = <<>>
    /\ Size(Unallocated) = 0 /\ TableSize(Unallocated) = 0
    /\ ArenaType(Unallocated)
<1> DEFINE a == Unallocated
           e == <<>>
<1>1. e \in Seq(Int) /\ Len(e) = 0 /\ DOMAIN e = {}
  OBVIOUS
<1>2. a = [allocated |-> FALSE, used |-> 0, slot |-> e, table |-> e,
           free |-> e, free_index |-> e, held |-> {}]
  BY DEF Unallocated
<1> HIDE DEF a, e
<1>3. /\ ~ a.allocated /\ a.used = 0 /\ a.slot = e /\ a.table = e
      /\ a.free = e /\ a.free_index = e /\ a.held = {}
  BY <1>2
<1>4. Size(a) = 0 /\ TableSize(a) = 0
  BY <1>1, <1>3 DEF Size, TableSize
<1>5. a.allocated \in BOOLEAN
  <2> DEFINE F == [allocated : BOOLEAN, used : Nat, slot : Seq(Int), table : Seq(Int),
                   free : Seq(Int), free_index : Seq(Int), held : SUBSET Int]
  <2>1. {} \in SUBSET Int /\ 0 \in Nat
    OBVIOUS
  <2>2. a \in F
    BY <1>1, <1>2, <2>1
  <2> QED
    BY <2>2
<1>6. ArenaType(a)
  BY <1>1, <1>3, <1>4, <1>5 DEF ArenaType
<1> QED
  BY <1>3, <1>4, <1>6 DEF a, e

LEMMA SoundType ==
    ASSUME NEW a, NEW min, NEW place, Sound(a, min, place)
    PROVE  ArenaType(a)
<1>1. CASE a.allocated
  BY <1>1 DEF Sound, ArenaInv
<1>2. CASE ~ a.allocated
  BY <1>2, UnallocatedParts DEF Sound
<1> QED
  BY <1>1, <1>2

LEMMA SoundLater ==
    ASSUME NEW a, NEW min, NEW place, NEW later, Sound(a, min, place),
           place = "shrink" => later = "shrink"
    PROVE  Sound(a, min, later)
  BY DEF Sound

\* What a step leaves: sound arenas, and a reason if a pointer was used that points
\* nowhere.
Leaves ==
    /\ Sound(lists', LISTMIN, refused')
    /\ Sound(nodes', NODEMIN, refused')
    /\ fault' \in {"no", "lists", "nodes"}
    /\ refused' \in {"no"} \cup Refused
    /\ Faulty' => \/ Regrowth(FaultyArena')
                  \/ refused' = "init" /\ ~ lists.allocated
                  \/ refused' = "grow" /\ refused = "no"
                  \/ refused' = "shrink" /\ DecreaseFaults(FaultyArena')

LEMMA HasParts ==
    ASSUME AllocInv, NEW place, NEW needed, NEW refuse \in BOOLEAN, Has(place, needed, refuse)
    PROVE  /\ refused' \in {"no"} \cup Refused
           /\ refused = "shrink" => refused' = "shrink"
           /\ refuse => needed /\ refused = "no" /\ refused' = place
           /\ ~ refuse => refused' = refused
<1>1. refused \in {"no"} \cup Refused
  BY DEF AllocInv, TypeOK
<1>2. CASE refuse
  BY <1>2 DEF Has
<1>3. CASE ~ refuse
  BY <1>1, <1>3 DEF Has
<1> QED
  BY <1>2, <1>3

LEMMA NewListLeaves ==
    ASSUME AllocInv, fault = "no", newList
    PROVE  Leaves
<1> DEFINE l == IF lists.allocated THEN lists ELSE Allocated(LISTMIN)
<1>0. LISTMIN \in Nat \ {0} /\ NODEMIN \in Nat \ {0}
  BY SmallestSizes
<1>1. /\ Sound(lists, LISTMIN, refused) /\ Sound(nodes, NODEMIN, refused)
  BY DEF AllocInv
<1>2. PICK moved \in BOOLEAN, refuse \in BOOLEAN :
         /\ Has("grow", l.used = Size(l), refuse)
         /\ IF NewFaults(l, moved, refuse) THEN Fails("lists")
            ELSE /\ lists' = Taken(Grown(l, moved, refuse))
                 /\ nodes' = IF lists.allocated THEN nodes ELSE Allocated(NODEMIN)
                 /\ UNCHANGED fault
  BY DEF newList
<1>3. ArenaInv(l, LISTMIN) /\ l.allocated /\ (refused # "shrink" => Tight(l, LISTMIN))
  <2>1. CASE lists.allocated
    BY <1>1, <2>1 DEF Sound
  <2>2. CASE ~ lists.allocated
    <3>1. /\ ArenaInv(Allocated(LISTMIN), LISTMIN) /\ Allocated(LISTMIN).allocated
          /\ Size(Allocated(LISTMIN)) = LISTMIN /\ ~ DecreaseFaults(Allocated(LISTMIN))
      BY <1>0, AllocatedInv
    <3>2. Tight(Allocated(LISTMIN), LISTMIN)
      BY <1>0, <3>1 DEF Tight
    <3>3. l = Allocated(LISTMIN)
      BY <2>2
    <3> HIDE DEF l
    <3> QED
      BY <3>1, <3>2, <3>3
  <2> QED
    BY <2>1, <2>2
<1>4. ~ lists.allocated => ~ Regrowth(l) /\ ~ DecreaseFaults(l)
  <2> SUFFICES ASSUME ~ lists.allocated PROVE ~ Regrowth(l) /\ ~ DecreaseFaults(l)
    OBVIOUS
  <2>1. /\ Allocated(LISTMIN).used = 0 /\ Size(Allocated(LISTMIN)) = LISTMIN
        /\ ~ DecreaseFaults(Allocated(LISTMIN))
    BY <1>0, AllocatedInv
  <2>2. l = Allocated(LISTMIN)
    OBVIOUS
  <2> HIDE DEF l
  <2> QED
    BY <1>0, <2>1, <2>2 DEF Regrowth
<1>5. lists.allocated => l = lists
  OBVIOUS
<1>6. ~ lists.allocated => Sound(Allocated(NODEMIN), NODEMIN, refused')
  <2>1. /\ ArenaInv(Allocated(NODEMIN), NODEMIN) /\ Allocated(NODEMIN).allocated
        /\ Size(Allocated(NODEMIN)) = NODEMIN /\ ~ DecreaseFaults(Allocated(NODEMIN))
    BY <1>0, AllocatedInv
  <2>2. Tight(Allocated(NODEMIN), NODEMIN)
    BY <1>0, <2>1 DEF Tight
  <2> QED
    BY <2>1, <2>2 DEF Sound
<1> HIDE DEF l
<1>7. /\ refused' \in {"no"} \cup Refused
      /\ refused = "shrink" => refused' = "shrink"
      /\ refuse => l.used = Size(l) /\ refused = "no" /\ refused' = "grow"
      /\ ~ refuse => refused' = refused
  BY <1>2, HasParts
<1>8. CASE NewFaults(l, moved, refuse)
  <2>1. lists' = lists /\ nodes' = nodes /\ fault' = "lists"
    BY <1>2, <1>8 DEF Fails
  <2>2. Sound(lists', LISTMIN, refused') /\ Sound(nodes', NODEMIN, refused')
    BY <1>1, <1>7, <2>1, SoundLater
  <2>3. FaultyArena' = lists
    BY <2>1 DEF FaultyArena
  <2>4. CASE refuse
    BY <1>7, <2>1, <2>2, <2>4 DEF Leaves
  <2>5. CASE ~ refuse
    <3>1. Regrowth(l) \/ DecreaseFaults(l)
      <4>1. NewFaults(l, moved, FALSE)
        BY <1>8, <2>5
      <4> QED
        BY <1>0, <1>3, <4>1, NewFaultsIs
    <3>2. l = lists
      BY <1>4, <1>5, <3>1
    <3>3. DecreaseFaults(lists) => refused' = "shrink"
      BY <1>3, <1>7, <2>5, <3>2 DEF Tight
    <3> QED
      BY <1>7, <2>1, <2>2, <2>3, <3>1, <3>2, <3>3 DEF Leaves
  <2> QED
    BY <2>4, <2>5
<1>9. CASE ~ NewFaults(l, moved, refuse)
  <2>1. /\ lists' = Taken(Grown(l, moved, refuse))
        /\ nodes' = (IF lists.allocated THEN nodes ELSE Allocated(NODEMIN))
        /\ fault' = "no"
    BY <1>2, <1>9
  <2>2. /\ ArenaInv(lists', LISTMIN) /\ lists'.allocated = l.allocated
        /\ Tight(l, LISTMIN) => Tight(lists', LISTMIN)
    <3> DEFINE b == Taken(Grown(l, moved, refuse))
    <3>1. refuse => l.used = Size(l)
      BY <1>7
    <3>3. b = Taken(Grown(l, moved, refuse))
      OBVIOUS
    <3>4. LISTMIN \in Nat \ {0} /\ ArenaInv(l, LISTMIN) /\ ~ NewFaults(l, moved, refuse)
      BY <1>0, <1>3, <1>9
    <3> HIDE DEF b
    <3>2. /\ ArenaInv(b, LISTMIN) /\ b.allocated = l.allocated
          /\ Tight(l, LISTMIN) => Tight(b, LISTMIN)
      BY <3>1, <3>3, <3>4, NewSound
    <3> QED
      BY <2>1, <3>2 DEF b
  <2>3. Sound(lists', LISTMIN, refused')
    BY <1>3, <1>7, <2>2 DEF Sound
  <2>4. Sound(nodes', NODEMIN, refused')
    <3>1. Sound(nodes, NODEMIN, refused')
      BY <1>1, <1>7, SoundLater
    <3> QED
      BY <1>6, <2>1, <3>1
  <2> QED
    BY <1>7, <2>1, <2>3, <2>4 DEF Leaves, Faulty
<1> QED
  BY <1>8, <1>9

LEMMA InitRefusedLeaves ==
    ASSUME AllocInv, fault = "no", InitRefused
    PROVE  Leaves
<1>1. Has("init", ~ lists.allocated, TRUE) /\ Fails("lists")
  BY DEF InitRefused
<1>2. /\ refused' \in {"no"} \cup Refused
      /\ refused = "shrink" => refused' = "shrink"
      /\ ~ lists.allocated /\ refused' = "init"
  <2> DEFINE refuse == TRUE
             needed == ~ lists.allocated
  <2>1. refuse \in BOOLEAN /\ refuse /\ Has("init", needed, refuse)
    BY <1>1
  <2> HIDE DEF refuse, needed
  <2>2. /\ refused' \in {"no"} \cup Refused
        /\ refused = "shrink" => refused' = "shrink"
        /\ refuse => needed /\ refused = "no" /\ refused' = "init"
    BY <2>1, HasParts
  <2> QED
    BY <2>1, <2>2 DEF needed
<1>3. lists' = lists /\ nodes' = nodes /\ fault' = "lists"
  BY <1>1 DEF Fails
<1>4. Sound(lists', LISTMIN, refused') /\ Sound(nodes', NODEMIN, refused')
  BY <1>2, <1>3, SoundLater DEF AllocInv
<1> QED
  BY <1>2, <1>3, <1>4 DEF Leaves

LEMMA NewNodeLeaves ==
    ASSUME AllocInv, fault = "no", newNode
    PROVE  Leaves
<1>0. LISTMIN \in Nat \ {0} /\ NODEMIN \in Nat \ {0}
  BY SmallestSizes
<1>1. Sound(lists, LISTMIN, refused) /\ Sound(nodes, NODEMIN, refused)
  BY DEF AllocInv
<1>2. PICK moved \in BOOLEAN, refuse \in BOOLEAN :
         /\ Has("grow", nodes.used = Size(nodes), refuse)
         /\ IF NewFaults(nodes, moved, refuse) THEN Fails("nodes")
            ELSE /\ nodes' = Taken(Grown(nodes, moved, refuse))
                 /\ UNCHANGED <<lists, fault>>
  BY DEF newNode
<1>3. /\ nodes.allocated /\ ArenaInv(nodes, NODEMIN)
      /\ refused # "shrink" => Tight(nodes, NODEMIN)
  BY <1>1 DEF newNode, Sound
<1>4. /\ refused' \in {"no"} \cup Refused
      /\ refused = "shrink" => refused' = "shrink"
      /\ refuse => nodes.used = Size(nodes) /\ refused = "no" /\ refused' = "grow"
      /\ ~ refuse => refused' = refused
  BY <1>2, HasParts
<1>5. CASE NewFaults(nodes, moved, refuse)
  <2>1. lists' = lists /\ nodes' = nodes /\ fault' = "nodes"
    BY <1>2, <1>5 DEF Fails
  <2>2. Sound(lists', LISTMIN, refused') /\ Sound(nodes', NODEMIN, refused')
    BY <1>1, <1>4, <2>1, SoundLater
  <2>3. FaultyArena' = nodes
    BY <2>1 DEF FaultyArena
  <2>4. CASE refuse
    BY <1>4, <2>1, <2>2, <2>4 DEF Leaves
  <2>5. CASE ~ refuse
    <3>1. Regrowth(nodes) \/ DecreaseFaults(nodes)
      <4>1. NewFaults(nodes, moved, FALSE)
        BY <1>5, <2>5
      <4> QED
        BY <1>0, <1>3, <4>1, NewFaultsIs
    <3>2. DecreaseFaults(nodes) => refused' = "shrink"
      BY <1>3, <1>4, <2>5 DEF Tight
    <3> QED
      BY <1>4, <2>1, <2>2, <2>3, <3>1, <3>2 DEF Leaves
  <2> QED
    BY <2>4, <2>5
<1>6. CASE ~ NewFaults(nodes, moved, refuse)
  <2>1. nodes' = Taken(Grown(nodes, moved, refuse)) /\ lists' = lists /\ fault' = "no"
    BY <1>2, <1>6
  <2>2. /\ ArenaInv(nodes', NODEMIN) /\ nodes'.allocated = nodes.allocated
        /\ Tight(nodes, NODEMIN) => Tight(nodes', NODEMIN)
    <3> DEFINE b == Taken(Grown(nodes, moved, refuse))
    <3>1. refuse => nodes.used = Size(nodes)
      BY <1>4
    <3>3. b = Taken(Grown(nodes, moved, refuse))
      OBVIOUS
    <3>4. NODEMIN \in Nat \ {0} /\ ArenaInv(nodes, NODEMIN) /\ ~ NewFaults(nodes, moved, refuse)
      BY <1>0, <1>3, <1>6
    <3> HIDE DEF b
    <3>2. /\ ArenaInv(b, NODEMIN) /\ b.allocated = nodes.allocated
          /\ Tight(nodes, NODEMIN) => Tight(b, NODEMIN)
      BY <3>1, <3>3, <3>4, NewSound
    <3> QED
      BY <2>1, <3>2 DEF b
  <2>3. Sound(nodes', NODEMIN, refused')
    BY <1>3, <1>4, <2>2 DEF Sound
  <2>4. Sound(lists', LISTMIN, refused')
    BY <1>1, <1>4, <2>1, SoundLater
  <2> QED
    BY <1>4, <2>1, <2>3, <2>4 DEF Leaves, Faulty
<1> QED
  BY <1>5, <1>6

\* An arena some index of which is held is not NULL.
LEMMA HeldAllocated ==
    ASSUME NEW a, NEW min, NEW place, Sound(a, min, place), a.held # {}
    PROVE  /\ a.allocated /\ ArenaInv(a, min)
           /\ place # "shrink" => Tight(a, min)
<1>1. a.allocated
  BY UnallocatedParts DEF Sound
<1> QED
  BY <1>1 DEF Sound

LEMMA DestroyNodeLeaves ==
    ASSUME AllocInv, fault = "no", NEW i \in nodes.held, destroyNode(i)
    PROVE  Leaves
<1> DEFINE d == Returned(nodes, i)
<1>0. LISTMIN \in Nat \ {0} /\ NODEMIN \in Nat \ {0}
  BY SmallestSizes
<1>1. Sound(lists, LISTMIN, refused) /\ Sound(nodes, NODEMIN, refused)
  BY DEF AllocInv
<1>2. /\ nodes.allocated /\ ArenaInv(nodes, NODEMIN)
      /\ refused # "shrink" => Tight(nodes, NODEMIN)
  BY <1>1, HeldAllocated
<1>3. IsPointer(nodes.table[i])
  BY <1>0, <1>2, ReturnedInv
<1>4. PICK refuse \in BOOLEAN :
         /\ Has("shrink", Reducible(d, NODEMIN), refuse)
         /\ IF DestroyFaults(d, NODEMIN, refuse) THEN Fails("nodes")
            ELSE nodes' = Shrunk(d, NODEMIN, refuse) /\ UNCHANGED <<lists, fault>>
  BY <1>3 DEF destroyNode
<1>5. /\ refused' \in {"no"} \cup Refused
      /\ refused = "shrink" => refused' = "shrink"
      /\ refuse => refused' = "shrink"
      /\ ~ refuse => refused' = refused
  <2> DEFINE needed == Reducible(d, NODEMIN)
  <2>1. Has("shrink", needed, refuse)
    BY <1>4
  <2> HIDE DEF needed
  <2> QED
    BY <2>1, HasParts
<1>6. CASE DestroyFaults(d, NODEMIN, refuse)
  <2>1. lists' = lists /\ nodes' = nodes /\ fault' = "nodes"
    BY <1>4, <1>6 DEF Fails
  <2>2. ~ refuse /\ DecreaseFaults(nodes)
    BY <1>0, <1>2, <1>6, DestroyFaultsIs
  <2>3. Sound(lists', LISTMIN, refused') /\ Sound(nodes', NODEMIN, refused')
    BY <1>1, <1>5, <2>1, SoundLater
  <2>4. FaultyArena' = nodes /\ refused' = "shrink"
    BY <1>2, <1>5, <2>1, <2>2 DEF FaultyArena, Tight
  <2> QED
    BY <1>5, <2>1, <2>2, <2>3, <2>4 DEF Leaves
<1>7. CASE ~ DestroyFaults(d, NODEMIN, refuse)
  <2>1. nodes' = Shrunk(d, NODEMIN, refuse) /\ lists' = lists /\ fault' = "no"
    BY <1>4, <1>7
  <2>2. /\ ArenaInv(nodes', NODEMIN) /\ nodes'.allocated = nodes.allocated
        /\ ~ refuse /\ Tight(nodes, NODEMIN) => Tight(nodes', NODEMIN)
    BY <1>0, <1>2, <1>7, <2>1, DestroySound
  <2>3. Sound(nodes', NODEMIN, refused')
    BY <1>2, <1>5, <2>2 DEF Sound
  <2>4. Sound(lists', LISTMIN, refused')
    BY <1>1, <1>5, <2>1, SoundLater
  <2> QED
    BY <1>5, <2>1, <2>3, <2>4 DEF Leaves, Faulty
<1> QED
  BY <1>6, <1>7

LEMMA DestroyListLeaves ==
    ASSUME AllocInv, fault = "no", NEW i \in lists.held, destroyList(i)
    PROVE  Leaves
<1> DEFINE d == Returned(lists, i)
<1>0. LISTMIN \in Nat \ {0} /\ NODEMIN \in Nat \ {0}
  BY SmallestSizes
<1>1. /\ Sound(lists, LISTMIN, refused) /\ Sound(nodes, NODEMIN, refused)
      /\ refused \in {"no"} \cup Refused
  BY DEF AllocInv, TypeOK
<1>2. /\ lists.allocated /\ ArenaInv(lists, LISTMIN)
      /\ refused # "shrink" => Tight(lists, LISTMIN)
  BY <1>1, HeldAllocated
<1>3. IsPointer(lists.table[i])
  BY <1>0, <1>2, ReturnedInv
<1>4. CASE d.used = 0
  <2>1. lists' = Unallocated /\ nodes' = Unallocated /\ fault' = "no" /\ refused' = refused
    BY <1>3, <1>4 DEF destroyList
  <2>2. Sound(Unallocated, LISTMIN, refused) /\ Sound(Unallocated, NODEMIN, refused)
    BY UnallocatedParts DEF Sound
  <2> QED
    BY <1>1, <2>1, <2>2 DEF Leaves, Faulty
<1>5. CASE d.used # 0
  <2>1. PICK refuse \in BOOLEAN :
           /\ Has("shrink", Reducible(d, LISTMIN), refuse)
           /\ IF DestroyFaults(d, LISTMIN, refuse) THEN Fails("lists")
              ELSE lists' = Shrunk(d, LISTMIN, refuse) /\ UNCHANGED <<nodes, fault>>
    BY <1>3, <1>5 DEF destroyList
  <2>2. /\ refused' \in {"no"} \cup Refused
        /\ refused = "shrink" => refused' = "shrink"
        /\ refuse => refused' = "shrink"
        /\ ~ refuse => refused' = refused
    <3> DEFINE needed == Reducible(d, LISTMIN)
    <3>1. Has("shrink", needed, refuse)
      BY <2>1
    <3> HIDE DEF needed
    <3> QED
      BY <3>1, HasParts
  <2>3. CASE DestroyFaults(d, LISTMIN, refuse)
    <3>1. lists' = lists /\ nodes' = nodes /\ fault' = "lists"
      BY <2>1, <2>3 DEF Fails
    <3>2. ~ refuse /\ DecreaseFaults(lists)
      BY <1>0, <1>2, <2>3, DestroyFaultsIs
    <3>3. Sound(lists', LISTMIN, refused') /\ Sound(nodes', NODEMIN, refused')
      BY <1>1, <2>2, <3>1, SoundLater
    <3>4. FaultyArena' = lists /\ refused' = "shrink"
      BY <1>2, <2>2, <3>1, <3>2 DEF FaultyArena, Tight
    <3> QED
      BY <2>2, <3>1, <3>2, <3>3, <3>4 DEF Leaves
  <2>4. CASE ~ DestroyFaults(d, LISTMIN, refuse)
    <3>1. lists' = Shrunk(d, LISTMIN, refuse) /\ nodes' = nodes /\ fault' = "no"
      BY <2>1, <2>4
    <3>2. /\ ArenaInv(lists', LISTMIN) /\ lists'.allocated = lists.allocated
          /\ ~ refuse /\ Tight(lists, LISTMIN) => Tight(lists', LISTMIN)
      BY <1>0, <1>2, <2>4, <3>1, DestroySound
    <3>3. Sound(lists', LISTMIN, refused')
      BY <1>2, <2>2, <3>2 DEF Sound
    <3>4. Sound(nodes', NODEMIN, refused')
      BY <1>1, <2>2, <3>1, SoundLater
    <3> QED
      BY <2>2, <3>1, <3>3, <3>4 DEF Leaves, Faulty
  <2> QED
    BY <2>3, <2>4
<1> QED
  BY <1>4, <1>5

LEMMA NextLeaves ==
    ASSUME AllocInv, Next
    PROVE  Leaves
<1>1. fault = "no"
  BY DEF Next
<1>2. CASE newList
  BY <1>1, <1>2, NewListLeaves
<1>3. CASE InitRefused
  BY <1>1, <1>3, InitRefusedLeaves
<1>4. CASE newNode
  BY <1>1, <1>4, NewNodeLeaves
<1>5. CASE \E i \in nodes.held : destroyNode(i)
  BY <1>1, <1>5, DestroyNodeLeaves
<1>6. CASE \E i \in lists.held : destroyList(i)
  BY <1>1, <1>6, DestroyListLeaves
<1> QED
  BY <1>2, <1>3, <1>4, <1>5, <1>6 DEF Next

LEMMA InvInit ==
    ASSUME Init
    PROVE  AllocInv
<1>1. lists = Unallocated /\ nodes = Unallocated /\ fault = "no" /\ refused = "no"
  BY DEF Init
<1> QED
  BY <1>1, UnallocatedParts DEF AllocInv, TypeOK, Sound

LEMMA InvNext ==
    ASSUME AllocInv, [Next]_vars
    PROVE  AllocInv'
<1>1. CASE Next
  <2>1. Leaves
    BY <1>1, NextLeaves
  <2>2. ArenaType(lists') /\ ArenaType(nodes')
    BY <2>1, SoundType DEF Leaves
  <2>3. TypeOK'
    BY <2>1, <2>2 DEF Leaves, TypeOK
  <2> QED
    BY <2>1, <2>3 DEF Leaves, AllocInv
<1>2. CASE UNCHANGED vars
  BY <1>2 DEF vars, AllocInv, TypeOK
<1> QED
  BY <1>1, <1>2

LEMMA InvAlways == Spec => []AllocInv
<1>1. Init => AllocInv
  BY InvInit
<1>2. AllocInv /\ [Next]_vars => AllocInv'
  BY InvNext
<1> QED
  BY <1>1, <1>2, PTL DEF Spec

-----------------------------------------------------------------------------
(* The theorems.                                                            *)

\* The counters, pointers and indices of both arenas stay within their ranges,
\* whatever their smallest sizes, however many structs are made and wherever memory
\* is refused.
THEOREM TypeCorrect == Spec => []TypeOK
<1>1. AllocInv => TypeOK
  BY DEF AllocInv
<1> QED
  BY <1>1, InvAlways, PTL

LEMMA SoundFinds ==
    ASSUME NEW min \in Nat \ {0}, NEW a, NEW place, Sound(a, min, place)
    PROVE  Finds(a)
<1>1. CASE a.allocated
  <2> DEFINE h == a.held
             slot == a.slot
             table == a.table
  <2>1. ArenaInv(a, min)
    BY <1>1 DEF Sound
  <2>2. Located(h, table, slot) /\ a.used = Cardinality(h)
    BY <2>1 DEF ArenaInv
  <2>3. h \subseteq 1..TableSize(a)
    BY <2>1, ArenaFacts
  <2> HIDE DEF h, slot, table
  <2>4. \A i \in h : i \notin {0, Stale}
    BY <2>3 DEF Stale
  <2>5. {s \in DOMAIN slot : slot[s] \notin {0, Stale}} = {table[i] : i \in h}
    BY <2>2, <2>4 DEF Located
  <2>6. \A i \in h : table[i] \in DOMAIN slot /\ slot[table[i]] = i
    BY <2>2 DEF Located
  <2> QED
    BY <2>2, <2>5, <2>6 DEF Finds, h, slot, table
<1>2. CASE ~ a.allocated
  <2>1. a.held = {} /\ a.used = 0 /\ a.slot = <<>>
    BY <1>2, UnallocatedParts DEF Sound
  <2>2. DOMAIN a.slot = {} /\ Cardinality(a.held) = 0
    BY <2>1, FS_EmptySet
  <2> QED
    BY <2>1, <2>2 DEF Finds
<1> QED
  BY <1>1, <1>2

\* An index that newList or newNode returned leads to the struct made for it until it
\* is destroyed, however often nodeMemIncrease and nodeMemDecrease moved the arenas
\* in between.
THEOREM HandlesAlwaysFind == Spec => []HandlesFind
<1>1. AllocInv => HandlesFind
  BY SoundFinds, SmallestSizes DEF AllocInv, HandlesFind
<1> QED
  BY <1>1, InvAlways, PTL

LEMMA SoundAccounts ==
    ASSUME NEW min \in Nat \ {0}, NEW a, NEW place, Sound(a, min, place), ~ DecreaseFaults(a)
    PROVE  Accounts(a)
<1>1. CASE a.allocated
  <2> DEFINE n == Size(a)
             t == TableSize(a)
             h == a.held
             slot == a.slot
             table == a.table
             free == a.free
             index == a.free_index
  <2>1. ArenaInv(a, min)
    BY <1>1 DEF Sound
  <2>2. /\ Located(h, table, slot) /\ a.used = Cardinality(h)
        /\ Begins(free, Zero(slot)) /\ Lists(index, t, h) /\ Len(index) = t - a.used
    BY <2>1 DEF ArenaInv
  <2>3. /\ n \in Nat /\ t \in Nat /\ DOMAIN slot = 1..n /\ DOMAIN table = 1..t
        /\ free \in Seq(Int)
    BY <2>1, ArenaFacts
  <2>4. \A s \in 1..n : slot[s] # Stale
    BY <2>3 DEF DecreaseFaults
  <2>5. Accounts(a) <=>
          /\ Len(free) >= n - a.used
          /\ {free[k] : k \in 1..(n - a.used)} = {s \in DOMAIN slot : slot[s] = 0}
          /\ {index[k] : k \in DOMAIN index} = DOMAIN table \ h
          /\ Len(index) = t - a.used
    BY DEF Accounts
  <2> HIDE DEF n, t, h, slot, table, free, index
  <2>6. Cardinality(InUse(slot)) = Cardinality(h)
    BY <2>2, <2>3, LocatedCount
  <2>7. Cardinality(Zero(slot)) = n - a.used
    BY <2>2, <2>3, <2>4, <2>6, ZeroCount
  <2>8. /\ Cardinality(Zero(slot)) \in 0..Len(free)
        /\ {free[k] : k \in 1..Cardinality(Zero(slot))} = Zero(slot)
    BY <2>2, <2>3, BeginsCount
  <2>9. Len(free) >= n - a.used
    <3>1. Cardinality(Zero(slot)) <= Len(free) /\ Len(free) \in Nat
      BY <2>3, <2>8
    <3> QED
      BY <2>7, <3>1
  <2>10. {index[k] : k \in DOMAIN index} = DOMAIN table \ h
    BY <2>2, <2>3 DEF Lists
  <2> QED
    BY <2>2, <2>5, <2>7, <2>8, <2>9, <2>10 DEF Zero
<1>2. CASE ~ a.allocated
  <2> DEFINE e == <<>>
  <2>1. /\ Size(a) - a.used = 0 /\ TableSize(a) - a.used = 0 /\ a.held = {}
        /\ a.slot = e /\ a.table = e /\ a.free = e /\ a.free_index = e
    BY <1>2, UnallocatedParts DEF Sound
  <2>2. DOMAIN e = {} /\ Len(e) = 0
    OBVIOUS
  <2> HIDE DEF e
  <2> QED
    BY <2>1, <2>2 DEF Accounts
<1> QED
  BY <1>1, <1>2

\* The free lists hold exactly what is free, once, as long as every slot was written:
\* no struct is given to two callers and none is lost.
THEOREM FreeListsAlwaysAccount == Spec => []FreeListsAccount
<1>1. AllocInv => FreeListsAccount
  BY SoundAccounts, SmallestSizes DEF AllocInv, FreeListsAccount
<1> QED
  BY <1>1, InvAlways, PTL

\* While no memory was refused, a pointer that points nowhere is used only by
\* nodeMemIncrease or listMemIncrease, when the arena was reduced before and one of
\* its low indices is free.
THEOREM GrowthFaultsOnly == Spec => OnlyGrowthFaults
<1>1. AllocInv /\ [Next]_vars => [Faulty' /\ refused' = "no" => Regrowth(FaultyArena')]_vars
  BY NextLeaves DEF Leaves
<1> QED
  BY <1>1, InvAlways, PTL DEF Spec, OnlyGrowthFaults

\* A refused allocation adds three: of the arenas, of the larger arena, and of the
\* smaller one, the last only once slots were never written.
THEOREM RefusalFaultsOnly == Spec => OnlyRefusalFaults
<1>1. AllocInv /\ [Next]_vars =>
        [ Faulty' => \/ Regrowth(FaultyArena')
                     \/ refused' = "init" /\ ~ lists.allocated
                     \/ refused' = "grow" /\ refused = "no"
                     \/ refused' = "shrink" /\ DecreaseFaults(FaultyArena') ]_vars
  BY NextLeaves DEF Leaves
<1> QED
  BY <1>1, InvAlways, PTL DEF Spec, OnlyRefusalFaults
=============================================================================
