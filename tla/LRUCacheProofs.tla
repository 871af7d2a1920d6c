--------------------------- MODULE LRUCacheProofs ---------------------------
(***************************************************************************)
(* Proofs about LRUCache: the tables that threads hold stay, and the hash     *)
(* table, the lists and the charge agree, for any number of threads, tables   *)
(* and shards.                                                                *)
(***************************************************************************)
EXTENDS LRUCache, FiniteSetTheorems, WellFoundedInduction, TLAPS

-----------------------------------------------------------------------------
\* Sequences of handles that have each element of a set once: the lists and chains.

Has(q, x) == \E i \in DOMAIN q : q[i] = x
ListOf(q, S) ==
    /\ q \in Seq(Handles)
    /\ \A x : Has(q, x) <=> x \in S
    /\ \A i, j \in DOMAIN q : q[i] = q[j] => i = j

LEMMA EmptyList == ListOf(<<>>, {})
  BY DEF ListOf, Has

\* Where the elements of a concatenation come from.
Concats(p, q, r) ==
    /\ r \in Seq(Handles) /\ Len(p) \in Nat
    /\ \A k \in DOMAIN r : \/ k \in DOMAIN p /\ r[k] = p[k]
                           \/ k - Len(p) \in DOMAIN q /\ r[k] = q[k - Len(p)] /\ k \in Nat
    /\ \A k \in DOMAIN p : k \in DOMAIN r /\ r[k] = p[k]
    /\ \A k \in DOMAIN q : k + Len(p) \in DOMAIN r /\ r[k + Len(p)] = q[k]

LEMMA Concatenated ==
    ASSUME NEW p \in Seq(Handles), NEW q \in Seq(Handles) PROVE Concats(p, q, p \o q)
  BY DEF Concats

LEMMA ListJoin ==
    ASSUME NEW p, NEW q, NEW A, NEW B, ListOf(p, A), ListOf(q, B), A \cap B = {}
    PROVE  ListOf(p \o q, A \cup B)
  <1> DEFINE r == p \o q
  <1>1. p \in Seq(Handles) /\ q \in Seq(Handles)
    BY Zenon DEF ListOf
  <1>2. Concats(p, q, r)
    BY <1>1, Concatenated, Zenon
  <1> HIDE DEF r
  <1>3. \A x : Has(r, x) <=> x \in A \cup B
    <2> TAKE x
    <2>1. (Has(p, x) <=> x \in A) /\ (Has(q, x) <=> x \in B)
      BY Zenon DEF ListOf
    <2>2. ASSUME Has(r, x) PROVE Has(p, x) \/ Has(q, x)
      BY <1>2, <2>2, Zenon DEF Has, Concats
    <2>3. ASSUME Has(p, x) PROVE Has(r, x)
      BY <1>2, <2>3, Zenon DEF Has, Concats
    <2>4. ASSUME Has(q, x) PROVE Has(r, x)
      BY <1>2, <2>4, Zenon DEF Has, Concats
    <2> QED
      BY <2>1, <2>2, <2>3, <2>4, Zenon
  <1>4. ASSUME NEW i \in DOMAIN p, NEW j \in DOMAIN q, p[i] = q[j] PROVE FALSE
    <2>1. p[i] \in A
      BY Zenon DEF ListOf, Has
    <2>2. q[j] \in B
      BY Zenon DEF ListOf, Has
    <2> QED
      BY <1>4, <2>1, <2>2, Zenon
  <1>5. ASSUME NEW i \in DOMAIN r, NEW j \in DOMAIN r, r[i] = r[j] PROVE i = j
    <2>1. CASE i \in DOMAIN p /\ r[i] = p[i] /\ j \in DOMAIN p /\ r[j] = p[j]
      BY <1>5, <2>1, Zenon DEF ListOf
    <2>2. CASE /\ i - Len(p) \in DOMAIN q /\ r[i] = q[i - Len(p)] /\ i \in Nat
               /\ j - Len(p) \in DOMAIN q /\ r[j] = q[j - Len(p)] /\ j \in Nat
      <3>1. i - Len(p) = j - Len(p)
        BY <1>5, <2>2, Zenon DEF ListOf
      <3>2. Len(p) \in Nat
        BY <1>2, Zenon DEF Concats
      <3> QED
        BY <2>2, <3>1, <3>2
    <2>3. CASE i \in DOMAIN p /\ r[i] = p[i] /\ j - Len(p) \in DOMAIN q /\ r[j] = q[j - Len(p)]
      BY <1>4, <1>5, <2>3, Zenon
    <2>4. CASE j \in DOMAIN p /\ r[j] = p[j] /\ i - Len(p) \in DOMAIN q /\ r[i] = q[i - Len(p)]
      BY <1>4, <1>5, <2>4, Zenon
    <2> QED
      BY <1>2, <2>1, <2>2, <2>3, <2>4, Zenon DEF Concats
  <1>6. r \in Seq(Handles)
    BY <1>2, Zenon DEF Concats
  <1> QED
    BY <1>3, <1>5, <1>6, Zenon DEF ListOf, r

LEMMA ListOne == ASSUME NEW h \in Handles PROVE ListOf(<<h>>, {h})
  <1>1. <<h>> \in Seq(Handles) /\ DOMAIN <<h>> = {1} /\ <<h>>[1] = h
    OBVIOUS
  <1> DEFINE q == <<h>>
  <1> HIDE DEF q
  <1>2. q \in Seq(Handles) /\ DOMAIN q = {1} /\ q[1] = h
    BY <1>1, Zenon DEF q
  <1>3. ListOf(q, {h})
    BY <1>2, Zenon DEF ListOf, Has
  <1> QED
    BY <1>3, Zenon DEF q

LEMMA ListCons ==
    ASSUME NEW q, NEW S, ListOf(q, S), NEW h \in Handles, h \notin S
    PROVE  ListOf(<<h>> \o q, {h} \cup S)
  <1>1. {h} \cap S = {}
    OBVIOUS
  <1> QED
    BY <1>1, ListOne, ListJoin, Zenon

LEMMA ListAppend ==
    ASSUME NEW q, NEW S, ListOf(q, S), NEW h \in Handles, h \notin S
    PROVE  ListOf(Append(q, h), S \cup {h})
  <1>1. S \cap {h} = {}
    OBVIOUS
  <1>2. Append(q, h) = q \o <<h>>
    BY DEF ListOf
  <1>3. ListOf(q \o <<h>>, S \cup {h})
    BY <1>1, ListOne, ListJoin, Zenon
  <1> QED
    BY <1>2, <1>3

\* Without the element at i.
Shorter(q, i, r) ==
    /\ r \in Seq(Handles)
    /\ \A k \in DOMAIN r : \/ k < i /\ k \in DOMAIN q /\ r[k] = q[k]
                           \/ ~(k < i) /\ k + 1 # i /\ k + 1 \in DOMAIN q /\ r[k] = q[k + 1]
    /\ \A k \in DOMAIN q : \/ k = i
                           \/ k \in DOMAIN r /\ r[k] = q[k]
                           \/ k - 1 \in DOMAIN r /\ r[k - 1] = q[k]
    /\ \A k, l \in DOMAIN r : k + 1 = l + 1 => k = l
    /\ \A k, l \in DOMAIN r : k < i /\ ~(l < i) => k # l + 1
    /\ \A k \in DOMAIN r : k < i => k # i

LEMMA ShorterAt ==
    ASSUME NEW q \in Seq(Handles), NEW i \in DOMAIN q PROVE Shorter(q, i, RemoveAt(q, i))
  <1> DEFINE a == SubSeq(q, 1, i - 1)
             b == SubSeq(q, i + 1, Len(q))
  <1>1. i \in 1 .. Len(q) /\ Len(q) \in Nat
    OBVIOUS
  <1>2. a \in Seq(Handles) /\ Len(a) = i - 1 /\ \A k \in 1 .. i - 1 : a[k] = q[k]
    BY <1>1
  <1>3. b \in Seq(Handles) /\ Len(b) = Len(q) - i /\ \A k \in 1 .. Len(q) - i : b[k] = q[k + i]
    BY <1>1
  <1>4. RemoveAt(q, i) = a \o b
    BY Zenon DEF RemoveAt
  <1> HIDE DEF a, b
  <1> DEFINE r == a \o b
  <1>5. r \in Seq(Handles) /\ Len(r) = Len(q) - 1
        /\ \A k \in 1 .. Len(r) : r[k] = IF k < i THEN a[k] ELSE b[k - (i - 1)]
    <2>1. r \in Seq(Handles) /\ Len(r) = Len(a) + Len(b)
          /\ \A k \in 1 .. Len(a) + Len(b) : r[k] = IF k <= Len(a) THEN a[k] ELSE b[k - Len(a)]
      BY <1>2, <1>3, SMTT(40)
    <2>2. Len(a) + Len(b) = Len(q) - 1
      BY <1>1, <1>2, <1>3
    <2> DEFINE n == Len(q)
               m == Len(a)
    <2>3. m = i - 1 /\ n \in Nat /\ i \in 1 .. n /\ m + Len(b) = n - 1
      BY <1>1, <1>2, <2>2
    <2>4. r \in Seq(Handles) /\ Len(r) = n - 1
          /\ \A k \in 1 .. n - 1 : r[k] = IF k <= m THEN a[k] ELSE b[k - m]
      BY <2>1, <2>3, Zenon
    <2> HIDE DEF n, m
    <2>5. \A k \in 1 .. n - 1 : r[k] = IF k < i THEN a[k] ELSE b[k - (i - 1)]
      <3>1. \A k \in 1 .. n - 1 : k <= m <=> k < i
        BY <2>3
      <3> QED
        BY <2>3, <2>4, <3>1, Zenon
    <2> QED
      BY <2>4, <2>5, Zenon DEF n
  <1> HIDE DEF r
  <1>6. DOMAIN r = 1 .. Len(q) - 1 /\ DOMAIN q = 1 .. Len(q)
    BY <1>5
  <1>7. \A k \in 1 .. Len(q) - 1 : r[k] = IF k < i THEN q[k] ELSE q[k + 1]
    <2> TAKE k \in 1 .. Len(q) - 1
    <2>1. CASE k < i
      BY <1>1, <1>2, <1>5, <2>1
    <2>2. CASE ~(k < i)
      <3>1. k - (i - 1) \in 1 .. Len(q) - i /\ (k - (i - 1)) + i = k + 1
        BY <1>1, <2>2
      <3> QED
        BY <1>1, <1>3, <1>5, <2>2, <3>1
    <2> QED
      BY <2>1, <2>2
  <1>8. Shorter(q, i, r)
    <2> DEFINE n == Len(q)
    <2> HIDE DEF n
    <2>1. \A k \in DOMAIN r : \/ k < i /\ k \in DOMAIN q /\ r[k] = q[k]
                              \/ ~(k < i) /\ k + 1 # i /\ k + 1 \in DOMAIN q /\ r[k] = q[k + 1]
      BY <1>1, <1>6, <1>7
    <2>2. \A k \in DOMAIN q : \/ k = i
                              \/ k \in DOMAIN r /\ r[k] = q[k]
                              \/ k - 1 \in DOMAIN r /\ r[k - 1] = q[k]
      BY <1>1, <1>6, <1>7
    <2>3. /\ \A k, l \in DOMAIN r : k + 1 = l + 1 => k = l
          /\ \A k, l \in DOMAIN r : k < i /\ ~(l < i) => k # l + 1
          /\ \A k \in DOMAIN r : k < i => k # i
      BY <1>1, <1>6
    <2> QED
      BY <1>5, <2>1, <2>2, <2>3, Zenon DEF Shorter
  <1> QED
    BY <1>4, <1>8, Zenon DEF r

LEMMA ListRemoveAt ==
    ASSUME NEW q, NEW S, ListOf(q, S), NEW i \in DOMAIN q PROVE ListOf(RemoveAt(q, i), S \ {q[i]})
  <1> DEFINE r == RemoveAt(q, i)
  <1>1. q \in Seq(Handles)
    BY Zenon DEF ListOf
  <1>2. Shorter(q, i, r)
    BY <1>1, ShorterAt, Zenon
  <1> HIDE DEF r
  <1>3. \A k, l \in DOMAIN q : q[k] = q[l] => k = l
    BY Zenon DEF ListOf
  <1>4. \A x : Has(r, x) <=> x \in S \ {q[i]}
    <2> TAKE x
    <2>1. ASSUME Has(r, x) PROVE x \in S /\ x # q[i]
      <3>1. PICK k \in DOMAIN r : r[k] = x
        BY <2>1, Zenon DEF Has
      <3>2. \/ k < i /\ k \in DOMAIN q /\ r[k] = q[k]
            \/ ~(k < i) /\ k + 1 # i /\ k + 1 \in DOMAIN q /\ r[k] = q[k + 1]
        BY <1>2, Zenon DEF Shorter
      <3>3. k < i => k # i
        BY <1>2, Zenon DEF Shorter
      <3>4. Has(q, x)
        BY <3>1, <3>2, Zenon DEF Has
      <3>5. x # q[i]
        BY <1>3, <3>1, <3>2, <3>3, Zenon
      <3> QED
        BY <3>4, <3>5, Zenon DEF ListOf
    <2>2. ASSUME x \in S, x # q[i] PROVE Has(r, x)
      <3>1. PICK k \in DOMAIN q : q[k] = x
        BY <2>2, Zenon DEF ListOf, Has
      <3> QED
        BY <1>2, <2>2, <3>1, Zenon DEF Shorter, Has
    <2> QED
      BY <2>1, <2>2, Zenon
  <1>5. ASSUME NEW k \in DOMAIN r, NEW l \in DOMAIN r, r[k] = r[l] PROVE k = l
    <2>1. \/ k < i /\ k \in DOMAIN q /\ r[k] = q[k]
          \/ ~(k < i) /\ k + 1 \in DOMAIN q /\ r[k] = q[k + 1]
      BY <1>2, Zenon DEF Shorter
    <2>2. \/ l < i /\ l \in DOMAIN q /\ r[l] = q[l]
          \/ ~(l < i) /\ l + 1 \in DOMAIN q /\ r[l] = q[l + 1]
      BY <1>2, Zenon DEF Shorter
    <2>3. /\ k + 1 = l + 1 => k = l
          /\ k < i /\ ~(l < i) => k # l + 1
          /\ l < i /\ ~(k < i) => l # k + 1
      BY <1>2, Zenon DEF Shorter
    <2> QED
      BY <1>3, <1>5, <2>1, <2>2, <2>3, Zenon
  <1>6. r \in Seq(Handles)
    BY <1>2, Zenon DEF Shorter
  <1> QED
    BY <1>4, <1>5, <1>6, Zenon DEF ListOf, r

\* The first place of what is looked for.
LEMMA LeastOf ==
    ASSUME NEW S, S \subseteq Nat, S # {} PROVE \E m \in S : \A x \in S : m <= x
  <1> DEFINE less == OpToRel(<, Nat)
  <1>1. \A x, y \in Nat : <<x, y>> \in less <=> x < y
    BY DEF OpToRel
  <1>2. IsWellFoundedOn(less, Nat)
    BY NatLessThanWellFounded, Zenon
  <1> HIDE DEF less
  <1>3. PICK m \in S : \A x \in S : ~(<<x, m>> \in less)
    BY <1>2, WFMin
  <1>4. ASSUME NEW x \in S PROVE m <= x
    <2>1. x \in Nat /\ m \in Nat
      OBVIOUS
    <2>2. ~(x < m)
      BY <1>1, <1>3, <2>1
    <2> QED
      BY <2>1, <2>2
  <1> QED
    BY <1>4

LEMMA MinIn == ASSUME NEW S, S \subseteq Nat, S # {} PROVE Min(S) \in S
  <1>1. \E m \in S : \A x \in S : m <= x
    BY LeastOf, Zenon
  <1> QED
    BY <1>1, Zenon DEF Min

LEMMA ListRemove ==
    ASSUME NEW q, NEW S, ListOf(q, S), NEW h PROVE ListOf(RemoveFirst(q, h), S \ {h})
  <1>1. q \in Seq(Handles)
    BY Zenon DEF ListOf
  <1>2. DOMAIN q = 1 .. Len(q) /\ DOMAIN q \subseteq Nat
    BY <1>1
  <1>3. CASE Has(q, h)
    <2> DEFINE I == {j \in 1 .. Len(q) : q[j] = h}
               i == Min(I)
    <2>1. I \subseteq Nat /\ I # {}
      BY <1>2, <1>3, Zenon DEF Has
    <2>2. i \in I
      BY <2>1, MinIn, Zenon
    <2>3. SelectInSeq(q, LAMBDA v : v = h) = i
      BY <2>1, Zenon DEF SelectInSeq
    <2>4. RemoveFirst(q, h) = RemoveAt(q, i)
      BY <1>2, <1>3, <2>3, Zenon DEF RemoveFirst, Has
    <2> HIDE DEF i
    <2>5. i \in DOMAIN q /\ q[i] = h
      BY <1>2, <2>2, Zenon
    <2>6. ListOf(RemoveAt(q, i), S \ {q[i]})
      BY <2>5, ListRemoveAt, Zenon
    <2> HIDE DEF I
    <2> QED
      BY <2>4, <2>5, <2>6, Zenon
  <1>4. CASE ~Has(q, h)
    <2>1. RemoveFirst(q, h) = q
      BY <1>2, <1>4, Zenon DEF RemoveFirst, Has
    <2>2. h \notin S
      BY <1>4, Zenon DEF ListOf
    <2>3. S \ {h} = S
      BY <2>2
    <2> QED
      BY <2>1, <2>3, Zenon
  <1> QED
    BY <1>3, <1>4
-----------------------------------------------------------------------------
\* Recursive functions.

LEMMA Steps ==
    ASSUME NEW n \in Nat, NEW P, 0 \in P, \A k \in 1 .. n : k - 1 \in P => k \in P
    PROVE  \A k \in 0 .. n : k \in P
  <1> DEFINE bad == {k \in 0 .. n : k \notin P}
  <1> SUFFICES ASSUME bad # {} PROVE FALSE
    BY Zenon
  <1>1. PICK m \in bad : \A x \in bad : m <= x
    <2>1. bad \subseteq Nat
      OBVIOUS
    <2> HIDE DEF bad
    <2> QED
      BY <2>1, LeastOf
  <1>2. m \in 1 .. n /\ m - 1 \in 0 .. n /\ ~(m <= m - 1)
    OBVIOUS
  <1>3. m - 1 \in P
    BY <1>1, <1>2, Zenon
  <1> QED
    BY <1>2, <1>3, Zenon

Recurs(f, n, a, step) == f = [k \in 0 .. n |-> IF k = 0 THEN a ELSE step[k][f[k - 1]]]

LEMMA RecursNext ==
    ASSUME NEW S, NEW a \in S, NEW step, NEW m \in Nat, \A x \in S : step[m + 1][x] \in S,
           NEW f \in [0 .. m -> S], Recurs(f, m, a, step)
    PROVE  \E g \in [0 .. m + 1 -> S] : Recurs(g, m + 1, a, step)
  <1> DEFINE g == [k \in 0 .. m + 1 |-> IF k = m + 1 THEN step[m + 1][f[m]] ELSE f[k]]
  <1>1. ASSUME NEW k \in 0 .. m + 1
        PROVE  g[k] \in S /\ g[k] = IF k = 0 THEN a ELSE step[k][g[k - 1]]
    <2>1. CASE k = m + 1
      <3>1. m \in 0 .. m /\ m \in 0 .. m + 1 /\ m # m + 1 /\ m + 1 # 0 /\ (m + 1) - 1 = m
            /\ m + 1 \in 0 .. m + 1
        OBVIOUS
      <3>2. g[m + 1] = step[m + 1][f[m]] /\ g[m] = f[m] /\ f[m] \in S
        BY <3>1, Zenon
      <3> HIDE DEF g
      <3> QED
        BY <2>1, <3>1, <3>2, Zenon
    <2>2. CASE k \in 0 .. m
      <3>1. f[k] = IF k = 0 THEN a ELSE step[k][f[k - 1]]
        BY <2>2, Zenon DEF Recurs
      <3>2. g[k] = f[k] /\ (k # 0 => g[k - 1] = f[k - 1]) /\ f[k] \in S
        BY <2>2
      <3> HIDE DEF g
      <3> QED
        BY <3>1, <3>2, Zenon
    <2> QED
      BY <2>1, <2>2
  <1>2. g = [k \in 0 .. m + 1 |-> g[k]]
    OBVIOUS
  <1> HIDE DEF g
  <1>3. g \in [0 .. m + 1 -> S]
    BY <1>1, <1>2
  <1>4. Recurs(g, m + 1, a, step)
    BY <1>1, <1>2 DEF Recurs
  <1> QED
    BY <1>3, <1>4, Zenon

LEMMA RecursSome ==
    ASSUME NEW S, NEW a \in S, NEW n \in Nat, NEW step, \A k \in 1 .. n : \A x \in S : step[k][x] \in S
    PROVE  \E f \in [0 .. n -> S] : Recurs(f, n, a, step)
  <1> DEFINE P == {m \in 0 .. n : \E f \in [0 .. m -> S] : Recurs(f, m, a, step)}
  <1>1. 0 \in P
    <2> DEFINE f == [k \in 0 .. 0 |-> a]
    <2>1. f \in [0 .. 0 -> S]
      OBVIOUS
    <2>2. f = [k \in 0 .. 0 |-> IF k = 0 THEN a ELSE step[k][f[k - 1]]]
      OBVIOUS
    <2>3. 0 \in 0 .. n
      OBVIOUS
    <2> HIDE DEF f
    <2>4. Recurs(f, 0, a, step)
      BY <2>2, Zenon DEF Recurs
    <2> QED
      BY <2>1, <2>3, <2>4, Zenon
  <1>2. ASSUME NEW k \in 1 .. n, k - 1 \in P PROVE k \in P
    <2> DEFINE m == k - 1
    <2>1. m \in Nat /\ m + 1 = k /\ k \in 0 .. n
      OBVIOUS
    <2>2. PICK f \in [0 .. m -> S] : Recurs(f, m, a, step)
      BY <1>2, Zenon
    <2> HIDE DEF m
    <2>3. \A x \in S : step[m + 1][x] \in S
      BY <2>1, Zenon
    <2>4. \E g \in [0 .. m + 1 -> S] : Recurs(g, m + 1, a, step)
      BY <2>1, <2>2, <2>3, RecursNext, Zenon
    <2> QED
      BY <2>1, <2>4, Zenon
  <1> HIDE DEF P
  <1>3. n \in P
    <2>1. \A k \in 0 .. n : k \in P
      BY <1>1, <1>2, Steps, Zenon
    <2>2. n \in 0 .. n
      OBVIOUS
    <2> QED
      BY <2>1, <2>2, Zenon
  <1> QED
    BY <1>3, Zenon DEF P

-----------------------------------------------------------------------------
\* What FlattenSeq makes of the chains of a hash table.

\* The recursive function of FlattenSeq, up to the m-th sequence.
Flattens(f, B, m) ==
    f = [i \in 1 .. m |-> IF i = 1 THEN B[i] ELSE f[i - 1] \o B[i]]

LEMMA FlattensNext ==
    ASSUME NEW B, NEW m \in Nat, m # 0, NEW f, Flattens(f, B, m) PROVE \E g : Flattens(g, B, m + 1)
  <1> DEFINE g == [i \in 1 .. m + 1 |-> IF i = m + 1 THEN f[m] \o B[m + 1] ELSE f[i]]
  <1>1. \A i \in 1 .. m + 1 : g[i] = IF i = 1 THEN B[i] ELSE g[i - 1] \o B[i]
    <2> TAKE i \in 1 .. m + 1
    <2>1. CASE i = m + 1
      <3>1. m \in 1 .. m + 1 /\ m # m + 1 /\ m + 1 # 1 /\ (m + 1) - 1 = m /\ m + 1 \in 1 .. m + 1
        OBVIOUS
      <3>2. g[m + 1] = f[m] \o B[m + 1] /\ g[m] = f[m]
        BY <3>1, Zenon
      <3> HIDE DEF g
      <3> QED
        BY <2>1, <3>1, <3>2, Zenon
    <2>2. CASE i \in 1 .. m
      <3>1. f[i] = IF i = 1 THEN B[i] ELSE f[i - 1] \o B[i]
        BY <2>2, Zenon DEF Flattens
      <3>2. g[i] = f[i] /\ (i # 1 => g[i - 1] = f[i - 1])
        BY <2>2
      <3> HIDE DEF g
      <3> QED
        BY <3>1, <3>2, Zenon
    <2> QED
      BY <2>1, <2>2
  <1>2. g = [i \in 1 .. m + 1 |-> g[i]]
    OBVIOUS
  <1> HIDE DEF g
  <1>3. Flattens(g, B, m + 1)
    BY <1>1, <1>2 DEF Flattens
  <1> QED
    BY <1>3, Zenon

LEMMA FlattensSome ==
    ASSUME NEW B, NEW n \in Nat, n # 0 PROVE \E f : Flattens(f, B, n)
  <1> DEFINE bad == {m \in Nat : m # 0 /\ ~\E f : Flattens(f, B, m)}
  <1> SUFFICES ASSUME bad # {} PROVE FALSE
    BY Zenon
  <1>1. PICK m \in bad : \A x \in bad : m <= x
    <2>1. bad \subseteq Nat
      OBVIOUS
    <2> HIDE DEF bad
    <2> QED
      BY <2>1, LeastOf
  <1>2. CASE m = 1
    <2>1. Flattens([i \in 1 .. 1 |-> B[i]], B, 1)
      BY DEF Flattens
    <2> QED
      BY <1>2, <2>1, Zenon
  <1>3. CASE m # 1
    <2>1. m - 1 \in Nat /\ m - 1 # 0 /\ ~(m <= m - 1) /\ (m - 1) + 1 = m
      BY <1>3
    <2>2. (m - 1) \notin bad
      BY <1>1, <2>1, Zenon
    <2>3. \E f : Flattens(f, B, m - 1)
      BY <2>1, <2>2, Zenon
    <2>4. \E f : Flattens(f, B, m)
      BY <2>1, <2>3, FlattensNext, Zenon
    <2> QED
      BY <2>4, Zenon
  <1> QED
    BY <1>2, <1>3

\* Every handle of the chains is in the sequence, once, and nothing else.
LEMMA FlattenedList ==
    ASSUME NEW t \in Seq(Seq(Handles)), Len(t) # 0, NEW slot,
           \A b \in DOMAIN t : ListOf(t[b], slot[b]),
           \A b, e \in DOMAIN t : b # e => slot[b] \cap slot[e] = {}
    PROVE  ListOf(FlattenSeq(t), UNION {slot[b] : b \in DOMAIN t})
  <1> DEFINE n == Len(t)
             f == CHOOSE g : Flattens(g, t, n)
             first(m) == UNION {slot[b] : b \in 1 .. m}
             P == {m \in 0 .. n : m = 0 \/ ListOf(f[m], first(m))}
  <1>1. FlattenSeq(t) = f[n]
    BY Zenon DEF FlattenSeq, Flattens
  <1>2. n \in Nat /\ n # 0 /\ DOMAIN t = 1 .. n
    OBVIOUS
  <1>3. Flattens(f, t, n)
    BY <1>2, FlattensSome, Zenon
  <1> HIDE DEF f
  <1>4. \A i \in 1 .. n : f[i] = IF i = 1 THEN t[i] ELSE f[i - 1] \o t[i]
    BY <1>3, Zenon DEF Flattens
  <1> HIDE DEF n
  <1>5. ASSUME NEW k \in 1 .. n, k - 1 \in P PROVE k \in P
    <2>1. k \in 0 .. n /\ k \in DOMAIN t
      BY <1>2
    <2>2. CASE k = 1
      <3>1. first(1) = slot[1]
        <4>1. 1 .. 1 = {1}
          OBVIOUS
        <4> QED
          BY <4>1
      <3>2. f[1] = t[1] /\ ListOf(t[1], slot[1])
        BY <1>4, <2>1, <2>2, Zenon
      <3> HIDE DEF first
      <3>3. ListOf(f[1], first(1))
        BY <3>1, <3>2, Zenon
      <3> QED
        BY <2>1, <2>2, <3>3, Zenon
    <2>3. CASE k # 1
      <3> DEFINE m == k - 1
      <3>1. m # 0 /\ m \in 1 .. n /\ \A b : b \in 1 .. k <=> b \in 1 .. m \/ b = k
        BY <1>2, <2>3
      <3>2. \A b \in 1 .. m : b # k /\ b \in DOMAIN t
        BY <1>2
      <3>3. f[k] = f[m] \o t[k]
        BY <1>4, <2>3, Zenon
      <3>4. m \in P
        BY <1>5, Zenon
      <3> HIDE DEF m
      <3>5. ListOf(f[m], first(m))
        BY <3>1, <3>4, Zenon
      <3>6. ListOf(t[k], slot[k])
        BY <2>1, Zenon
      <3>7. first(m) \cap slot[k] = {}
        <4> SUFFICES ASSUME NEW x \in first(m), x \in slot[k] PROVE FALSE
          BY Zenon
        <4>1. PICK b \in 1 .. m : x \in slot[b]
          BY Zenon
        <4>2. slot[b] \cap slot[k] = {}
          BY <2>1, <3>2, Zenon
        <4> QED
          BY <4>1, <4>2, Zenon
      <3>8. first(k) = first(m) \cup slot[k]
        BY <3>1, Zenon
      <3> HIDE DEF first
      <3>9. ListOf(f[k], first(k))
        <4>1. ListOf(f[m] \o t[k], first(m) \cup slot[k])
          BY <3>5, <3>6, <3>7, ListJoin, Zenon
        <4> QED
          BY <3>3, <3>8, <4>1, Zenon
      <3> QED
        BY <2>1, <3>9, Zenon
    <2> QED
      BY <2>2, <2>3
  <1>6. 0 \in P /\ n \in 0 .. n
    BY <1>2
  <1>7. n \in P
    <2> HIDE DEF P
    <2>1. \A k \in 0 .. n : k \in P
      BY <1>2, <1>5, <1>6, Steps, Zenon
    <2> QED
      BY <1>6, <2>1, Zenon
  <1>8. ListOf(f[n], first(n))
    BY <1>2, <1>7, Zenon
  <1>9. first(n) = UNION {slot[b] : b \in DOMAIN t}
    BY <1>2, Zenon
  <1> HIDE DEF first
  <1> QED
    BY <1>1, <1>8, <1>9, Zenon

\* As long as it has elements.
LEMMA ListCounts ==
    ASSUME NEW q, NEW S, ListOf(q, S) PROVE IsFiniteSet(S) /\ Cardinality(S) = Len(q)
  <1> DEFINE n == Len(q)
  <1>1. q \in Seq(Handles)
    BY Zenon DEF ListOf
  <1>2. n \in Nat /\ DOMAIN q = 1 .. n
    BY <1>1
  <1>3. q = [i \in 1 .. n |-> q[i]]
    BY <1>1
  <1> HIDE DEF n
  <1>4. \A i \in 1 .. n : q[i] \in S
    BY <1>2, Zenon DEF ListOf, Has
  <1>5. q \in [1 .. n -> S]
    BY <1>3, <1>4
  <1>6. q \in Bijection(1 .. n, S)
    BY <1>2, <1>5, Zenon DEF ListOf, Has, Bijection, Injection, Surjection, IsInjective
  <1>7. ExistsBijection(1 .. n, S)
    BY <1>6, Zenon DEF ExistsBijection
  <1>8. IsFiniteSet(1 .. n) /\ Cardinality(1 .. n) = n
    BY <1>2, FS_Interval
  <1> QED
    BY <1>7, <1>8, FS_Bijection, Zenon DEF n
-----------------------------------------------------------------------------
\* The hash table: the handles of T are in it, each in its chain.

HandleType == [file : Files \cup {0}, in_cache : BOOLEAN, refs : Nat, charge : {0, 1}]
ShardType(x) == [capacity : {x}, usage : Int, lru : Seq(Handles), in_use : Seq(Handles),
                 handle : [Handles -> HandleType], table : Seq(Seq(Handles))]

Slot(t, hd, T, b) == {h \in T : Bucket(t, hd[h].file) = b}
TableOK(t, hd, T) ==
    /\ t \in Seq(Seq(Handles)) /\ Len(t) # 0
    /\ T \subseteq Handles /\ \A h \in T : hd[h].file \in Files
    /\ \A g, h \in T : hd[g].file = hd[h].file => g = h
    /\ \A b \in DOMAIN t : ListOf(t[b], Slot(t, hd, T, b))

LEMMA BucketIn ==
    ASSUME NEW t, t \in Seq(Seq(Handles)), Len(t) # 0, NEW file \in Files
    PROVE  Bucket(t, file) \in DOMAIN t
  <1> DEFINE n == Len(t)
             x == Hash(file)
  <1>1. n \in Nat /\ n # 0 /\ DOMAIN t = 1 .. n
    OBVIOUS
  <1>2. x \in Nat
    BY CacheAssumption, Zenon
  <1>3. Bucket(t, file) = (x % n) + 1
    BY Zenon DEF Bucket
  <1> HIDE DEF n, x
  <1>4. (x % n) + 1 \in 1 .. n
    BY <1>1, <1>2
  <1> QED
    BY <1>1, <1>3, <1>4, Zenon

\* What a lookup gives.
LookedUp(hd, T, file, h) == \/ h \in T /\ hd[h].file = file
                            \/ h = 0 /\ \A g \in T : hd[g].file # file

PlaceOf(c, T, file, b, i) ==
    /\ LookedUp(c.handle, T, file, TableLookup(c, file))
    /\ b \in DOMAIN c.table
    /\ \/ i \in DOMAIN c.table[b] /\ TableLookup(c, file) = c.table[b][i]
          /\ TableLookup(c, file) \in T
       \/ i \notin DOMAIN c.table[b] /\ TableLookup(c, file) = 0

LEMMA Found ==
    ASSUME NEW c, NEW T, TableOK(c.table, c.handle, T), NEW file \in Files
    PROVE  PlaceOf(c, T, file, Bucket(c.table, file), FindPointer(c, file))
  <1> DEFINE t == c.table
             b == Bucket(t, file)
             i == FindPointer(c, file)
             chain == t[b]
             at == {j \in DOMAIN chain : c.handle[chain[j]].file = file}
  <1>1. t \in Seq(Seq(Handles)) /\ Len(t) # 0
    BY Zenon DEF TableOK
  <1>2. b \in DOMAIN t
    BY <1>1, BucketIn, Zenon
  <1>3. ListOf(chain, Slot(t, c.handle, T, b))
    BY <1>2, Zenon DEF TableOK
  <1>4. chain \in Seq(Handles)
    BY <1>3, Zenon DEF ListOf
  <1>5. i = IF at = {} THEN Len(chain) + 1 ELSE Min(at)
    BY Zenon DEF FindPointer
  <1>6. TableLookup(c, file) = IF i \in DOMAIN chain THEN chain[i] ELSE 0
    BY Zenon DEF TableLookup
  <1>7. at \subseteq Nat
    BY <1>4
  <1>8. \A h : Has(chain, h) <=> h \in T /\ Bucket(t, c.handle[h].file) = b
    BY <1>3, Zenon DEF ListOf, Slot
  <1>9. CASE at # {}
    <2>1. i \in at
      BY <1>5, <1>7, <1>9, MinIn, Zenon
    <2>2. i \in DOMAIN chain /\ c.handle[chain[i]].file = file
      BY <2>1, Zenon
    <2>3. chain[i] \in T
      BY <1>8, <2>2, Zenon DEF Has
    <2> HIDE DEF chain
    <2> QED
      BY <1>2, <1>6, <2>2, <2>3, Zenon DEF LookedUp, PlaceOf, chain
  <1>10. CASE at = {}
    <2>1. i \notin DOMAIN chain
      <3>1. Len(chain) + 1 \notin DOMAIN chain
        BY <1>4
      <3> QED
        BY <1>5, <1>10, <3>1, Zenon
    <2>2. ASSUME NEW h \in T, c.handle[h].file = file PROVE FALSE
      <3>1. Has(chain, h)
        BY <1>8, <2>2, Zenon
      <3>2. PICK j \in DOMAIN chain : chain[j] = h
        BY <3>1, Zenon DEF Has
      <3>3. j \in at
        BY <2>2, <3>2, Zenon
      <3> QED
        BY <1>10, <3>3, Zenon
    <2> QED
      BY <1>2, <1>6, <2>1, <2>2, Zenon DEF LookedUp, PlaceOf
  <1> QED
    BY <1>9, <1>10

\* One chain changes.
LEMMA ChainSet ==
    ASSUME NEW t, NEW hd, NEW T, TableOK(t, hd, T), NEW b \in DOMAIN t, NEW q, NEW U,
           U \subseteq Handles, \A h \in U : hd[h].file \in Files,
           \A g, h \in U : hd[g].file = hd[h].file => g = h,
           ListOf(q, Slot(t, hd, U, b)),
           \A e \in DOMAIN t : e # b => Slot(t, hd, U, e) = Slot(t, hd, T, e)
    PROVE  TableOK([t EXCEPT ![b] = q], hd, U)
  <1> DEFINE u == [t EXCEPT ![b] = q]
  <1>1. t \in Seq(Seq(Handles)) /\ Len(t) # 0
    BY Zenon DEF TableOK
  <1>2. q \in Seq(Handles)
    BY Zenon DEF ListOf
  <1>3. u \in Seq(Seq(Handles)) /\ Len(u) = Len(t) /\ DOMAIN u = DOMAIN t
        /\ \A e \in DOMAIN t : u[e] = IF e = b THEN q ELSE t[e]
    BY <1>1, <1>2
  <1> HIDE DEF u
  <1>4. \A e : Slot(u, hd, U, e) = Slot(t, hd, U, e)
    BY <1>3, Zenon DEF Slot, Bucket
  <1>5. ASSUME NEW e \in DOMAIN u PROVE ListOf(u[e], Slot(u, hd, U, e))
    <2>1. CASE e = b
      BY <1>3, <1>4, <2>1, Zenon
    <2>2. CASE e # b
      <3>1. ListOf(t[e], Slot(t, hd, T, e))
        BY <1>3, Zenon DEF TableOK
      <3> QED
        BY <1>3, <1>4, <2>2, <3>1, Zenon
    <2> QED
      BY <2>1, <2>2
  <1>6. TableOK(u, hd, U)
    BY <1>1, <1>3, <1>5, Zenon DEF TableOK
  <1> QED
    BY <1>6, Zenon DEF u

LEMMA ListReplace ==
    ASSUME NEW q, NEW S, ListOf(q, S), NEW i \in DOMAIN q, NEW h \in Handles, h \notin S
    PROVE  ListOf([q EXCEPT ![i] = h], (S \ {q[i]}) \cup {h})
  <1> DEFINE r == [q EXCEPT ![i] = h]
  <1>1. q \in Seq(Handles)
    BY Zenon DEF ListOf
  <1>2. r \in Seq(Handles) /\ DOMAIN r = DOMAIN q /\ \A k \in DOMAIN q : r[k] = IF k = i THEN h ELSE q[k]
    BY <1>1
  <1> HIDE DEF r
  <1>3. \A k \in DOMAIN q : q[k] # h /\ q[k] \in S /\ (q[k] = q[i] => k = i)
    BY Zenon DEF ListOf, Has
  <1>4. \A x : Has(r, x) <=> x \in (S \ {q[i]}) \cup {h}
    <2> TAKE x
    <2>1. ASSUME Has(r, x) PROVE x \in (S \ {q[i]}) \cup {h}
      BY <1>2, <1>3, <2>1, Zenon DEF Has
    <2>2. Has(r, h)
      BY <1>2, Zenon DEF Has
    <2>3. ASSUME x \in S, x # q[i] PROVE Has(r, x)
      <3>1. PICK k \in DOMAIN q : q[k] = x
        BY <2>3, Zenon DEF ListOf, Has
      <3>2. r[k] = x
        BY <1>2, <2>3, <3>1, Zenon
      <3> QED
        BY <1>2, <3>2, Zenon DEF Has
    <2> QED
      BY <2>1, <2>2, <2>3, Zenon
  <1>5. ASSUME NEW k \in DOMAIN r, NEW l \in DOMAIN r, r[k] = r[l] PROVE k = l
    <2>1. \A m, n \in DOMAIN q : q[m] = q[n] => m = n
      BY Zenon DEF ListOf
    <2> QED
      BY <1>2, <1>3, <1>5, <2>1, Zenon
  <1> QED
    BY <1>2, <1>4, <1>5, Zenon DEF ListOf, r

\* Only the hash table changes.
Tabled(c, d, T) ==
    /\ d.table \in Seq(Seq(Handles)) /\ TableOK(d.table, c.handle, T)
    /\ d.capacity = c.capacity /\ d.usage = c.usage /\ d.lru = c.lru /\ d.in_use = c.in_use
    /\ d.handle = c.handle

LEMMA TableSet ==
    ASSUME NEW x, NEW c \in ShardType(x), NEW t, NEW T, TableOK(t, c.handle, T), NEW d,
           d = [c EXCEPT !.table = t]
    PROVE  d \in ShardType(x) /\ d.table = t /\ Tabled(c, d, T)
  <1>1. t \in Seq(Seq(Handles))
    BY Zenon DEF TableOK
  <1>2. /\ d \in ShardType(x) /\ d.table = t
        /\ d.capacity = c.capacity /\ d.usage = c.usage /\ d.lru = c.lru /\ d.in_use = c.in_use
        /\ d.handle = c.handle
    BY <1>1 DEF ShardType
  <1> QED
    BY <1>1, <1>2, Zenon DEF Tabled

LEMMA ZeroIsNone == 0 \notin Handles
  BY DEF Handles

\* The chain a handle is removed from.
LEMMA Removed ==
    ASSUME NEW x, NEW c \in ShardType(x), NEW T, TableOK(c.table, c.handle, T), NEW file \in Files
    PROVE  /\ TableRemove(c, file) \in ShardType(x)
           /\ Tabled(c, TableRemove(c, file), T \ {TableLookup(c, file)})
  <1> DEFINE t == c.table
             b == Bucket(t, file)
             i == FindPointer(c, file)
             q == IF i \in DOMAIN t[b] THEN RemoveAt(t[b], i) ELSE t[b]
             h == TableLookup(c, file)
             U == T \ {h}
             u == [t EXCEPT ![b] = q]
  <1>1. TableRemove(c, file) = [c EXCEPT !.table = u]
    BY Zenon DEF TableRemove
  <1>2. LookedUp(c.handle, T, file, h) /\ b \in DOMAIN t
        /\ \/ i \in DOMAIN t[b] /\ h = t[b][i] /\ h \in T
           \/ i \notin DOMAIN t[b] /\ h = 0
    <2>1. PlaceOf(c, T, file, b, i)
      BY Found, Zenon
    <2> QED
      BY <2>1, Zenon DEF PlaceOf
  <1>3. U \subseteq Handles /\ (\A g \in U : c.handle[g].file \in Files)
        /\ \A g, k \in U : c.handle[g].file = c.handle[k].file => g = k
    BY Zenon DEF TableOK
  <1>4. T \subseteq Handles /\ 0 \notin Handles
    BY ZeroIsNone, Zenon DEF TableOK
  <1>5. ListOf(t[b], Slot(t, c.handle, T, b))
    BY <1>2, Zenon DEF TableOK
  <1>6. h \in T => c.handle[h].file = file
    BY <1>2, <1>4, Zenon DEF LookedUp
  <1> HIDE DEF h, i, b
  <1>7. ListOf(q, Slot(t, c.handle, U, b))
    <2>1. CASE i \in DOMAIN t[b] /\ h = t[b][i]
      <3>1. Slot(t, c.handle, U, b) = Slot(t, c.handle, T, b) \ {t[b][i]}
        BY <2>1 DEF Slot
      <3>2. ListOf(RemoveAt(t[b], i), Slot(t, c.handle, T, b) \ {t[b][i]})
        BY <1>5, <2>1, ListRemoveAt, Zenon
      <3> QED
        BY <2>1, <3>1, <3>2, Zenon
    <2>2. CASE i \notin DOMAIN t[b] /\ h = 0
      <3>1. U = T
        BY <1>4, <2>2
      <3> QED
        BY <1>5, <2>2, <3>1, Zenon
    <2> QED
      BY <1>2, <2>1, <2>2, Zenon
  <1>8. ASSUME NEW e \in DOMAIN t, e # b PROVE Slot(t, c.handle, U, e) = Slot(t, c.handle, T, e)
    BY <1>6, <1>8 DEF Slot, b
  <1> HIDE DEF q, U
  <1>9. TableOK(u, c.handle, U)
    BY <1>2, <1>3, <1>7, <1>8, ChainSet, Zenon
  <1> HIDE DEF u
  <1> QED
    BY <1>1, <1>9, TableSet, Zenon DEF U, h

\* The first length, twice as long and so on.
LEMMA NewLengthIn == ASSUME NEW n \in Nat PROVE NewLength(n) \in Nat \ {0}
  <1> DEFINE S == Nat \ {0}
             a == TableLength
             step == [k \in 1 .. n |-> [l \in S |-> IF l < n THEN 2 * l ELSE l]]
             Doubles(f) == f = [k \in 0 .. n |->
                              IF k = 0 THEN TableLength
                              ELSE IF f[k - 1] < n THEN 2 * f[k - 1] ELSE f[k - 1]]
             f0 == CHOOSE f : Doubles(f)
             P == {k \in 0 .. n : f0[k] \in S}
  <1>1. NewLength(n) = f0[n]
    BY Zenon DEF NewLength
  <1>2. a \in S
    BY CacheAssumption, Zenon
  <1>3. \A k \in 1 .. n : \A l \in S : step[k][l] = (IF l < n THEN 2 * l ELSE l) /\ step[k][l] \in S
    OBVIOUS
  <1> HIDE DEF S, step
  <1>4. PICK f \in [0 .. n -> S] : Recurs(f, n, a, step)
    BY <1>2, <1>3, RecursSome, Zenon
  <1>5. Doubles(f)
    <2>1. f = [k \in 0 .. n |-> f[k]]
      BY Zenon
    <2>2. ASSUME NEW k \in 0 .. n
          PROVE  f[k] = IF k = 0 THEN TableLength
                        ELSE IF f[k - 1] < n THEN 2 * f[k - 1] ELSE f[k - 1]
      <3>1. f[k] = IF k = 0 THEN a ELSE step[k][f[k - 1]]
        BY <1>4, Zenon DEF Recurs
      <3>2. k # 0 => k \in 1 .. n /\ k - 1 \in 0 .. n
        OBVIOUS
      <3> QED
        BY <1>3, <3>1, <3>2, Zenon
    <2> QED
      BY <2>1, <2>2
  <1>6. Doubles(f0)
    BY <1>5, Zenon
  <1> HIDE DEF f0
  <1>7. 0 \in P /\ n \in 0 .. n
    BY <1>2, <1>6
  <1>8. ASSUME NEW k \in 1 .. n, k - 1 \in P PROVE k \in P
    <2>1. k \in 0 .. n /\ k # 0
      OBVIOUS
    <2>2. f0[k] = IF f0[k - 1] < n THEN 2 * f0[k - 1] ELSE f0[k - 1]
      BY <1>6, <2>1, Zenon
    <2>3. f0[k - 1] \in S
      BY <1>8, Zenon
    <2> QED
      BY <2>1, <2>2, <2>3 DEF S
  <1> HIDE DEF P
  <1>9. n \in P
    BY <1>7, <1>8, Steps, Zenon
  <1> QED
    BY <1>1, <1>9, Zenon DEF P, S

\* Each handle goes to the front of its chain in the new table.
LEMMA Pushed ==
    ASSUME NEW t, NEW hd, NEW T, TableOK(t, hd, T), NEW h \in Handles, h \notin T,
           hd[h].file \in Files, \A g \in T : hd[g].file # hd[h].file,
           NEW b, b = Bucket(t, hd[h].file)
    PROVE  TableOK([t EXCEPT ![b] = <<h>> \o @], hd, {h} \cup T)
  <1> DEFINE U == {h} \cup T
             q == <<h>> \o t[b]
  <1>1. t \in Seq(Seq(Handles)) /\ Len(t) # 0
    BY Zenon DEF TableOK
  <1>2. b \in DOMAIN t
    BY <1>1, BucketIn, Zenon
  <1>3. ListOf(t[b], Slot(t, hd, T, b))
    BY <1>2, Zenon DEF TableOK
  <1>4. h \notin Slot(t, hd, T, b)
    BY Zenon DEF Slot
  <1>5. Slot(t, hd, U, b) = {h} \cup Slot(t, hd, T, b)
    BY DEF Slot
  <1>6. ListOf(q, {h} \cup Slot(t, hd, T, b))
    BY <1>3, <1>4, ListCons, Zenon
  <1>7. ListOf(q, Slot(t, hd, U, b))
    BY <1>5, <1>6, Zenon
  <1>8. ASSUME NEW e \in DOMAIN t, e # b PROVE Slot(t, hd, U, e) = Slot(t, hd, T, e)
    BY <1>8 DEF Slot
  <1>9. U \subseteq Handles /\ (\A g \in U : hd[g].file \in Files)
        /\ \A g, k \in U : hd[g].file = hd[k].file => g = k
    BY Zenon DEF TableOK
  <1> HIDE DEF q, U
  <1>10. TableOK([t EXCEPT ![b] = q], hd, U)
    BY <1>2, <1>7, <1>8, <1>9, ChainSet, Zenon
  <1> QED
    BY <1>10, Zenon DEF q, U

\* The handles of all chains, one after the other.
LEMMA ElemsList ==
    ASSUME NEW t, NEW hd, NEW T, TableOK(t, hd, T) PROVE ListOf(Elems(t), T)
  <1> DEFINE slot == [b \in DOMAIN t |-> Slot(t, hd, T, b)]
  <1>1. t \in Seq(Seq(Handles)) /\ Len(t) # 0
    BY Zenon DEF TableOK
  <1>2. \A b \in DOMAIN t : slot[b] = Slot(t, hd, T, b)
    BY Zenon
  <1> HIDE DEF slot
  <1>3. \A b \in DOMAIN t : ListOf(t[b], slot[b])
    BY <1>2, Zenon DEF TableOK
  <1>4. \A b, e \in DOMAIN t : b # e => slot[b] \cap slot[e] = {}
    BY <1>2 DEF Slot
  <1>5. ListOf(FlattenSeq(t), UNION {slot[b] : b \in DOMAIN t})
    BY <1>1, <1>3, <1>4, FlattenedList, Zenon
  <1>6. UNION {slot[b] : b \in DOMAIN t} = T
    <2>1. ASSUME NEW h, h \in UNION {slot[b] : b \in DOMAIN t} PROVE h \in T
      <3>1. PICK b \in DOMAIN t : h \in slot[b]
        BY <2>1, Zenon
      <3> QED
        BY <1>2, <3>1, Zenon DEF Slot
    <2>2. ASSUME NEW h \in T PROVE h \in UNION {slot[b] : b \in DOMAIN t}
      <3> DEFINE b == Bucket(t, hd[h].file)
      <3>1. b \in DOMAIN t
        BY <1>1, BucketIn, Zenon DEF TableOK
      <3>2. h \in slot[b]
        BY <1>2, <3>1, Zenon DEF Slot
      <3> QED
        BY <3>1, <3>2, Zenon
    <2> QED
      BY <2>1, <2>2, Zenon
  <1> QED
    BY <1>5, <1>6, Zenon DEF Elems

LEMMA Resized ==
    ASSUME NEW x, NEW c \in ShardType(x), NEW T, TableOK(c.table, c.handle, T)
    PROVE  Resize(c) \in ShardType(x) /\ Tabled(c, Resize(c), T)
  <1> DEFINE elems == Elems(c.table)
             n == Len(elems)
             l == NewLength(n)
             empty == [b \in 1 .. l |-> <<>>]
             hd == c.handle
             push(t, h) == [t EXCEPT ![Bucket(t, hd[h].file)] = <<h>> \o @]
             Rebuilds(f) == f = [k \in 0 .. n |-> IF k = 0 THEN empty
                                    ELSE [f[k - 1] EXCEPT
                                             ![Bucket(f[k - 1], c.handle[elems[k]].file)] = <<elems[k]>> \o @]]
             f0 == CHOOSE f : Rebuilds(f)
             S == [1 .. l -> Seq(Handles)]
             step == [k \in 1 .. n |-> [t \in S |-> push(t, elems[k])]]
             first(k) == {elems[j] : j \in 1 .. k}
             P == {k \in 0 .. n : TableOK(f0[k], hd, first(k)) /\ f0[k] \in S}
  <1>1. Resize(c) = [c EXCEPT !.table = f0[n]]
    BY Zenon DEF Resize
  <1>2. ListOf(elems, T)
    BY ElemsList, Zenon
  <1>3. elems \in Seq(Handles)
    BY <1>2, Zenon DEF ListOf
  <1>4. n \in Nat /\ DOMAIN elems = 1 .. n
    BY <1>3
  <1>5. l \in Nat /\ l # 0
    BY <1>4, NewLengthIn
  <1> HIDE DEF elems, n, l
  <1>6. \A k \in 1 .. n : elems[k] \in T /\ elems[k] \in Handles /\ hd[elems[k]].file \in Files
    BY <1>2, <1>4, Zenon DEF ListOf, Has, TableOK
  <1>7. \A t \in S : t \in Seq(Seq(Handles)) /\ Len(t) = l /\ Len(t) # 0 /\ DOMAIN t = 1 .. l
    BY <1>5
  <1>8. empty \in S
    BY <1>5
  <1>9. ASSUME NEW k \in 1 .. n, NEW t \in S PROVE step[k][t] = push(t, elems[k]) /\ push(t, elems[k]) \in S
    <2> DEFINE b == Bucket(t, hd[elems[k]].file)
               q == <<elems[k]>> \o t[b]
    <2>1. b \in 1 .. l
      BY <1>6, <1>7, BucketIn, Zenon
    <2>2. t[b] \in Seq(Handles) /\ elems[k] \in Handles
      BY <1>6, <2>1
    <2>3. q \in Seq(Handles)
      BY <2>2
    <2> HIDE DEF b, q
    <2>4. [t EXCEPT ![b] = q] \in S
      BY <2>3
    <2>5. push(t, elems[k]) = [t EXCEPT ![b] = q]
      BY Zenon DEF b, q
    <2> HIDE DEF push, S
    <2>6. step[k][t] = push(t, elems[k])
      BY Zenon
    <2> QED
      BY <2>4, <2>5, <2>6, Zenon
  <1>10. Rebuilds(f0)
    <2> HIDE DEF S, step, empty
    <2>1. \A k \in 1 .. n : \A t \in S : step[k][t] \in S
      BY <1>9, ZenonT(40)
    <2>2. PICK f \in [0 .. n -> S] : Recurs(f, n, empty, step)
      BY <1>4, <1>8, <2>1, RecursSome, Zenon
    <2>3. f = [k \in 0 .. n |-> f[k]]
      BY Zenon
    <2>4. ASSUME NEW k \in 0 .. n PROVE f[k] = IF k = 0 THEN empty ELSE push(f[k - 1], elems[k])
      <3>1. f[k] = IF k = 0 THEN empty ELSE step[k][f[k - 1]]
        BY <2>2, Zenon DEF Recurs
      <3>2. k # 0 => k \in 1 .. n /\ k - 1 \in 0 .. n
        BY <1>4
      <3> HIDE DEF push
      <3> QED
        BY <1>9, <3>1, <3>2, Zenon
    <2>5. Rebuilds(f)
      BY <2>3, <2>4, Zenon
    <2> QED
      BY <2>5, Zenon
  <1> HIDE DEF f0
  <1>11. f0[0] = empty /\ \A k \in 1 .. n : f0[k] = push(f0[k - 1], elems[k])
    <2>1. 0 \in 0 .. n /\ \A k \in 1 .. n : k \in 0 .. n /\ k # 0
      BY <1>4
    <2> HIDE DEF empty
    <2> QED
      BY <1>10, <2>1, Zenon
  <1>12. 0 \in P
    <2>1. first(0) = {}
      OBVIOUS
    <2>2. ASSUME NEW b \in DOMAIN empty PROVE ListOf(empty[b], Slot(empty, hd, {}, b))
      <3>1. empty[b] = <<>>
        BY Zenon
      <3>2. Slot(empty, hd, {}, b) = {}
        BY DEF Slot
      <3> QED
        BY <3>1, <3>2, EmptyList, Zenon
    <2>3. empty \in Seq(Seq(Handles)) /\ Len(empty) # 0
      BY <1>7, <1>8, Zenon
    <2> HIDE DEF empty
    <2>4. TableOK(empty, hd, {})
      BY <2>2, <2>3, Zenon DEF TableOK
    <2>5. 0 \in 0 .. n
      BY <1>4
    <2> QED
      BY <1>8, <1>11, <2>1, <2>4, <2>5, Zenon
  <1>13. ASSUME NEW k \in 1 .. n, k - 1 \in P PROVE k \in P
    <2> DEFINE m == k - 1
               h == elems[k]
               t == f0[m]
    <2>1. TableOK(t, hd, first(m)) /\ t \in S
      BY <1>13, Zenon
    <2>2. f0[k] = push(t, h)
      BY <1>11, Zenon
    <2>3. h \in Handles /\ h \in T /\ hd[h].file \in Files
      BY <1>6, Zenon
    <2>4. k \in 0 .. n /\ \A j : (j \in 1 .. k <=> j \in 1 .. m \/ j = k) /\ (j \in 1 .. m => j # k /\ j \in 1 .. n)
      BY <1>4
    <2> HIDE DEF m
    <2>5. h \notin first(m)
      <3>1. \A i, j \in 1 .. n : elems[i] = elems[j] => i = j
        BY <1>2, <1>4, Zenon DEF ListOf
      <3> QED
        BY <2>4, <3>1, Zenon
    <2>6. \A g \in first(m) : g \in T
      BY <1>6, <2>4, Zenon
    <2>7. \A g \in first(m) : hd[g].file # hd[h].file
      BY <2>3, <2>5, <2>6, Zenon DEF TableOK
    <2>8. {h} \cup first(m) = first(k)
      BY <2>4
    <2> HIDE DEF h, t, first
    <2>9. TableOK(push(t, h), hd, {h} \cup first(m))
      BY <2>1, <2>3, <2>5, <2>7, Pushed, Zenon
    <2>10. push(t, h) \in S
      BY <1>9, <2>1, Zenon DEF h
    <2> HIDE DEF push, S
    <2> QED
      BY <2>2, <2>4, <2>8, <2>9, <2>10, Zenon
  <1> HIDE DEF P
  <1>14. n \in P
    <2>1. \A k \in 0 .. n : k \in P
      BY <1>4, <1>12, <1>13, Steps, Zenon
    <2>2. n \in 0 .. n
      BY <1>4
    <2> QED
      BY <2>1, <2>2, Zenon
  <1>15. TableOK(f0[n], hd, first(n))
    BY <1>14, Zenon DEF P
  <1>16. first(n) = T
    <2>1. \A h : h \in T <=> \E j \in 1 .. n : elems[j] = h
      BY <1>2, <1>4, Zenon DEF ListOf, Has
    <2> QED
      BY <2>1
  <1> HIDE DEF first
  <1>17. TableOK(f0[n], c.handle, T)
    BY <1>15, <1>16, Zenon
  <1> QED
    BY <1>1, <1>17, TableSet, Zenon

LEMMA TabledTwice ==
    ASSUME NEW c, NEW d, NEW e, NEW T, NEW U, Tabled(c, d, T), Tabled(d, e, U) PROVE Tabled(c, e, U)
  BY Zenon DEF Tabled

\* A handle takes the place of the one with its key, or goes to the end of its chain.
LEMMA Inserted ==
    ASSUME NEW x, NEW c \in ShardType(x), NEW T, TableOK(c.table, c.handle, T),
           NEW h \in Handles, h \notin T, c.handle[h].file \in Files
    PROVE  /\ TableInsert(c, h) \in ShardType(x)
           /\ Tabled(c, TableInsert(c, h), (T \ {TableLookup(c, c.handle[h].file)}) \cup {h})
  <1> DEFINE t == c.table
             hd == c.handle
             file == hd[h].file
             b == Bucket(t, file)
             i == FindPointer(c, file)
             q == IF i \in DOMAIN t[b] THEN [t[b] EXCEPT ![i] = h] ELSE Append(t[b], h)
             o == TableLookup(c, file)
             U == (T \ {o}) \cup {h}
             u == [t EXCEPT ![b] = q]
             d == [c EXCEPT !.table = u]
  <1>1. TableInsert(c, h) = IF Len(Elems(d.table)) > Len(d.table) THEN Resize(d) ELSE d
    BY Zenon DEF TableInsert
  <1>2. LookedUp(hd, T, file, o) /\ b \in DOMAIN t
        /\ \/ i \in DOMAIN t[b] /\ o = t[b][i] /\ o \in T
           \/ i \notin DOMAIN t[b] /\ o = 0
    <2>1. PlaceOf(c, T, file, b, i)
      BY Found, Zenon
    <2> QED
      BY <2>1, Zenon DEF PlaceOf
  <1>3. T \subseteq Handles /\ 0 \notin Handles
    BY ZeroIsNone, Zenon DEF TableOK
  <1>4. ListOf(t[b], Slot(t, hd, T, b))
    BY <1>2, Zenon DEF TableOK
  <1>5. o \in T => hd[o].file = file
    BY <1>2, <1>3, Zenon DEF LookedUp
  <1>6. \A g \in T : g # o => hd[g].file # file
    <2> TAKE g \in T
    <2>1. \A k \in T : hd[g].file = hd[k].file => g = k
      BY Zenon DEF TableOK
    <2> QED
      BY <1>2, <2>1, Zenon DEF LookedUp
  <1> HIDE DEF o, i
  <1>7. U \subseteq Handles /\ (\A g \in U : hd[g].file \in Files)
        /\ \A g, k \in U : hd[g].file = hd[k].file => g = k
    <2>1. ASSUME NEW g \in U PROVE (g \in T /\ hd[g].file # file) \/ (g = h /\ hd[g].file = file)
      BY <1>6, Zenon
    <2>2. \A g \in T : g \in Handles /\ hd[g].file \in Files /\ \A k \in T : hd[g].file = hd[k].file => g = k
      BY Zenon DEF TableOK
    <2>3. file \in Files
      OBVIOUS
    <2> HIDE DEF U, hd, file
    <2> QED
      BY <2>1, <2>2, <2>3, Zenon
  <1>8. h \notin Slot(t, hd, T, b)
    BY Zenon DEF Slot
  <1> HIDE DEF b
  <1>9. b = Bucket(t, hd[h].file)
    BY Zenon DEF b
  <1>10. ListOf(q, Slot(t, hd, U, b))
    <2>1. CASE i \in DOMAIN t[b] /\ o = t[b][i]
      <3>1. Slot(t, hd, U, b) = (Slot(t, hd, T, b) \ {t[b][i]}) \cup {h}
        BY <1>9, <2>1 DEF Slot
      <3>2. ListOf([t[b] EXCEPT ![i] = h], (Slot(t, hd, T, b) \ {t[b][i]}) \cup {h})
        BY <1>4, <1>8, <2>1, ListReplace, Zenon
      <3> QED
        BY <2>1, <3>1, <3>2, Zenon
    <2>2. CASE i \notin DOMAIN t[b] /\ o = 0
      <3>1. Slot(t, hd, U, b) = Slot(t, hd, T, b) \cup {h}
        BY <1>3, <1>9, <2>2 DEF Slot
      <3>2. ListOf(Append(t[b], h), Slot(t, hd, T, b) \cup {h})
        BY <1>4, <1>8, ListAppend, Zenon
      <3> QED
        BY <2>2, <3>1, <3>2, Zenon
    <2> QED
      BY <1>2, <2>1, <2>2, Zenon
  <1>11. ASSUME NEW e \in DOMAIN t, e # b PROVE Slot(t, hd, U, e) = Slot(t, hd, T, e)
    <2>1. o \in T => Bucket(t, hd[o].file) = b
      BY <1>5, Zenon DEF b
    <2> QED
      BY <1>9, <1>11, <2>1 DEF Slot
  <1> HIDE DEF q, U
  <1>12. TableOK(u, hd, U)
    BY <1>2, <1>7, <1>10, <1>11, ChainSet, Zenon
  <1> HIDE DEF u
  <1>13. d \in ShardType(x) /\ Tabled(c, d, U)
    BY <1>12, TableSet, Zenon
  <1> HIDE DEF d
  <1>14. TableOK(d.table, d.handle, U)
    BY <1>13, Zenon DEF Tabled
  <1>15. Resize(d) \in ShardType(x) /\ Tabled(d, Resize(d), U)
    BY <1>13, <1>14, Resized, Zenon
  <1>16. Tabled(c, Resize(d), U)
    BY <1>13, <1>15, TabledTwice, Zenon
  <1> QED
    BY <1>1, <1>13, <1>15, <1>16, Zenon DEF U, o

-----------------------------------------------------------------------------
\* A shard: users hold R[h] references of each handle h.

Cached(c) == {h \in Handles : c.handle[h].in_cache}
RefsOK(c, R) == \A h \in Handles : c.handle[h].refs = R[h] + (IF c.handle[h].in_cache THEN 1 ELSE 0)
Ours(c, s) == \A h \in Cached(c) : /\ c.handle[h].file \in Files /\ Shard(c.handle[h].file) = s
                                   /\ c.handle[h].charge = 1
ListsOK(c) == /\ ListOf(c.lru, {h \in Cached(c) : c.handle[h].refs = 1})
              /\ ListOf(c.in_use, {h \in Cached(c) : c.handle[h].refs # 1})

\* The handles of T are in the hash table, which may be about to change.
HalfOK(x, c, s, R, T) ==
    /\ c \in ShardType(x) /\ RefsOK(c, R) /\ Ours(c, s) /\ ListsOK(c)
    /\ c.usage = Cardinality(Cached(c))
    /\ TableOK(c.table, c.handle, T)
ShardOK(x, c, s, R) == HalfOK(x, c, s, R, Cached(c))

\* Users still hold what they held.
Keeps(c, d, R) == \A h \in Handles : R[h] # 0 => d.handle[h].file = c.handle[h].file

References == [Handles -> Nat]

LEMMA TableIrrelevant ==
    ASSUME NEW x, NEW c, NEW s, NEW R, NEW T, NEW U, HalfOK(x, c, s, R, T), NEW d \in ShardType(x), Tabled(c, d, U)
    PROVE  HalfOK(x, d, s, R, U) /\ Cached(d) = Cached(c)
  <1>1. Cached(d) = Cached(c)
    BY Zenon DEF Cached, Tabled
  <1>2. RefsOK(d, R) /\ Ours(d, s)
    BY <1>1, Zenon DEF RefsOK, Ours, HalfOK, Tabled
  <1>3. ListsOK(d)
    BY <1>1, Zenon DEF ListsOK, HalfOK, Tabled
  <1>4. d.usage = Cardinality(Cached(d)) /\ TableOK(d.table, d.handle, U)
    BY <1>1, Zenon DEF HalfOK, Tabled
  <1> QED
    BY <1>1, <1>2, <1>3, <1>4, Zenon DEF HalfOK

LEMMA HandlesFinite ==
    /\ Handles \subseteq Nat /\ IsFiniteSet(Handles)
    /\ Cardinality(Users) \in Nat /\ Cardinality(Files) \in Nat
    /\ Cardinality(Handles) = Cardinality(Users) + Cardinality(Files) + 1
  <1> DEFINE n == Cardinality(Users)
             m == Cardinality(Files)
  <1>1. n \in Nat /\ m \in Nat
    BY CacheAssumption, FS_CardinalityType, Zenon
  <1>2. Handles = 1 .. (n + m + 1)
    BY Zenon DEF Handles
  <1> HIDE DEF n, m
  <1>3. IsFiniteSet(1 .. (n + m + 1)) /\ Cardinality(1 .. (n + m + 1)) = n + m + 1
    BY <1>1, FS_Interval
  <1>4. 1 .. (n + m + 1) \subseteq Nat
    BY <1>1
  <1> QED
    BY <1>1, <1>2, <1>3, <1>4, Zenon DEF n, m

LEMMA CachedFinite == ASSUME NEW c PROVE IsFiniteSet(Cached(c)) /\ Cardinality(Cached(c)) \in Nat
  <1>1. Cached(c) \in SUBSET Handles
    BY DEF Cached
  <1>2. IsFiniteSet(Cached(c))
    BY <1>1, HandlesFinite, FS_Subset, Zenon
  <1> QED
    BY <1>2, FS_CardinalityType, Zenon

\* Chains depend on files only.
LEMMA SameFiles ==
    ASSUME NEW t, NEW hd, NEW T, TableOK(t, hd, T), NEW hd2, \A h \in T : hd2[h].file = hd[h].file
    PROVE  TableOK(t, hd2, T)
  <1>1. \A b : Slot(t, hd2, T, b) = Slot(t, hd, T, b)
    BY DEF Slot
  <1> QED
    BY <1>1, Zenon DEF TableOK

\* A handle and its lists change.
Changed(c, d, h, lru, in_use, usage) ==
    /\ d.table = c.table /\ d.capacity = c.capacity /\ d.lru = lru /\ d.in_use = in_use
    /\ d.usage = usage /\ \A g \in Handles : g # h => d.handle[g] = c.handle[g]

LEMMA ListRemoved ==
    ASSUME NEW q \in Seq(Handles), NEW S, ListOf(q, S), NEW h
    PROVE  RemoveFirst(q, h) \in Seq(Handles) /\ ListOf(RemoveFirst(q, h), S \ {h})
  BY ListRemove, Zenon DEF ListOf

LEMMA LRURemoved ==
    ASSUME NEW x, NEW c \in ShardType(x), ListsOK(c), NEW h, NEW d, d = LRU_Remove(c, h)
    PROVE  /\ d \in ShardType(x) /\ d.handle = c.handle
           /\ Changed(c, d, h, RemoveFirst(c.lru, h), RemoveFirst(c.in_use, h), c.usage)
           /\ ListOf(d.lru, {g \in Cached(c) : c.handle[g].refs = 1} \ {h})
           /\ ListOf(d.in_use, {g \in Cached(c) : c.handle[g].refs # 1} \ {h})
  <1> DEFINE p == RemoveFirst(c.lru, h)
             q == RemoveFirst(c.in_use, h)
  <1>1. c.lru \in Seq(Handles) /\ c.in_use \in Seq(Handles)
    BY DEF ShardType
  <1>2. /\ p \in Seq(Handles) /\ ListOf(p, {g \in Cached(c) : c.handle[g].refs = 1} \ {h})
        /\ q \in Seq(Handles) /\ ListOf(q, {g \in Cached(c) : c.handle[g].refs # 1} \ {h})
    BY <1>1, ListRemoved, Zenon DEF ListsOK
  <1>3. d = [c EXCEPT !.lru = p, !.in_use = q]
    BY Zenon DEF LRU_Remove
  <1> HIDE DEF p, q
  <1>4. /\ d \in ShardType(x) /\ d.handle = c.handle /\ d.lru = p /\ d.in_use = q
        /\ d.table = c.table /\ d.capacity = c.capacity /\ d.usage = c.usage
    BY <1>2, <1>3 DEF ShardType
  <1> QED
    BY <1>2, <1>4, Zenon DEF Changed, p, q

LEMMA EraseStep ==
    ASSUME NEW x, NEW c \in ShardType(x), NEW h \in Handles, NEW r \in Nat,
           c.handle[h].refs = r + 1, c.handle[h].charge = 1, ListsOK(c),
           NEW d, d = FinishErase(c, h)
    PROVE  /\ d \in ShardType(x)
           /\ Changed(c, d, h, RemoveFirst(c.lru, h), RemoveFirst(c.in_use, h), c.usage - 1)
           /\ d.handle[h].in_cache = FALSE /\ d.handle[h].refs = r
           /\ r # 0 => d.handle[h].file = c.handle[h].file
           /\ ListOf(d.lru, {g \in Cached(c) : c.handle[g].refs = 1} \ {h})
           /\ ListOf(d.in_use, {g \in Cached(c) : c.handle[g].refs # 1} \ {h})
  <1> DEFINE l == LRU_Remove(c, h)
             e == [l EXCEPT !.handle[h].in_cache = FALSE, !.usage = @ - c.handle[h].charge]
             v == [c.handle[h] EXCEPT !.in_cache = FALSE]
             w == [e EXCEPT !.handle[h].refs = @ - 1]
             y == [v EXCEPT !.refs = r]
  <1>1. /\ l \in ShardType(x) /\ l.handle = c.handle
        /\ Changed(c, l, h, RemoveFirst(c.lru, h), RemoveFirst(c.in_use, h), c.usage)
        /\ ListOf(l.lru, {g \in Cached(c) : c.handle[g].refs = 1} \ {h})
        /\ ListOf(l.in_use, {g \in Cached(c) : c.handle[g].refs # 1} \ {h})
    BY LRURemoved, Zenon
  <1>2. h # 0
    BY ZeroIsNone
  <1>3. d = Unref(e, h)
    BY <1>2, Zenon DEF FinishErase
  <1> HIDE DEF l
  <1>4. c.handle \in [Handles -> HandleType] /\ c.usage \in Int
    BY DEF ShardType
  <1>5. c.handle[h] \in HandleType
    BY <1>4
  <1>6. v \in HandleType /\ v.in_cache = FALSE /\ v.refs = r + 1 /\ v.file = c.handle[h].file
    BY <1>5 DEF HandleType
  <1> HIDE DEF v
  <1>7. y \in HandleType /\ y.in_cache = FALSE /\ y.refs = r /\ y.file = c.handle[h].file
    BY <1>6 DEF HandleType
  <1>8. Freed \in HandleType /\ Freed.in_cache = FALSE /\ Freed.refs = 0
    BY DEF Freed, HandleType
  <1>9. e = [l EXCEPT !.handle = [@ EXCEPT ![h] = v], !.usage = @ - 1]
    BY <1>1, Zenon DEF v
  <1> DEFINE hd == [c.handle EXCEPT ![h] = v]
             m == c.usage - 1
  <1>20. hd \in [Handles -> HandleType] /\ m \in Int
    BY <1>4, <1>6
  <1>21. l.handle = c.handle /\ l.usage = c.usage
    BY <1>1, Zenon DEF Changed
  <1>22. e = [l EXCEPT !.handle = hd, !.usage = m]
    BY <1>9, <1>21, Zenon
  <1> HIDE DEF hd, m
  <1>23. /\ e \in ShardType(x) /\ e.handle = hd /\ e.usage = m
         /\ e.table = l.table /\ e.capacity = l.capacity /\ e.lru = l.lru /\ e.in_use = l.in_use
    BY <1>1, <1>20, <1>22 DEF ShardType
  <1>10. /\ e \in ShardType(x) /\ e.handle = [c.handle EXCEPT ![h] = v] /\ e.usage = c.usage - 1
         /\ e.table = l.table /\ e.capacity = l.capacity /\ e.lru = l.lru /\ e.in_use = l.in_use
    BY <1>23, Zenon DEF hd, m
  <1> HIDE DEF e
  <1>11. e.handle[h] = v
    BY <1>4, <1>10
  <1>12. v.refs - 1 = r
    BY <1>6
  <1>13. w = [e EXCEPT !.handle = [@ EXCEPT ![h] = y]]
    BY <1>11, <1>12, Zenon DEF y
  <1> HIDE DEF y
  <1>14. /\ w \in ShardType(x) /\ w.handle = [c.handle EXCEPT ![h] = y] /\ w.usage = c.usage - 1
         /\ w.table = l.table /\ w.capacity = l.capacity /\ w.lru = l.lru /\ w.in_use = l.in_use
    BY <1>4, <1>7, <1>10, <1>13, ZenonT(40) DEF ShardType
  <1>15. w.handle[h] = y
    BY <1>4, <1>14
  <1>16. d = IF w.handle[h].refs = 0 THEN [w EXCEPT !.handle[h] = Freed]
             ELSE IF w.handle[h].in_cache /\ w.handle[h].refs = 1
             THEN LRU_Append(LRU_Remove(w, h), "lru", h) ELSE w
    BY <1>3, Zenon DEF Unref
  <1> HIDE DEF w
  <1>17. PICK z \in HandleType : /\ z.in_cache = FALSE /\ z.refs = r /\ (r # 0 => z.file = c.handle[h].file)
                                 /\ d \in ShardType(x) /\ d.handle = [c.handle EXCEPT ![h] = z]
                                 /\ d.usage = c.usage - 1 /\ d.table = l.table
                                 /\ d.capacity = l.capacity /\ d.lru = l.lru /\ d.in_use = l.in_use
    <2>1. CASE r = 0
      <3>1. d = [w EXCEPT !.handle = [@ EXCEPT ![h] = Freed]]
        BY <1>7, <1>15, <1>16, <2>1, Zenon
      <3> DEFINE f == Freed
      <3> HIDE DEF f
      <3>2. f \in HandleType
        BY <1>8, Zenon DEF f
      <3>3. d = [w EXCEPT !.handle = [@ EXCEPT ![h] = f]]
        BY <3>1, Zenon DEF f
      <3>4. /\ d \in ShardType(x) /\ d.handle = [c.handle EXCEPT ![h] = f]
            /\ d.usage = c.usage - 1 /\ d.table = l.table
            /\ d.capacity = l.capacity /\ d.lru = l.lru /\ d.in_use = l.in_use
        BY <1>4, <1>14, <3>2, <3>3, ZenonT(40) DEF ShardType
      <3>5. f.in_cache = FALSE /\ f.refs = r
        BY <1>8, <2>1, Zenon DEF f
      <3> QED
        BY <2>1, <3>2, <3>4, <3>5, Zenon
    <2>2. CASE r # 0
      <3>1. d = w
        BY <1>7, <1>15, <1>16, <2>2, Zenon
      <3> QED
        BY <1>7, <1>14, <3>1, Zenon
    <2> QED
      BY <2>1, <2>2
  <1>18. d.handle[h] = z /\ \A g \in Handles : g # h => d.handle[g] = c.handle[g]
    BY <1>4, <1>17
  <1>19. Changed(c, d, h, RemoveFirst(c.lru, h), RemoveFirst(c.in_use, h), c.usage - 1)
    BY <1>1, <1>17, <1>18, Zenon DEF Changed
  <1> QED
    BY <1>1, <1>17, <1>18, <1>19, Zenon

LEMMA FinishErased ==
    ASSUME NEW x, NEW c, NEW s, NEW R \in References, NEW h \in Cached(c),
           HalfOK(x, c, s, R, Cached(c) \ {h})
    PROVE  /\ ShardOK(x, FinishErase(c, h), s, R)
           /\ Keeps(c, FinishErase(c, h), R)
  <1> DEFINE d == FinishErase(c, h)
  <1>1. h \in Handles /\ c.handle[h].in_cache
    BY DEF Cached
  <1>2. c \in ShardType(x) /\ RefsOK(c, R) /\ Ours(c, s) /\ ListsOK(c)
    BY Zenon DEF HalfOK
  <1>3. R[h] \in Nat
    BY <1>1 DEF References
  <1>4. c.handle[h].refs = R[h] + 1 /\ c.handle[h].charge = 1
    BY <1>1, <1>2, Zenon DEF RefsOK, Ours
  <1>5. /\ d \in ShardType(x)
        /\ Changed(c, d, h, RemoveFirst(c.lru, h), RemoveFirst(c.in_use, h), c.usage - 1)
        /\ d.handle[h].in_cache = FALSE /\ d.handle[h].refs = R[h]
        /\ R[h] # 0 => d.handle[h].file = c.handle[h].file
        /\ ListOf(d.lru, {g \in Cached(c) : c.handle[g].refs = 1} \ {h})
        /\ ListOf(d.in_use, {g \in Cached(c) : c.handle[g].refs # 1} \ {h})
    BY <1>1, <1>2, <1>3, <1>4, EraseStep, Zenon
  <1> HIDE DEF d
  <1>6. \A g \in Handles : g # h => d.handle[g] = c.handle[g]
    BY <1>5, Zenon DEF Changed
  <1>7. d.usage = c.usage - 1 /\ d.table = c.table
    BY <1>5, Zenon DEF Changed
  <1>8. Cached(d) = Cached(c) \ {h}
    BY <1>5, <1>6 DEF Cached
  <1>9. Keeps(c, d, R)
    BY <1>5, <1>6, Zenon DEF Keeps
  <1>10. RefsOK(d, R)
    <2> SUFFICES ASSUME NEW g \in Handles
                 PROVE  d.handle[g].refs = R[g] + (IF d.handle[g].in_cache THEN 1 ELSE 0)
      BY Zenon DEF RefsOK
    <2>1. CASE g = h
      BY <1>3, <1>5, <2>1
    <2>2. CASE g # h
      BY <1>2, <1>6, <2>2, Zenon DEF RefsOK
    <2> QED
      BY <2>1, <2>2
  <1>11. Ours(d, s)
    <2> SUFFICES ASSUME NEW g \in Cached(d)
                 PROVE  d.handle[g].file \in Files /\ Shard(d.handle[g].file) = s /\ d.handle[g].charge = 1
      BY Zenon DEF Ours
    <2>1. g \in Cached(c) /\ g # h /\ g \in Handles
      BY <1>8 DEF Cached
    <2> QED
      BY <1>2, <1>6, <2>1, Zenon DEF Ours
  <1>12. /\ {g \in Cached(d) : d.handle[g].refs = 1} = {g \in Cached(c) : c.handle[g].refs = 1} \ {h}
         /\ {g \in Cached(d) : d.handle[g].refs # 1} = {g \in Cached(c) : c.handle[g].refs # 1} \ {h}
    <2>1. \A g \in Cached(d) : d.handle[g] = c.handle[g]
      BY <1>6, <1>8 DEF Cached
    <2> QED
      BY <1>8, <2>1
  <1>13. ListsOK(d)
    BY <1>5, <1>12, Zenon DEF ListsOK
  <1>14. d.usage = Cardinality(Cached(d))
    <2> DEFINE S == Cached(c)
    <2>1. IsFiniteSet(S) /\ Cardinality(S) \in Nat
      BY CachedFinite, Zenon
    <2>2. h \in S /\ c.usage = Cardinality(S)
      BY Zenon DEF HalfOK
    <2> HIDE DEF S
    <2>3. Cardinality(S \ {h}) = Cardinality(S) - 1
      BY <2>1, <2>2, FS_RemoveElement
    <2> QED
      BY <1>7, <1>8, <2>2, <2>3, Zenon DEF S
  <1>15. TableOK(c.table, c.handle, Cached(d))
    BY <1>8, Zenon DEF HalfOK
  <1>16. \A g \in Cached(d) : d.handle[g].file = c.handle[g].file
    BY <1>6, <1>8 DEF Cached
  <1>17. TableOK(d.table, d.handle, Cached(d))
    BY <1>7, <1>15, <1>16, SameFiles, Zenon
  <1>18. ShardOK(x, d, s, R)
    BY <1>5, <1>10, <1>11, <1>13, <1>14, <1>17, Zenon DEF ShardOK, HalfOK
  <1> QED
    BY <1>9, <1>18, Zenon DEF d

LEMMA KeptTwice ==
    ASSUME NEW c, NEW d, NEW e, NEW R, Keeps(c, d, R), Keeps(d, e, R)
    PROVE  Keeps(c, e, R)
  BY Zenon DEF Keeps

\* What a lookup finds is in the cache; nothing is found if no handle has the file.
LEMMA Looked ==
    ASSUME NEW x, NEW c, NEW s, NEW R, NEW T, HalfOK(x, c, s, R, T), NEW file \in Files
    PROVE  LookedUp(c.handle, T, file, TableLookup(c, file))
  BY Found, Zenon DEF HalfOK, PlaceOf

LEMMA KeyErased ==
    ASSUME NEW x, NEW c, NEW s, NEW R \in References, ShardOK(x, c, s, R), NEW file \in Files
    PROVE  ShardOK(x, EraseKey(c, file), s, R) /\ Keeps(c, EraseKey(c, file), R)
  <1> DEFINE T == Cached(c)
             h == TableLookup(c, file)
             m == TableRemove(c, file)
  <1>1. HalfOK(x, c, s, R, T)
    BY Zenon DEF ShardOK
  <1>2. c \in ShardType(x) /\ TableOK(c.table, c.handle, T)
    BY <1>1, Zenon DEF HalfOK
  <1>3. m \in ShardType(x) /\ Tabled(c, m, T \ {h})
    BY <1>2, Removed, Zenon
  <1>4. LookedUp(c.handle, T, file, h)
    BY <1>1, Looked, Zenon
  <1>5. EraseKey(c, file) = FinishErase(m, h)
    BY Zenon DEF EraseKey
  <1> HIDE DEF m, h
  <1>6. HalfOK(x, m, s, R, T \ {h}) /\ Cached(m) = T
    <2> DEFINE U == T \ {h}
    <2>1. m \in ShardType(x) /\ Tabled(c, m, U)
      BY <1>3, Zenon
    <2> HIDE DEF U
    <2>2. HalfOK(x, m, s, R, U) /\ Cached(m) = Cached(c)
      BY <1>1, <2>1, TableIrrelevant
    <2> QED
      BY <2>2, Zenon DEF U
  <1>7. Keeps(c, m, R)
    BY <1>3, Zenon DEF Keeps, Tabled
  <1>8. CASE h = 0
    <2>1. 0 \notin T
      BY ZeroIsNone DEF Cached
    <2>2. T \ {h} = T
      BY <1>8, <2>1
    <2>3. FinishErase(m, h) = m
      BY <1>8, Zenon DEF FinishErase
    <2> QED
      BY <1>5, <1>6, <1>7, <2>2, <2>3, Zenon DEF ShardOK
  <1>9. CASE h \in T
    <2>1. ShardOK(x, FinishErase(m, h), s, R) /\ Keeps(m, FinishErase(m, h), R)
      BY <1>6, <1>9, FinishErased, Zenon
    <2> QED
      BY <1>5, <1>7, <2>1, KeptTwice, Zenon
  <1> QED
    BY <1>4, <1>8, <1>9, Zenon DEF LookedUp

\* One step of the loop of EraseOldest.
EraseNext(c, limit) == IF c.usage > limit /\ c.lru # <<>>
                       THEN EraseKey(c, c.handle[Head(c.lru)].file) ELSE c

LEMMA NextErased ==
    ASSUME NEW x, NEW c, NEW s, NEW R \in References, ShardOK(x, c, s, R), NEW limit
    PROVE  ShardOK(x, EraseNext(c, limit), s, R) /\ Keeps(c, EraseNext(c, limit), R)
  <1>1. CASE c.lru # <<>>
    <2>1. c \in ShardType(x) /\ ListsOK(c) /\ Ours(c, s)
      BY Zenon DEF ShardOK, HalfOK
    <2> DEFINE q == c.lru
               S == {h \in Cached(c) : c.handle[h].refs = 1}
    <2>2. q \in Seq(Handles) /\ q # <<>>
      BY <1>1, <2>1 DEF ShardType
    <2>3. ListOf(q, S)
      BY <2>1, Zenon DEF ListsOK
    <2> HIDE DEF q
    <2>4. 1 \in DOMAIN q /\ Head(q) = q[1]
      BY <2>2
    <2> HIDE DEF S
    <2>5. Head(q) \in S
      BY <2>3, <2>4, Zenon DEF ListOf, Has
    <2>6. c.handle[Head(q)].file \in Files
      BY <2>1, <2>5, Zenon DEF S, Ours
    <2>7. /\ ShardOK(x, EraseKey(c, c.handle[Head(q)].file), s, R)
          /\ Keeps(c, EraseKey(c, c.handle[Head(q)].file), R)
      BY <2>6, KeyErased, Zenon
    <2> QED
      BY <2>7, Zenon DEF EraseNext, q, Keeps
  <1>2. CASE c.lru = <<>>
    BY <1>2, Zenon DEF EraseNext, Keeps
  <1> QED
    BY <1>1, <1>2

LEMMA OldestErased ==
    ASSUME NEW x, NEW c, NEW s, NEW R \in References, ShardOK(x, c, s, R), NEW limit
    PROVE  ShardOK(x, EraseOldest(c, limit), s, R) /\ Keeps(c, EraseOldest(c, limit), R)
  <1> DEFINE S == {d \in ShardType(x) : ShardOK(x, d, s, R) /\ Keeps(c, d, R)}
             n == Len(c.lru)
             step == [k \in 1 .. n |-> [d \in S |-> EraseNext(d, limit)]]
             Erases(f) == f = [k \in 0 .. n |->
                              IF k = 0 THEN c
                              ELSE LET d == f[k - 1]
                                   IN  IF d.usage > limit /\ d.lru # <<>>
                                       THEN EraseKey(d, d.handle[Head(d.lru)].file) ELSE d]
             f0 == CHOOSE f : Erases(f)
             P == {k \in 0 .. n : f0[k] \in S}
  <1>1. EraseOldest(c, limit) = f0[n]
    BY Zenon DEF EraseOldest
  <1>2. c \in S
    BY Zenon DEF ShardOK, HalfOK, Keeps
  <1>3. n \in Nat
    <2>1. c.lru \in Seq(Handles)
      BY <1>2 DEF ShardType
    <2> QED
      BY <2>1
  <1>4. ASSUME NEW d \in S PROVE EraseNext(d, limit) \in S
    <2>1. ShardOK(x, d, s, R) /\ Keeps(c, d, R)
      BY Zenon
    <2>2. ShardOK(x, EraseNext(d, limit), s, R) /\ Keeps(d, EraseNext(d, limit), R)
      BY <2>1, NextErased, Zenon
    <2>3. EraseNext(d, limit) \in ShardType(x)
      BY <2>2, Zenon DEF ShardOK, HalfOK
    <2> QED
      BY <2>1, <2>2, <2>3, KeptTwice, Zenon
  <1> HIDE DEF S, n
  <1>5. \A k \in 1 .. n : \A d \in S : step[k][d] = EraseNext(d, limit) /\ step[k][d] \in S
    BY <1>4, Zenon
  <1> HIDE DEF step
  <1>6. PICK f \in [0 .. n -> S] : Recurs(f, n, c, step)
    BY <1>2, <1>3, <1>5, RecursSome, Zenon
  <1>7. Erases(f)
    <2>1. f = [k \in 0 .. n |-> f[k]]
      BY Zenon
    <2>2. ASSUME NEW k \in 0 .. n
          PROVE  f[k] = IF k = 0 THEN c
                        ELSE LET d == f[k - 1]
                             IN  IF d.usage > limit /\ d.lru # <<>>
                                 THEN EraseKey(d, d.handle[Head(d.lru)].file) ELSE d
      <3>1. f[k] = IF k = 0 THEN c ELSE step[k][f[k - 1]]
        BY <1>6, Zenon DEF Recurs
      <3>2. k # 0 => k \in 1 .. n /\ k - 1 \in 0 .. n
        BY <1>3
      <3>3. k # 0 => step[k][f[k - 1]] = EraseNext(f[k - 1], limit)
        BY <1>5, <3>2, Zenon
      <3> QED
        BY <3>1, <3>3, Zenon DEF EraseNext
    <2> QED
      BY <2>1, <2>2, Zenon
  <1>8. Erases(f0)
    BY <1>7, Zenon
  <1> HIDE DEF f0
  <1>9. 0 \in 0 .. n /\ n \in 0 .. n
    BY <1>3
  <1>10. 0 \in P
    BY <1>2, <1>8, <1>9, Zenon
  <1>11. ASSUME NEW k \in 1 .. n, k - 1 \in P PROVE k \in P
    <2>1. k \in 0 .. n /\ k # 0
      BY <1>3
    <2>2. f0[k] = EraseNext(f0[k - 1], limit)
      BY <1>8, <2>1, Zenon DEF EraseNext
    <2>3. f0[k - 1] \in S
      BY <1>11, Zenon
    <2> QED
      BY <1>4, <2>1, <2>2, <2>3, Zenon
  <1> HIDE DEF P
  <1>12. \A k \in 0 .. n : k \in P
    BY <1>3, <1>10, <1>11, Steps, Zenon
  <1>13. f0[n] \in S
    BY <1>9, <1>12, Zenon DEF P
  <1> QED
    BY <1>1, <1>13, Zenon DEF S

\* Everything but a handle and the lists stays.
Alike(c, d, h) ==
    /\ d.table = c.table /\ d.capacity = c.capacity /\ d.usage = c.usage
    /\ \A g \in Handles : g # h => d.handle[g] = c.handle[g]

Becomes(x, c, d, h, v) ==
    d \in ShardType(x) /\ Alike(c, d, h) /\ d.handle[h] = v /\ d.lru = c.lru /\ d.in_use = c.in_use

LEMMA HandleSet ==
    ASSUME NEW x, NEW c \in ShardType(x), NEW h \in Handles, NEW v \in HandleType
    PROVE  Becomes(x, c, [c EXCEPT !.handle[h] = v], h, v)
  <1> DEFINE d == [c EXCEPT !.handle[h] = v]
             hd == [c.handle EXCEPT ![h] = v]
  <1>1. hd \in [Handles -> HandleType] /\ hd[h] = v /\ \A g \in Handles : g # h => hd[g] = c.handle[g]
    BY DEF ShardType
  <1>2. d = [c EXCEPT !.handle = hd]
    BY DEF ShardType
  <1> HIDE DEF hd, d
  <1>3. /\ d \in ShardType(x) /\ d.handle = hd /\ d.lru = c.lru /\ d.in_use = c.in_use
        /\ d.table = c.table /\ d.capacity = c.capacity /\ d.usage = c.usage
    BY <1>1, <1>2 DEF ShardType
  <1>4. Alike(c, d, h) /\ d.handle[h] = v
    BY <1>1, <1>3, Zenon DEF Alike
  <1> QED
    BY <1>3, <1>4, Zenon DEF d, Becomes

LEMMA Moved ==
    ASSUME NEW x, NEW c \in ShardType(x), NEW A, NEW B, ListOf(c.lru, A), ListOf(c.in_use, B),
           NEW h \in Handles
    PROVE  /\ LET d == LRU_Append(LRU_Remove(c, h), "in_use", h)
              IN  d \in ShardType(x) /\ Alike(c, d, h) /\ d.handle = c.handle
                  /\ ListOf(d.lru, A \ {h}) /\ ListOf(d.in_use, (B \ {h}) \cup {h})
           /\ LET d == LRU_Append(LRU_Remove(c, h), "lru", h)
              IN  d \in ShardType(x) /\ Alike(c, d, h) /\ d.handle = c.handle
                  /\ ListOf(d.lru, (A \ {h}) \cup {h}) /\ ListOf(d.in_use, B \ {h})
  <1> DEFINE p == RemoveFirst(c.lru, h)
             q == RemoveFirst(c.in_use, h)
             ph == Append(p, h)
             qh == Append(q, h)
  <1>1. c.lru \in Seq(Handles) /\ c.in_use \in Seq(Handles)
    BY DEF ShardType
  <1>2. /\ p \in Seq(Handles) /\ ListOf(p, A \ {h})
        /\ q \in Seq(Handles) /\ ListOf(q, B \ {h})
    BY <1>1, ListRemoved, Zenon
  <1>3. h \notin A \ {h} /\ h \notin B \ {h}
    OBVIOUS
  <1>4. ListOf(ph, (A \ {h}) \cup {h}) /\ ListOf(qh, (B \ {h}) \cup {h})
    BY <1>2, <1>3, ListAppend, Zenon
  <1> DEFINE l == LRU_Remove(c, h)
  <1>5. l = [c EXCEPT !.lru = p, !.in_use = q]
    BY Zenon DEF LRU_Remove
  <1> HIDE DEF p, q, l
  <1>6. ph \in Seq(Handles) /\ qh \in Seq(Handles)
    BY <1>2
  <1>7. /\ l \in ShardType(x) /\ l.handle = c.handle /\ l.lru = p /\ l.in_use = q
        /\ l.table = c.table /\ l.capacity = c.capacity /\ l.usage = c.usage
    BY <1>2, <1>5 DEF ShardType
  <1>8. /\ LRU_Append(l, "in_use", h) = [l EXCEPT !.in_use = qh]
        /\ LRU_Append(l, "lru", h) = [l EXCEPT !.lru = ph]
    BY <1>7, Zenon DEF LRU_Append
  <1> HIDE DEF ph, qh
  <1>9. LET d == [l EXCEPT !.in_use = qh]
        IN  /\ d \in ShardType(x) /\ d.handle = c.handle /\ d.lru = p /\ d.in_use = qh
            /\ d.table = c.table /\ d.capacity = c.capacity /\ d.usage = c.usage
    BY <1>6, <1>7 DEF ShardType
  <1>10. LET d == [l EXCEPT !.lru = ph]
         IN  /\ d \in ShardType(x) /\ d.handle = c.handle /\ d.lru = ph /\ d.in_use = q
             /\ d.table = c.table /\ d.capacity = c.capacity /\ d.usage = c.usage
    BY <1>6, <1>7 DEF ShardType
  <1> QED
    BY <1>2, <1>4, <1>8, <1>9, <1>10, Zenon DEF Alike, l

LEMMA ListsStay ==
    ASSUME NEW c, NEW d, NEW h, ListsOK(c), Cached(d) = Cached(c),
           d.lru = c.lru, d.in_use = c.in_use,
           \A g \in Handles : g # h => d.handle[g] = c.handle[g],
           h \in Cached(c) => (d.handle[h].refs = 1 <=> c.handle[h].refs = 1)
    PROVE  ListsOK(d)
  <1>1. \A g \in Cached(c) : g \in Handles
    BY DEF Cached
  <1>2. \A g \in Cached(c) : d.handle[g].refs = 1 <=> c.handle[g].refs = 1
    BY <1>1, Zenon
  <1>3. {g \in Cached(d) : d.handle[g].refs = 1} = {g \in Cached(c) : c.handle[g].refs = 1}
    BY <1>2
  <1>4. {g \in Cached(d) : d.handle[g].refs # 1} = {g \in Cached(c) : c.handle[g].refs # 1}
    BY <1>2
  <1> QED
    BY <1>3, <1>4, Zenon DEF ListsOK

\* A handle goes to the list of its references.
MovesTo(c, d, h) ==
    LET A == {g \in Cached(c) : c.handle[g].refs = 1}
        B == {g \in Cached(c) : c.handle[g].refs # 1}
    IN  \/ /\ d.handle[h].refs # 1
           /\ ListOf(d.lru, A \ {h}) /\ ListOf(d.in_use, (B \ {h}) \cup {h})
        \/ /\ d.handle[h].refs = 1
           /\ ListOf(d.lru, (A \ {h}) \cup {h}) /\ ListOf(d.in_use, B \ {h})

LEMMA ListsMove ==
    ASSUME NEW c, NEW d, NEW h, Cached(d) = Cached(c), h \in Cached(c),
           \A g \in Handles : g # h => d.handle[g] = c.handle[g], MovesTo(c, d, h)
    PROVE  ListsOK(d)
  <1> DEFINE A == {g \in Cached(c) : c.handle[g].refs = 1}
             B == {g \in Cached(c) : c.handle[g].refs # 1}
             C == {g \in Cached(d) : d.handle[g].refs = 1}
             D == {g \in Cached(d) : d.handle[g].refs # 1}
  <1>1. \A g \in Cached(c) : g # h => d.handle[g] = c.handle[g]
    BY DEF Cached
  <1>2. d.handle[h].refs # 1 => C = A \ {h} /\ D = (B \ {h}) \cup {h}
    BY <1>1
  <1>3. d.handle[h].refs = 1 => C = (A \ {h}) \cup {h} /\ D = B \ {h}
    BY <1>1
  <1>4. \/ /\ d.handle[h].refs # 1
           /\ ListOf(d.lru, A \ {h}) /\ ListOf(d.in_use, (B \ {h}) \cup {h})
        \/ /\ d.handle[h].refs = 1
           /\ ListOf(d.lru, (A \ {h}) \cup {h}) /\ ListOf(d.in_use, B \ {h})
    BY Zenon DEF MovesTo
  <1> QED
    BY <1>2, <1>3, <1>4, Zenon DEF ListsOK

\* Users take or give back references of a handle.
LEMMA Recounted ==
    ASSUME NEW x, NEW c, NEW s, NEW R, NEW Q, ShardOK(x, c, s, R), NEW h \in Handles,
           NEW d \in ShardType(x), Alike(c, d, h), \A g \in Handles : g # h => Q[g] = R[g],
           d.handle[h].in_cache = c.handle[h].in_cache,
           d.handle[h].refs = Q[h] + (IF d.handle[h].in_cache THEN 1 ELSE 0),
           c.handle[h].in_cache => /\ d.handle[h].file = c.handle[h].file
                                   /\ d.handle[h].charge = c.handle[h].charge,
           ListsOK(d)
    PROVE  /\ ShardOK(x, d, s, Q)
           /\ (Q[h] # 0 => d.handle[h].file = c.handle[h].file) => Keeps(c, d, Q)
  <1>1. \A g \in Handles : g # h => d.handle[g] = c.handle[g]
    BY Zenon DEF Alike
  <1>2. Cached(d) = Cached(c)
    BY <1>1 DEF Cached
  <1>3. RefsOK(c, R) /\ Ours(c, s) /\ c.usage = Cardinality(Cached(c)) /\ TableOK(c.table, c.handle, Cached(c))
    BY Zenon DEF ShardOK, HalfOK
  <1>4. RefsOK(d, Q)
    BY <1>1, <1>3, Zenon DEF RefsOK
  <1>5. \A g \in Cached(d) : g \in Cached(c) /\ d.handle[g].file = c.handle[g].file
                             /\ d.handle[g].charge = c.handle[g].charge
    BY <1>1, <1>2 DEF Cached
  <1>6. Ours(d, s)
    BY <1>3, <1>5, Zenon DEF Ours
  <1>7. TableOK(d.table, d.handle, Cached(d)) /\ d.usage = Cardinality(Cached(d))
    <2>1. TableOK(d.table, c.handle, Cached(d)) /\ d.usage = Cardinality(Cached(d))
      BY <1>2, <1>3, Zenon DEF Alike
    <2> QED
      BY <1>5, <2>1, SameFiles, Zenon
  <1>8. (Q[h] # 0 => d.handle[h].file = c.handle[h].file) => Keeps(c, d, Q)
    BY <1>1, Zenon DEF Keeps
  <1>9. ShardOK(x, d, s, Q)
    BY <1>4, <1>6, <1>7, Zenon DEF ShardOK, HalfOK
  <1> QED
    BY <1>8, <1>9, Zenon

LEMMA Referenced ==
    ASSUME NEW x, NEW c, NEW s, NEW R \in References, ShardOK(x, c, s, R), NEW h \in Cached(c)
    PROVE  LET Q == [R EXCEPT ![h] = @ + 1]
           IN  ShardOK(x, Ref(c, h), s, Q) /\ Keeps(c, Ref(c, h), Q)
  <1> DEFINE Q == [R EXCEPT ![h] = @ + 1]
             l == LRU_Append(LRU_Remove(c, h), "in_use", h)
             d == IF c.handle[h].refs = 1 /\ c.handle[h].in_cache THEN l ELSE c
             v == [c.handle[h] EXCEPT !.refs = @ + 1]
             e == [d EXCEPT !.handle[h] = v]
             A == {g \in Cached(c) : c.handle[g].refs = 1}
             B == {g \in Cached(c) : c.handle[g].refs # 1}
  <1>1. h \in Handles /\ c.handle[h].in_cache
    BY DEF Cached
  <1>2. c \in ShardType(x) /\ ListsOK(c) /\ RefsOK(c, R)
    BY Zenon DEF ShardOK, HalfOK
  <1>3. R[h] \in Nat /\ Q[h] = R[h] + 1 /\ \A g \in Handles : g # h => Q[g] = R[g]
    BY <1>1 DEF References
  <1>4. c.handle[h] \in HandleType /\ c.handle[h].refs = R[h] + 1
    <2>1. c.handle[h] \in HandleType
      BY <1>1, <1>2 DEF ShardType
    <2> QED
      BY <1>1, <1>2, <2>1, Zenon DEF RefsOK
  <1>5. v \in HandleType /\ v.refs = Q[h] + 1 /\ v.refs # 1 /\ v.in_cache = TRUE
        /\ v.file = c.handle[h].file /\ v.charge = c.handle[h].charge
    BY <1>1, <1>3, <1>4 DEF HandleType
  <1>6. /\ l \in ShardType(x) /\ Alike(c, l, h) /\ l.handle = c.handle
        /\ ListOf(l.lru, A \ {h}) /\ ListOf(l.in_use, (B \ {h}) \cup {h})
    BY <1>1, <1>2, Moved, Zenon DEF ListsOK
  <1> HIDE DEF l
  <1>7. d \in ShardType(x) /\ Alike(c, d, h) /\ d.handle = c.handle
    BY <1>2, <1>6, Zenon DEF Alike
  <1>8. Ref(c, h) = e
    BY <1>7, Zenon DEF Ref, l
  <1> HIDE DEF v
  <1> HIDE DEF d
  <1>9. e \in ShardType(x) /\ Alike(d, e, h) /\ e.handle[h] = v /\ e.lru = d.lru /\ e.in_use = d.in_use
    <2>1. v \in HandleType
      BY <1>5, Zenon
    <2>2. Becomes(x, d, e, h, v)
      BY <1>1, <1>7, <2>1, HandleSet, Zenon
    <2> QED
      BY <2>2, Zenon DEF Becomes
  <1> HIDE DEF e, Q
  <1>10. Alike(c, e, h)
    BY <1>7, <1>9, Zenon DEF Alike
  <1>11. \A g \in Handles : g # h => e.handle[g] = c.handle[g]
    BY <1>10, Zenon DEF Alike
  <1>12. Cached(e) = Cached(c)
    BY <1>1, <1>5, <1>9, <1>11 DEF Cached
  <1>13. ListsOK(e)
    <2>1. CASE c.handle[h].refs = 1
      <3>1. d = l
        BY <1>1, <2>1, Zenon DEF d
      <3>2. /\ e.handle[h].refs # 1
            /\ ListOf(e.lru, A \ {h}) /\ ListOf(e.in_use, (B \ {h}) \cup {h})
        BY <1>5, <1>6, <1>9, <3>1, Zenon
      <3>3. MovesTo(c, e, h)
        BY <3>2, Zenon DEF MovesTo
      <3> QED
        <4>1. h \in Cached(c)
          OBVIOUS
        <4> QED
          BY <1>11, <1>12, <3>3, <4>1, ListsMove
    <2>2. CASE c.handle[h].refs # 1
      <3>1. d = c
        BY <2>2, Zenon DEF d
      <3>2. e.handle[h].refs # 1 /\ e.lru = c.lru /\ e.in_use = c.in_use
        BY <1>5, <1>9, <3>1, Zenon
      <3> QED
        BY <1>2, <1>11, <1>12, <2>2, <3>2, ListsStay, Zenon
    <2> QED
      BY <2>1, <2>2
  <1>14. /\ e.handle[h].in_cache = c.handle[h].in_cache
         /\ e.handle[h].refs = Q[h] + (IF e.handle[h].in_cache THEN 1 ELSE 0)
         /\ e.handle[h].file = c.handle[h].file /\ e.handle[h].charge = c.handle[h].charge
    <2>1. c.handle[h].in_cache = TRUE
      BY <1>1, <1>4 DEF HandleType
    <2> QED
      BY <1>5, <1>9, <2>1, Zenon
  <1>15. ShardOK(x, e, s, Q) /\ Keeps(c, e, Q)
    BY <1>1, <1>3, <1>9, <1>10, <1>13, <1>14, Recounted, ZenonT(40)
  <1> QED
    BY <1>8, <1>15, Zenon DEF Q

LEMMA Released ==
    ASSUME NEW x, NEW c, NEW s, NEW R \in References, ShardOK(x, c, s, R),
           NEW h \in Handles, R[h] # 0
    PROVE  LET Q == [R EXCEPT ![h] = @ - 1]
           IN  ShardOK(x, Unref(c, h), s, Q) /\ Keeps(c, Unref(c, h), Q)
  <1> DEFINE Q == [R EXCEPT ![h] = @ - 1]
             v == [c.handle[h] EXCEPT !.refs = @ - 1]
             d == [c EXCEPT !.handle[h] = v]
             f == [d EXCEPT !.handle[h] = Freed]
             e == LRU_Append(LRU_Remove(d, h), "lru", h)
             A == {g \in Cached(c) : c.handle[g].refs = 1}
             B == {g \in Cached(c) : c.handle[g].refs # 1}
  <1>1. c \in ShardType(x) /\ ListsOK(c) /\ RefsOK(c, R)
    BY Zenon DEF ShardOK, HalfOK
  <1>2. /\ R[h] \in Nat /\ Q[h] = R[h] - 1 /\ Q[h] \in Nat
        /\ \A g \in Handles : g # h => Q[g] = R[g]
    BY DEF References
  <1>3. PICK in \in BOOLEAN : in = c.handle[h].in_cache
    BY <1>1 DEF ShardType, HandleType
  <1>4. c.handle[h] \in HandleType /\ c.handle[h].refs = R[h] + (IF in THEN 1 ELSE 0)
    <2>1. c.handle[h] \in HandleType
      BY <1>1 DEF ShardType
    <2> QED
      BY <1>1, <1>3, <2>1, Zenon DEF RefsOK
  <1>5. v \in HandleType /\ v.refs = Q[h] + (IF in THEN 1 ELSE 0) /\ v.in_cache = in
        /\ v.file = c.handle[h].file /\ v.charge = c.handle[h].charge
    BY <1>2, <1>3, <1>4 DEF HandleType
  <1> HIDE DEF v
  <1>6. d \in ShardType(x) /\ Alike(c, d, h) /\ d.handle[h] = v /\ d.lru = c.lru /\ d.in_use = c.in_use
    <2>1. v \in HandleType
      BY <1>5, Zenon
    <2>2. Becomes(x, c, d, h, v)
      BY <1>1, <2>1, HandleSet, Zenon
    <2> QED
      BY <2>2, Zenon DEF Becomes
  <1>7. Unref(c, h) = IF v.refs = 0 THEN f ELSE IF v.in_cache /\ v.refs = 1 THEN e ELSE d
    BY <1>6, Zenon DEF Unref, v
  <1> HIDE DEF d, Q
  <1>8. \A g \in Handles : g # h => d.handle[g] = c.handle[g]
    BY <1>6, Zenon DEF Alike
  <1>9. Cached(d) = Cached(c)
    BY <1>3, <1>5, <1>6, <1>8 DEF Cached
  <1>10. CASE v.refs = 0
    <2>1. Q[h] = 0 /\ in = FALSE
      BY <1>2, <1>5, <1>10
    <2>2. Freed \in HandleType /\ Freed.in_cache = FALSE /\ Freed.refs = 0
      BY DEF Freed, HandleType
    <2>11. Becomes(x, d, f, h, Freed)
      BY <1>6, <2>2, HandleSet, Zenon
    <2>3. f \in ShardType(x) /\ Alike(d, f, h) /\ f.handle[h] = Freed /\ f.lru = d.lru /\ f.in_use = d.in_use
      BY <2>11, Zenon DEF Becomes
    <2> HIDE DEF f
    <2>4. Alike(c, f, h)
      BY <1>6, <2>3, Zenon DEF Alike
    <2>5. \A g \in Handles : g # h => f.handle[g] = c.handle[g]
      BY <2>4, Zenon DEF Alike
    <2>6. h \notin Cached(c)
      BY <1>3, <2>1 DEF Cached
    <2>7. Cached(f) = Cached(c)
      BY <2>2, <2>3, <2>5, <2>6 DEF Cached
    <2>8. ListsOK(f)
      BY <1>1, <1>6, <2>3, <2>5, <2>6, <2>7, ListsStay, Zenon
    <2>9. /\ f.handle[h].in_cache = FALSE
          /\ f.handle[h].refs = Q[h] + (IF f.handle[h].in_cache THEN 1 ELSE 0)
      BY <2>1, <2>2, <2>3
    <2>10. ShardOK(x, f, s, Q) /\ Keeps(c, f, Q)
      BY <1>2, <1>3, <2>1, <2>3, <2>4, <2>8, <2>9, Recounted, ZenonT(40)
    <2> QED
      BY <1>7, <1>10, <2>10, Zenon DEF Q
  <1>11. CASE v.refs # 0 /\ in /\ v.refs = 1
    <2>1. h \in Cached(c) /\ c.handle[h].refs # 1
      <3>1. in = TRUE /\ v.refs = 1
        BY <1>11, Zenon
      <3>2. h \in Cached(c)
        BY <1>3, <3>1, Zenon DEF Cached
      <3>3. v.refs = R[h]
        BY <1>2, <1>5, <3>1
      <3>4. c.handle[h].refs = R[h] + 1
        BY <1>4, <3>1
      <3> QED
        BY <1>2, <3>1, <3>2, <3>3, <3>4
    <2>2. d.handle[h].refs = 1
      BY <1>6, <1>11, Zenon
    <2>3. ListOf(d.lru, A) /\ ListOf(d.in_use, B)
      BY <1>1, <1>6, Zenon DEF ListsOK
    <2>4. /\ e \in ShardType(x) /\ Alike(d, e, h) /\ e.handle = d.handle
          /\ ListOf(e.lru, (A \ {h}) \cup {h}) /\ ListOf(e.in_use, B \ {h})
      BY <1>6, <2>3, Moved, ZenonT(40)
    <2> HIDE DEF e
    <2>5. Alike(c, e, h)
      BY <1>6, <2>4, Zenon DEF Alike
    <2>6. Cached(e) = Cached(c)
      BY <1>9, <2>4, Zenon DEF Cached
    <2>10. \A g \in Handles : g # h => e.handle[g] = c.handle[g]
      BY <2>5, Zenon DEF Alike
    <2>11. MovesTo(c, e, h)
      BY <2>2, <2>4, Zenon DEF MovesTo
    <2>7. ListsOK(e)
      BY <2>1, <2>6, <2>10, <2>11, ListsMove, Zenon
    <2>8. /\ e.handle[h].in_cache = c.handle[h].in_cache
          /\ e.handle[h].refs = Q[h] + (IF e.handle[h].in_cache THEN 1 ELSE 0)
          /\ e.handle[h].file = c.handle[h].file /\ e.handle[h].charge = c.handle[h].charge
      BY <1>3, <1>5, <1>6, <2>4, Zenon
    <2>9. ShardOK(x, e, s, Q) /\ Keeps(c, e, Q)
      BY <1>2, <2>4, <2>5, <2>7, <2>8, Recounted, ZenonT(40)
    <2> QED
      BY <1>5, <1>7, <1>11, <2>9, Zenon DEF Q
  <1>12. CASE v.refs # 0 /\ ~(in /\ v.refs = 1)
    <2>1. h \in Cached(c) => (d.handle[h].refs = 1 <=> c.handle[h].refs = 1)
      <3>1. h \in Cached(c) => v.refs # 1 /\ c.handle[h].refs # 1
        BY <1>2, <1>3, <1>4, <1>5, <1>12 DEF Cached
      <3> QED
        BY <1>6, <3>1, Zenon
    <2>2. ListsOK(d)
      BY <1>1, <1>6, <1>8, <1>9, <2>1, ListsStay, Zenon
    <2>3. /\ d.handle[h].in_cache = c.handle[h].in_cache
          /\ d.handle[h].refs = Q[h] + (IF d.handle[h].in_cache THEN 1 ELSE 0)
          /\ d.handle[h].file = c.handle[h].file /\ d.handle[h].charge = c.handle[h].charge
      BY <1>3, <1>5, <1>6, Zenon
    <2>4. ShardOK(x, d, s, Q) /\ Keeps(c, d, Q)
      BY <1>2, <1>6, <2>2, <2>3, Recounted, ZenonT(40)
    <2> QED
      BY <1>5, <1>7, <1>12, <2>4, Zenon DEF Q
  <1> QED
    BY <1>10, <1>11, <1>12

-----------------------------------------------------------------------------
\* Insert.

\* The handle of a user holds the file it asked for.
Puts(c, d, R, h, file) == Keeps(c, d, R) /\ d.handle[h].file = file

\* A user holds h in addition.
Held(x, c, d, s, R, h, file) ==
    LET Q == [R EXCEPT ![h] = @ + 1]
    IN  ShardOK(x, d, s, Q) /\ Puts(c, d, R, h, file) /\ Q[h] # 0

LEMMA FreeHandle ==
    ASSUME NEW x, NEW c, NEW s, NEW R \in References, ShardOK(x, c, s, R),
           NEW h \in Handles, c.handle[h].refs = 0
    PROVE  R[h] = 0 /\ c.handle[h].in_cache = FALSE /\ h \notin Cached(c)
  <1>1. c.handle[h] \in HandleType
    BY DEF ShardOK, HalfOK, ShardType
  <1>2. PICK in \in BOOLEAN : in = c.handle[h].in_cache
    BY <1>1 DEF HandleType
  <1>3. c.handle[h].refs = R[h] + (IF in THEN 1 ELSE 0)
    BY <1>2, Zenon DEF ShardOK, HalfOK, RefsOK
  <1>4. R[h] \in Nat
    BY DEF References
  <1>5. R[h] = 0 /\ in = FALSE
    BY <1>3, <1>4
  <1> QED
    BY <1>2, <1>5, Zenon DEF Cached

LEMMA NotCached ==
    ASSUME NEW x, NEW c, NEW s, NEW R \in References, ShardOK(x, c, s, R),
           NEW h \in Handles, c.handle[h].refs = 0, NEW file \in Files
    PROVE  LET new == [file |-> file, in_cache |-> FALSE, charge |-> 1, refs |-> 1]
           IN  Held(x, c, [c EXCEPT !.handle[h] = new], s, R, h, file)
  <1> DEFINE Q == [R EXCEPT ![h] = @ + 1]
             new == [file |-> file, in_cache |-> FALSE, charge |-> 1, refs |-> 1]
             d == [c EXCEPT !.handle[h] = new]
  <1>1. R[h] = 0 /\ c.handle[h].in_cache = FALSE /\ h \notin Cached(c)
    BY FreeHandle, Zenon
  <1>2. Q[h] = 1 /\ \A g \in Handles : g # h => Q[g] = R[g]
    BY <1>1 DEF References
  <1>3. new \in HandleType /\ new.file = file /\ new.in_cache = FALSE /\ new.refs = 1
    BY DEF HandleType
  <1> HIDE DEF new, Q
  <1>4. c \in ShardType(x) /\ ListsOK(c)
    BY Zenon DEF ShardOK, HalfOK
  <1>5. Becomes(x, c, d, h, new)
    BY <1>3, <1>4, HandleSet, Zenon
  <1> HIDE DEF d
  <1>6. d \in ShardType(x) /\ Alike(c, d, h) /\ d.handle[h] = new /\ d.lru = c.lru /\ d.in_use = c.in_use
    BY <1>5, Zenon DEF Becomes
  <1>7. \A g \in Handles : g # h => d.handle[g] = c.handle[g]
    BY <1>6, Zenon DEF Alike
  <1>8. Cached(d) = Cached(c)
    BY <1>1, <1>3, <1>6, <1>7 DEF Cached
  <1>9. ListsOK(d)
    BY <1>1, <1>4, <1>6, <1>7, <1>8, ListsStay, Zenon
  <1>10. /\ d.handle[h].in_cache = c.handle[h].in_cache
         /\ d.handle[h].refs = Q[h] + (IF d.handle[h].in_cache THEN 1 ELSE 0)
    <2>1. d.handle[h].in_cache = FALSE /\ d.handle[h].refs = 1
      BY <1>3, <1>6, Zenon
    <2>2. (IF d.handle[h].in_cache THEN 1 ELSE 0) = 0
      BY <2>1, Zenon
    <2>3. d.handle[h].refs = Q[h] + 0
      BY <1>2, <2>1
    <2> QED
      BY <1>1, <2>1, <2>2, <2>3, Zenon
  <1>11. ShardOK(x, d, s, Q)
    BY <1>1, <1>2, <1>6, <1>9, <1>10, Recounted, Zenon
  <1>12. Puts(c, d, R, h, file)
    BY <1>1, <1>3, <1>6, <1>7, Zenon DEF Puts, Keeps
  <1>13. Q[h] # 0
    BY <1>2
  <1> QED
    BY <1>11, <1>12, <1>13, Zenon DEF Q, d, new, Held

\* The new entry is charged and on the list of handles in use, but not in the table yet.
Charged(c, h, file) ==
    LET new == [file |-> file, in_cache |-> TRUE, charge |-> 1, refs |-> 2]
    IN  [LRU_Append([c EXCEPT !.handle[h] = new], "in_use", h) EXCEPT !.usage = @ + 1]

ChargedOK(x, c, d, s, R, h, file) ==
    /\ HalfOK(x, d, s, [R EXCEPT ![h] = @ + 1], Cached(c))
    /\ Puts(c, d, R, h, file) /\ Cached(d) = Cached(c) \cup {h} /\ d.table = c.table
    /\ \A g \in Cached(c) : d.handle[g] = c.handle[g]

LEMMA ChargedIn ==
    ASSUME NEW x, NEW c, NEW s, NEW R \in References, ShardOK(x, c, s, R),
           NEW h \in Handles, c.handle[h].refs = 0, NEW file \in Files, Shard(file) = s
    PROVE  ChargedOK(x, c, Charged(c, h, file), s, R, h, file)
  <1> DEFINE Q == [R EXCEPT ![h] = @ + 1]
             new == [file |-> file, in_cache |-> TRUE, charge |-> 1, refs |-> 2]
             e == [c EXCEPT !.handle[h] = new]
             q == Append(c.in_use, h)
             m == c.usage + 1
             d == Charged(c, h, file)
             A == {g \in Cached(c) : c.handle[g].refs = 1}
             B == {g \in Cached(c) : c.handle[g].refs # 1}
  <1>1. R[h] = 0 /\ h \notin Cached(c)
    BY FreeHandle, Zenon
  <1>2. Q[h] = 1 /\ \A g \in Handles : g # h => Q[g] = R[g]
    BY <1>1 DEF References
  <1>3. new \in HandleType /\ new.file = file /\ new.in_cache = TRUE /\ new.refs = 2 /\ new.charge = 1
    BY DEF HandleType
  <1>4. d = [LRU_Append(e, "in_use", h) EXCEPT !.usage = @ + 1]
    BY Zenon DEF Charged
  <1> HIDE DEF new, Q, d
  <1>5. c \in ShardType(x) /\ ListsOK(c) /\ RefsOK(c, R) /\ Ours(c, s)
        /\ c.usage = Cardinality(Cached(c)) /\ TableOK(c.table, c.handle, Cached(c))
    BY Zenon DEF ShardOK, HalfOK
  <1>6. Becomes(x, c, e, h, new)
    BY <1>3, <1>5, HandleSet, Zenon
  <1> HIDE DEF e
  <1>7. e \in ShardType(x) /\ Alike(c, e, h) /\ e.handle[h] = new /\ e.lru = c.lru /\ e.in_use = c.in_use
    BY <1>6, Zenon DEF Becomes
  <1>8. e.usage = c.usage /\ e.table = c.table
    BY <1>7, Zenon DEF Alike
  <1>9. LRU_Append(e, "in_use", h) = [e EXCEPT !.in_use = q]
    BY <1>7, Zenon DEF LRU_Append
  <1>10. c.in_use \in Seq(Handles) /\ c.usage \in Int
    BY <1>5 DEF ShardType
  <1>11. q \in Seq(Handles) /\ m \in Int
    BY <1>10
  <1>12. d = [e EXCEPT !.in_use = q, !.usage = m]
    BY <1>4, <1>7, <1>8, <1>9 DEF ShardType
  <1>13. h \notin B
    BY <1>1
  <1>14. ListOf(q, B \cup {h}) /\ ListOf(c.lru, A)
    BY <1>5, <1>10, <1>13, ListAppend, Zenon DEF ListsOK
  <1> HIDE DEF q, m
  <1>15. /\ d \in ShardType(x) /\ d.handle = e.handle /\ d.in_use = q /\ d.usage = m
         /\ d.lru = c.lru /\ d.table = c.table
    BY <1>7, <1>8, <1>11, <1>12 DEF ShardType
  <1>16. d.handle[h] = new /\ \A g \in Handles : g # h => d.handle[g] = c.handle[g]
    BY <1>7, <1>15, Zenon DEF Alike
  <1>17. Cached(d) = Cached(c) \cup {h}
    BY <1>1, <1>3, <1>16 DEF Cached
  <1>18. \A g \in Cached(c) : d.handle[g] = c.handle[g] /\ g # h
    BY <1>1, <1>16 DEF Cached
  <1>19. RefsOK(d, Q)
    <2> SUFFICES ASSUME NEW g \in Handles
                 PROVE  d.handle[g].refs = Q[g] + (IF d.handle[g].in_cache THEN 1 ELSE 0)
      BY Zenon DEF RefsOK
    <2>1. CASE g = h
      BY <1>2, <1>3, <1>16, <2>1
    <2>2. CASE g # h
      BY <1>2, <1>5, <1>16, <2>2, Zenon DEF RefsOK
    <2> QED
      BY <2>1, <2>2
  <1>20. Ours(d, s)
    <2> SUFFICES ASSUME NEW g \in Cached(d)
                 PROVE  d.handle[g].file \in Files /\ Shard(d.handle[g].file) = s /\ d.handle[g].charge = 1
      BY Zenon DEF Ours
    <2>1. CASE g = h
      BY <1>3, <1>16, <2>1, Zenon
    <2>2. CASE g \in Cached(c)
      <3>1. d.handle[g] = c.handle[g]
        BY <1>18, <2>2, Zenon
      <3>2. c.handle[g].file \in Files /\ Shard(c.handle[g].file) = s /\ c.handle[g].charge = 1
        BY <1>5, <2>2, Zenon DEF Ours
      <3> QED
        BY <3>1, <3>2, Zenon
    <2> QED
      BY <1>17, <2>1, <2>2
  <1>21. ListsOK(d)
    <2>1. d.handle[h].refs # 1
      BY <1>3, <1>16
    <2>2. {g \in Cached(d) : d.handle[g].refs = 1} = A /\ {g \in Cached(d) : d.handle[g].refs # 1} = B \cup {h}
      BY <1>17, <1>18, <2>1
    <2> QED
      BY <1>14, <1>15, <2>2, Zenon DEF ListsOK
  <1>22. d.usage = Cardinality(Cached(d))
    <2> DEFINE S == Cached(c)
    <2>1. IsFiniteSet(S) /\ h \notin S /\ c.usage = Cardinality(S)
      BY <1>1, <1>5, CachedFinite, Zenon
    <2> HIDE DEF S
    <2>2. Cardinality(S \cup {h}) = Cardinality(S) + 1
      BY <2>1, FS_AddElement
    <2> QED
      BY <1>15, <1>17, <2>1, <2>2, Zenon DEF S, m
  <1>23. TableOK(d.table, d.handle, Cached(c))
    <2>1. \A g \in Cached(c) : d.handle[g].file = c.handle[g].file
      BY <1>18, Zenon
    <2> QED
      BY <1>5, <1>15, <2>1, SameFiles, Zenon
  <1>24. HalfOK(x, d, s, Q, Cached(c))
    BY <1>15, <1>19, <1>20, <1>21, <1>22, <1>23, Zenon DEF HalfOK
  <1>25. Puts(c, d, R, h, file)
    BY <1>1, <1>3, <1>16, Zenon DEF Puts, Keeps
  <1> QED
    BY <1>15, <1>17, <1>18, <1>24, <1>25, Zenon DEF Q, d, ChargedOK

\* The table replaces an older handle of the file, which then goes.
LEMMA Placed ==
    ASSUME NEW x, NEW c, NEW s, NEW R \in References, ShardOK(x, c, s, R),
           NEW h \in Handles, c.handle[h].refs = 0, NEW file \in Files, Shard(file) = s
    PROVE  Held(x, c, FinishErase(TableInsert(Charged(c, h, file), h), TableLookup(c, file)),
                s, R, h, file)
  <1> DEFINE Q == [R EXCEPT ![h] = @ + 1]
             T == Cached(c)
             d == Charged(c, h, file)
             m == TableInsert(d, h)
             o == TableLookup(c, file)
             p == TableLookup(d, file)
             e == FinishErase(m, o)
  <1>1. R[h] = 0 /\ h \notin T
    BY FreeHandle, Zenon
  <1>2. Q[h] = 1 /\ Q \in References /\ \A g \in Handles : g # h => Q[g] = R[g]
    BY <1>1 DEF References
  <1>3. Q[h] # 0
    BY <1>2
  <1>4. /\ HalfOK(x, d, s, Q, T)
        /\ Puts(c, d, R, h, file) /\ Cached(d) = T \cup {h} /\ d.table = c.table
        /\ \A g \in T : d.handle[g] = c.handle[g]
    <2>1. ChargedOK(x, c, d, s, R, h, file)
      BY ChargedIn, Zenon
    <2> QED
      BY <2>1, Zenon DEF ChargedOK
  <1>5. d.handle[h].file = file
    BY <1>4, Zenon DEF Puts
  <1>6. d \in ShardType(x) /\ TableOK(d.table, d.handle, T)
    BY <1>4, Zenon DEF HalfOK
  <1>7. m \in ShardType(x) /\ Tabled(d, m, (T \ {p}) \cup {h})
    BY <1>1, <1>5, <1>6, Inserted, Zenon
  <1>8. HalfOK(x, c, s, R, T) /\ TableOK(c.table, c.handle, T)
    BY Zenon DEF ShardOK, HalfOK
  <1>9. LookedUp(c.handle, T, file, o) /\ LookedUp(d.handle, T, file, p)
    BY <1>4, <1>8, Looked, Zenon
  <1> HIDE DEF d, m, o, p, Q
  <1>10. o = p
    <2>1. \A g, k \in T : c.handle[g].file = c.handle[k].file => g = k
      BY <1>8, Zenon DEF TableOK
    <2>2. \A g \in T : d.handle[g].file = c.handle[g].file
      BY <1>4, Zenon
    <2> HIDE DEF T
    <2> QED
      BY <1>9, <2>1, <2>2, Zenon DEF LookedUp
  <1>11. HalfOK(x, m, s, Q, (T \ {o}) \cup {h}) /\ Cached(m) = T \cup {h}
    <2> DEFINE U == (T \ {o}) \cup {h}
    <2>1. m \in ShardType(x) /\ Tabled(d, m, U)
      BY <1>7, <1>10, Zenon
    <2> HIDE DEF U
    <2>2. HalfOK(x, m, s, Q, U) /\ Cached(m) = Cached(d)
      BY <1>4, <2>1, TableIrrelevant
    <2> QED
      BY <1>4, <2>2, Zenon DEF U
  <1>12. Puts(c, m, R, h, file)
    BY <1>4, <1>7, Zenon DEF Puts, Keeps, Tabled
  <1>13. m.handle[h].file = file
    BY <1>12, Zenon DEF Puts
  <1>14. CASE o = 0
    <2>1. 0 \notin T
      BY ZeroIsNone DEF Cached
    <2>2. (T \ {o}) \cup {h} = T \cup {h}
      BY <1>14, <2>1
    <2>3. e = m
      BY <1>14, Zenon DEF FinishErase
    <2> QED
      BY <1>3, <1>11, <1>12, <2>2, <2>3, Zenon DEF ShardOK, Q, m, d, o, Held
  <1>15. CASE o \in T
    <2>1. o \in Cached(m) /\ (T \ {o}) \cup {h} = Cached(m) \ {o}
      BY <1>1, <1>11, <1>15
    <2>2. HalfOK(x, m, s, Q, Cached(m) \ {o})
      BY <1>11, <2>1, Zenon
    <2>3. ShardOK(x, e, s, Q) /\ Keeps(m, e, Q)
      BY <1>2, <2>1, <2>2, FinishErased, Zenon
    <2> HIDE DEF e
    <2>4. Puts(c, e, R, h, file)
      <3>1. e.handle[h].file = file
        BY <1>3, <1>13, <2>3, Zenon DEF Keeps
      <3>2. ASSUME NEW g \in Handles, R[g] # 0 PROVE e.handle[g].file = c.handle[g].file
        <4>1. Q[g] # 0
          BY <1>1, <1>2, <3>2, Zenon
        <4>2. e.handle[g].file = m.handle[g].file
          BY <2>3, <4>1, Zenon DEF Keeps
        <4> QED
          BY <1>12, <3>2, <4>2, Zenon DEF Puts, Keeps
      <3> QED
        BY <3>1, <3>2, Zenon DEF Puts, Keeps
    <2> QED
      BY <1>3, <2>3, <2>4, Zenon DEF Q, m, d, o, e, Held
  <1> QED
    BY <1>9, <1>14, <1>15, Zenon DEF LookedUp

LEMMA HandleInserted ==
    ASSUME NEW x \in Nat, NEW c, NEW s, NEW R \in References, ShardOK(x, c, s, R),
           NEW h \in Handles, c.handle[h].refs = 0, NEW file \in Files, Shard(file) = s
    PROVE  /\ ShardOK(x, InsertHandle(c, file, h), s, [R EXCEPT ![h] = @ + 1])
           /\ Puts(c, InsertHandle(c, file, h), R, h, file)
  <1> DEFINE Q == [R EXCEPT ![h] = @ + 1]
             new == [file |-> file, in_cache |-> c.capacity > 0, charge |-> 1,
                     refs |-> IF c.capacity > 0 THEN 2 ELSE 1]
             d == [c EXCEPT !.handle[h] = new]
             e == IF c.capacity = 0 THEN d
                  ELSE FinishErase(TableInsert([LRU_Append(d, "in_use", h) EXCEPT !.usage = @ + 1], h),
                                   TableLookup(c, file))
             i == EraseOldest(e, c.capacity)
  <1>1. c.capacity = x
    BY DEF ShardOK, HalfOK, ShardType
  <1>2. InsertHandle(c, file, h) = i
    BY Zenon DEF InsertHandle
  <1>7. Held(x, c, e, s, R, h, file)
    <2>1. CASE x = 0
      <3>1. new = [file |-> file, in_cache |-> FALSE, charge |-> 1, refs |-> 1]
        <4>1. (c.capacity > 0) = FALSE
          BY <1>1, <2>1
        <4> QED
          BY <4>1, Zenon
      <3> DEFINE v == new
      <3> HIDE DEF v
      <3>3. e = [c EXCEPT !.handle[h] = v]
        BY <1>1, <2>1, Zenon DEF v
      <3>2. e = [c EXCEPT !.handle[h] = [file |-> file, in_cache |-> FALSE, charge |-> 1, refs |-> 1]]
        BY <3>1, <3>3, Zenon DEF v
      <3> HIDE DEF e
      <3>4. LET z == [file |-> file, in_cache |-> FALSE, charge |-> 1, refs |-> 1]
            IN  Held(x, c, [c EXCEPT !.handle[h] = z], s, R, h, file)
        BY NotCached, Zenon
      <3> QED
        BY <3>2, <3>4, Zenon
    <2>2. CASE x # 0
      <3>1. new = [file |-> file, in_cache |-> TRUE, charge |-> 1, refs |-> 2]
        <4>1. (c.capacity > 0) = TRUE
          BY <1>1, <2>2
        <4> QED
          BY <4>1, Zenon
      <3> DEFINE v == new
                 f == LRU_Append([c EXCEPT !.handle[h] = v], "in_use", h)
                 y == [f EXCEPT !.usage = @ + 1]
      <3> HIDE DEF v
      <3>3. e = FinishErase(TableInsert(y, h), TableLookup(c, file))
        BY <1>1, <2>2, Zenon DEF v
      <3>4. v = [file |-> file, in_cache |-> TRUE, charge |-> 1, refs |-> 2]
        BY <3>1, Zenon DEF v
      <3>5. y = Charged(c, h, file)
        BY <3>4, Zenon DEF Charged
      <3> HIDE DEF y
      <3>2. e = FinishErase(TableInsert(Charged(c, h, file), h), TableLookup(c, file))
        BY <3>3, <3>5, Zenon
      <3> HIDE DEF e
      <3>6. Held(x, c, FinishErase(TableInsert(Charged(c, h, file), h), TableLookup(c, file)),
                 s, R, h, file)
        BY Placed, Zenon
      <3> QED
        BY <3>2, <3>6, Zenon
    <2> QED
      BY <2>1, <2>2
  <1> HIDE DEF e
  <1>3. ShardOK(x, e, s, Q) /\ Puts(c, e, R, h, file) /\ Q[h] # 0
    BY <1>7, Zenon DEF Held
  <1>4. Q \in References /\ R[h] = 0 /\ \A g \in Handles : g # h => Q[g] = R[g]
    <2>1. R[h] = 0
      BY FreeHandle, Zenon
    <2> QED
      BY <2>1 DEF References
  <1> HIDE DEF Q
  <1>5. ShardOK(x, i, s, Q) /\ Keeps(e, i, Q)
    BY <1>3, <1>4, OldestErased, Zenon
  <1> HIDE DEF i
  <1>6. Puts(c, i, R, h, file)
    <2>1. i.handle[h].file = file
      BY <1>3, <1>5, Zenon DEF Keeps, Puts
    <2>2. ASSUME NEW g \in Handles, R[g] # 0 PROVE i.handle[g].file = c.handle[g].file
      <3>1. Q[g] # 0
        BY <1>4, <2>2, Zenon
      <3>2. i.handle[g].file = e.handle[g].file
        BY <1>5, <3>1, Zenon DEF Keeps
      <3> QED
        BY <1>3, <2>2, <3>2, Zenon DEF Puts, Keeps
    <2> QED
      BY <2>1, <2>2, Zenon DEF Puts, Keeps
  <1> QED
    BY <1>2, <1>5, <1>6, Zenon DEF Q

-----------------------------------------------------------------------------
\* References of the users.

UserType == [at : {"idle", "opening", "using"}, file : Files \cup {0}, handle : Handles \cup {0}]

Holders(usr, s, h) ==
    {u \in Users : usr[u].at = "using" /\ usr[u].handle = h /\ Shard(usr[u].file) = s}
HeldBy(usr, s) == [h \in Handles |-> Cardinality(Holders(usr, s, h))]

LEMMA HoldersFinite ==
    ASSUME NEW usr, NEW s, NEW h
    PROVE  /\ IsFiniteSet(Holders(usr, s, h)) /\ Cardinality(Holders(usr, s, h)) \in Nat
           /\ Cardinality(Holders(usr, s, h)) = 0 <=> Holders(usr, s, h) = {}
  <1>1. Holders(usr, s, h) \in SUBSET Users
    BY DEF Holders
  <1>2. IsFiniteSet(Holders(usr, s, h))
    BY <1>1, CacheAssumption, FS_Subset, Zenon
  <1> QED
    BY <1>2, FS_CardinalityType, FS_EmptySet, Zenon

LEMMA HeldByType == ASSUME NEW usr, NEW s PROVE HeldBy(usr, s) \in References
  <1>1. \A h \in Handles : Cardinality(Holders(usr, s, h)) \in Nat
    BY HoldersFinite, Zenon
  <1> QED
    BY <1>1 DEF HeldBy, References

\* Who uses a handle adds to its references.
LEMMA UsedHandle ==
    ASSUME NEW usr, NEW u \in Users, usr[u].at = "using", usr[u].handle \in Handles
    PROVE  HeldBy(usr, Shard(usr[u].file))[usr[u].handle] # 0
  <1> DEFINE h == usr[u].handle
             s == Shard(usr[u].file)
  <1>1. u \in Holders(usr, s, h)
    BY DEF Holders
  <1>2. Cardinality(Holders(usr, s, h)) # 0
    BY <1>1, HoldersFinite, Zenon
  <1>3. HeldBy(usr, s)[h] = Cardinality(Holders(usr, s, h))
    BY DEF HeldBy
  <1> QED
    BY <1>2, <1>3, Zenon

LEMMA UserSame ==
    ASSUME NEW usr \in [Users -> UserType], NEW u \in Users, usr[u].at # "using",
           NEW v \in UserType, v.at # "using"
    PROVE  \A s : HeldBy([usr EXCEPT ![u] = v], s) = HeldBy(usr, s)
  <1> DEFINE new == [usr EXCEPT ![u] = v]
  <1>1. new[u] = v /\ \A w \in Users : w # u => new[w] = usr[w]
    OBVIOUS
  <1> HIDE DEF new
  <1>2. ASSUME NEW s, NEW h PROVE Holders(new, s, h) = Holders(usr, s, h)
    <2>1. \A w \in Users : (new[w].at = "using" /\ new[w].handle = h /\ Shard(new[w].file) = s)
                           <=> (usr[w].at = "using" /\ usr[w].handle = h /\ Shard(usr[w].file) = s)
      BY <1>1, Zenon
    <2> QED
      BY <2>1 DEF Holders
  <1>3. ASSUME NEW s PROVE HeldBy(new, s) = HeldBy(usr, s)
    BY <1>2 DEF HeldBy
  <1> QED
    BY <1>3, Zenon DEF new

\* A user that begins to use h adds one, and nothing anywhere else.
Gains(usr, new, s, h) ==
    /\ \A g \in Handles : g # h => HeldBy(new, s)[g] = HeldBy(usr, s)[g]
    /\ HeldBy(new, s)[h] = HeldBy(usr, s)[h] + 1
    /\ \A t : t # s => HeldBy(new, t) = HeldBy(usr, t)

LEMMA UserGains ==
    ASSUME NEW usr, NEW new, NEW u \in Users, usr[u].at # "using", new[u].at = "using",
           new[u].handle \in Handles, \A w \in Users : w # u => new[w] = usr[w]
    PROVE  Gains(usr, new, Shard(new[u].file), new[u].handle)
  <1> DEFINE h == new[u].handle
             s == Shard(new[u].file)
  <1>1. ASSUME NEW t, NEW g, t # s \/ g # h PROVE Holders(new, t, g) = Holders(usr, t, g)
    <2>1. \A w \in Users : (new[w].at = "using" /\ new[w].handle = g /\ Shard(new[w].file) = t)
                           <=> (usr[w].at = "using" /\ usr[w].handle = g /\ Shard(usr[w].file) = t)
      BY <1>1, Zenon
    <2> QED
      BY <2>1 DEF Holders
  <1>2. Holders(new, s, h) = Holders(usr, s, h) \cup {u} /\ u \notin Holders(usr, s, h)
    <2>1. \A w \in Users : (new[w].at = "using" /\ new[w].handle = h /\ Shard(new[w].file) = s)
                           <=> ((usr[w].at = "using" /\ usr[w].handle = h /\ Shard(usr[w].file) = s) \/ w = u)
      BY Zenon
    <2> HIDE DEF h, s
    <2> QED
      BY <2>1 DEF Holders
  <1>3. h \in Handles
    OBVIOUS
  <1> HIDE DEF s, h
  <1>4. Cardinality(Holders(new, s, h)) = Cardinality(Holders(usr, s, h)) + 1
    <2> DEFINE S == Holders(usr, s, h)
    <2>1. IsFiniteSet(S) /\ u \notin S /\ Holders(new, s, h) = S \cup {u}
      BY <1>2, HoldersFinite, Zenon
    <2> HIDE DEF S
    <2>2. Cardinality(S \cup {u}) = Cardinality(S) + 1
      BY <2>1, FS_AddElement
    <2> QED
      BY <2>1, <2>2, Zenon DEF S
  <1>5. \A g \in Handles : g # h => HeldBy(new, s)[g] = HeldBy(usr, s)[g]
    BY <1>1 DEF HeldBy
  <1>6. HeldBy(new, s)[h] = HeldBy(usr, s)[h] + 1
    BY <1>3, <1>4 DEF HeldBy
  <1>7. \A t : t # s => HeldBy(new, t) = HeldBy(usr, t)
    BY <1>1 DEF HeldBy
  <1> QED
    BY <1>5, <1>6, <1>7, Zenon DEF Gains, s, h

\* There is always a handle for one more user: every handle that is not free is in the cache
\* under a file of its own or used by somebody.
LEMMA SomeHandleFree ==
    ASSUME NEW x, NEW c, NEW s, NEW usr, ShardOK(x, c, s, HeldBy(usr, s))
    PROVE  LET h == Min({k \in Handles : c.handle[k].refs = 0})
           IN  h \in Handles /\ c.handle[h].refs = 0
  <1> DEFINE R == HeldBy(usr, s)
             free == {k \in Handles : c.handle[k].refs = 0}
             T == Cached(c)
             U == {k \in Handles : R[k] # 0}
             n == Cardinality(Users)
             m == Cardinality(Files)
  <1>1. RefsOK(c, R) /\ TableOK(c.table, c.handle, T)
    BY Zenon DEF ShardOK, HalfOK
  <1>2. T \in SUBSET Handles /\ U \in SUBSET Handles
    BY DEF Cached
  <1>3. IsFiniteSet(T) /\ IsFiniteSet(U) /\ Cardinality(T) \in Nat /\ Cardinality(U) \in Nat
    BY <1>2, HandlesFinite, FS_Subset, FS_CardinalityType, Zenon
  <1>4. n \in Nat /\ m \in Nat /\ Cardinality(Handles) = n + m + 1 /\ IsFiniteSet(Handles) /\ Handles \subseteq Nat
    BY HandlesFinite, Zenon
  <1>5. Cardinality(T) <= m
    <2> SUFFICES ASSUME m < Cardinality(T) PROVE FALSE
      BY <1>3, <1>4
    <2> DEFINE f == [h \in T |-> c.handle[h].file]
    <2>1. f \in [T -> Files]
      BY <1>1, Zenon DEF TableOK
    <2>2. \A g, h \in T : f[g] = f[h] => g = h
      BY <1>1, Zenon DEF TableOK
    <2>3. IsFiniteSet(Files)
      BY CacheAssumption, Zenon
    <2> HIDE DEF f, T
    <2>4. \E g, h \in T : g # h /\ f[g] = f[h]
      BY <1>3, <2>1, <2>3, FS_PigeonHole, Zenon
    <2> QED
      BY <2>2, <2>4, Zenon
  <1>6. Cardinality(U) <= n
    <2> SUFFICES ASSUME n < Cardinality(U) PROVE FALSE
      BY <1>3, <1>4
    <2> DEFINE f == [h \in U |-> CHOOSE u : u \in Holders(usr, s, h)]
    <2>1. ASSUME NEW h \in U PROVE f[h] \in Holders(usr, s, h)
      <3>1. R[h] = Cardinality(Holders(usr, s, h)) /\ R[h] # 0
        BY DEF HeldBy
      <3>2. Holders(usr, s, h) # {}
        BY <3>1, HoldersFinite, Zenon
      <3>3. \E u : u \in Holders(usr, s, h)
        BY <3>2, Zenon
      <3> QED
        BY <3>3, Zenon
    <2>2. \A h \in U : f[h] \in Users /\ usr[f[h]].handle = h
      BY <2>1, Zenon DEF Holders
    <2>3. f \in [U -> Users]
      <3> HIDE DEF U
      <3>1. f = [h \in U |-> f[h]]
        OBVIOUS
      <3> HIDE DEF f
      <3> QED
        BY <2>2, <3>1
    <2>4. IsFiniteSet(Users)
      BY CacheAssumption, Zenon
    <2> HIDE DEF f, U
    <2>5. \E g, h \in U : g # h /\ f[g] = f[h]
      BY <1>3, <2>3, <2>4, FS_PigeonHole, Zenon
    <2> QED
      BY <2>2, <2>5, Zenon
  <1>7. free # {}
    <2> SUFFICES ASSUME free = {} PROVE FALSE
      BY Zenon
    <2>1. ASSUME NEW h \in Handles PROVE h \in T \/ h \in U
      <3>1. CASE c.handle[h].in_cache
        BY <3>1 DEF Cached
      <3>2. CASE ~ c.handle[h].in_cache
        <4>1. (IF c.handle[h].in_cache THEN 1 ELSE 0) = 0
          BY <3>2, Zenon
        <4>2. c.handle[h].refs = R[h] + 0 /\ c.handle[h].refs # 0
          BY <1>1, <4>1, Zenon DEF RefsOK
        <4>3. R[h] # 0
          BY <4>2
        <4> QED
          BY <4>3
      <3> QED
        BY <3>1, <3>2
    <2>2. Handles \in SUBSET (T \cup U)
      BY <2>1
    <2> HIDE DEF T, U
    <2>3. /\ IsFiniteSet(T \cup U)
          /\ Cardinality(T \cup U) = Cardinality(T) + Cardinality(U) - Cardinality(T \cap U)
      BY <1>3, FS_Union, Zenon
    <2>4. Cardinality(T \cap U) \in Nat
      <3>1. T \cap U \in SUBSET T
        OBVIOUS
      <3> QED
        BY <1>3, <3>1, FS_Subset, FS_CardinalityType, Zenon
    <2>5. Cardinality(Handles) <= Cardinality(T \cup U)
      BY <2>2, <2>3, FS_Subset, Zenon
    <2> DEFINE a == Cardinality(T)
               b == Cardinality(U)
               i == Cardinality(T \cap U)
    <2> HIDE DEF n, m
    <2>6. a <= m /\ b <= n /\ a \in Nat /\ b \in Nat /\ i \in Nat /\ n + m + 1 <= a + b - i
      BY <1>3, <1>4, <1>5, <1>6, <2>3, <2>4, <2>5, Zenon
    <2> HIDE DEF a, b, i
    <2> QED
      BY <1>4, <2>6
  <1>8. free \subseteq Nat
    BY <1>4
  <1>9. Min(free) \in free
    BY <1>7, <1>8, MinIn, Zenon
  <1> QED
    BY <1>9, Zenon

-----------------------------------------------------------------------------
\* The inductive invariant.

UsersOK(usr) ==
    /\ usr \in [Users -> UserType]
    /\ \A u \in Users : /\ usr[u].at # "idle" => usr[u].file \in Files
                        /\ usr[u].at = "using" => usr[u].handle \in Handles
FilesRight(sh, usr) ==
    \A u \in Users : usr[u].at = "using" =>
        sh[Shard(usr[u].file)].handle[usr[u].handle].file = usr[u].file
ShardsOK(sh, usr) ==
    /\ sh = [s \in Shards |-> sh[s]]
    /\ \A s \in Shards : \E x \in Nat : ShardOK(x, sh[s], s, HeldBy(usr, s))

CacheInv ==
    /\ pruning \in 0 .. kNumShards
    /\ UsersOK(user) /\ FilesRight(shard_, user) /\ ShardsOK(shard_, user)

LEMMA ShardSet ==
    ASSUME NEW sh, NEW usr, NEW new, NEW s \in Shards, NEW d, NEW x \in Nat, ShardsOK(sh, usr),
           ShardOK(x, d, s, HeldBy(new, s)), \A t : t # s => HeldBy(new, t) = HeldBy(usr, t)
    PROVE  ShardsOK([sh EXCEPT ![s] = d], new)
  <1> DEFINE sh2 == [sh EXCEPT ![s] = d]
  <1>1. sh = [t \in Shards |-> sh[t]]
    BY Zenon DEF ShardsOK
  <1>2. sh2 = [t \in Shards |-> sh2[t]] /\ sh2[s] = d /\ \A t \in Shards : t # s => sh2[t] = sh[t]
    BY <1>1
  <1> HIDE DEF sh2
  <1>3. ASSUME NEW t \in Shards PROVE \E y \in Nat : ShardOK(y, sh2[t], t, HeldBy(new, t))
    <2>1. CASE t = s
      BY <1>2, <2>1, Zenon
    <2>2. CASE t # s
      <3>1. PICK y \in Nat : ShardOK(y, sh[t], t, HeldBy(usr, t))
        BY Zenon DEF ShardsOK
      <3>2. sh2[t] = sh[t] /\ HeldBy(new, t) = HeldBy(usr, t)
        BY <1>2, <2>2, Zenon
      <3> QED
        BY <3>1, <3>2, Zenon
    <2> QED
      BY <2>1, <2>2
  <1> QED
    BY <1>2, <1>3, Zenon DEF ShardsOK, sh2

LEMMA FilesKept ==
    ASSUME NEW sh, NEW usr, NEW new, NEW s \in Shards, NEW d, NEW R,
           sh = [t \in Shards |-> sh[t]], UsersOK(new), FilesRight(sh, usr),
           Keeps(sh[s], d, R), R = HeldBy(new, s) \/ R = HeldBy(usr, s),
           \A w \in Users : new[w].at = "using" =>
               \/ new[w] = usr[w]
               \/ Shard(new[w].file) = s /\ d.handle[new[w].handle].file = new[w].file
    PROVE  FilesRight([sh EXCEPT ![s] = d], new)
  <1> DEFINE sh2 == [sh EXCEPT ![s] = d]
  <1>1. sh2[s] = d /\ \A t \in Shards : t # s => sh2[t] = sh[t]
    OBVIOUS
  <1> HIDE DEF sh2
  <1>2. ASSUME NEW w \in Users, new[w].at = "using"
        PROVE  sh2[Shard(new[w].file)].handle[new[w].handle].file = new[w].file
    <2>1. CASE Shard(new[w].file) = s /\ d.handle[new[w].handle].file = new[w].file
      BY <1>1, <2>1, Zenon
    <2>2. CASE new[w] = usr[w]
      <3>1. new[w].file \in Files /\ new[w].handle \in Handles
        <4>1. new[w].at # "idle"
          BY <1>2
        <4> QED
          BY <1>2, <4>1, Zenon DEF UsersOK
      <3>2. sh[Shard(new[w].file)].handle[new[w].handle].file = new[w].file
        BY <1>2, <2>2, Zenon DEF FilesRight
      <3>3. CASE Shard(new[w].file) = s
        <4>1. HeldBy(new, s)[new[w].handle] # 0
          BY <1>2, <3>1, <3>3, UsedHandle, Zenon
        <4>2. HeldBy(usr, s)[new[w].handle] # 0
          <5>1. usr[w].at = "using" /\ usr[w].handle \in Handles
            BY <1>2, <2>2, <3>1, Zenon
          <5>2. HeldBy(usr, Shard(usr[w].file))[usr[w].handle] # 0
            BY <5>1, UsedHandle, Zenon
          <5> QED
            BY <2>2, <3>3, <5>2, Zenon
        <4>3. d.handle[new[w].handle].file = sh[s].handle[new[w].handle].file
          BY <3>1, <4>1, <4>2, Zenon DEF Keeps
        <4> QED
          BY <1>1, <3>2, <3>3, <4>3, Zenon
      <3>4. CASE Shard(new[w].file) # s
        <4>1. Shard(new[w].file) \in Shards
          BY <3>1, CacheAssumption, Zenon
        <4> QED
          BY <1>1, <3>2, <3>4, <4>1, Zenon
      <3> QED
        BY <3>3, <3>4
    <2> QED
      BY <1>2, <2>1, <2>2, Zenon
  <1> QED
    BY <1>2, Zenon DEF FilesRight, sh2

\* A shard is changed by a call for which no user takes or gives back anything.
LEMMA ShardChanged ==
    ASSUME CacheInv, NEW s \in Shards, NEW d,
           \A x \in Nat, R \in References : ShardOK(x, shard_[s], s, R) =>
               ShardOK(x, d, s, R) /\ Keeps(shard_[s], d, R)
    PROVE  FilesRight([shard_ EXCEPT ![s] = d], user) /\ ShardsOK([shard_ EXCEPT ![s] = d], user)
  <1> DEFINE R == HeldBy(user, s)
  <1>1. UsersOK(user) /\ FilesRight(shard_, user) /\ ShardsOK(shard_, user)
    BY Zenon DEF CacheInv
  <1>2. PICK x \in Nat : ShardOK(x, shard_[s], s, R)
    BY <1>1, Zenon DEF ShardsOK
  <1>3. R \in References
    BY HeldByType, Zenon
  <1>4. ShardOK(x, d, s, R) /\ Keeps(shard_[s], d, R)
    BY <1>2, <1>3, Zenon
  <1>5. ShardsOK([shard_ EXCEPT ![s] = d], user)
    BY <1>1, <1>4, ShardSet, Zenon
  <1>6. shard_ = [t \in Shards |-> shard_[t]]
    BY <1>1, Zenon DEF ShardsOK
  <1>7. FilesRight([shard_ EXCEPT ![s] = d], user)
    BY <1>1, <1>4, <1>6, FilesKept, Zenon
  <1> QED
    BY <1>5, <1>7, Zenon

LEMMA InitInv == ASSUME NEW capacity \in Capacities, CacheInit(capacity) PROVE CacheInv
  <1> DEFINE x == (capacity + kNumShards - 1) \div kNumShards
             n == kNumShards
             c == EmptyShard(x)
  <1>1. n \in Nat \ {0} /\ capacity \in Nat
    BY CacheAssumption, Zenon
  <1>2. x = (capacity + n - 1) \div n
    OBVIOUS
  <1> HIDE DEF x, n
  <1>3. x \in Nat
    BY <1>1, <1>2
  <1>4. shard_ = [s \in Shards |-> c] /\ pruning = n
        /\ user = [u \in Users |-> [at |-> "idle", file |-> 0, handle |-> 0]]
    BY Zenon DEF CacheInit, x, n
  <1>5. pruning \in 0 .. n
    BY <1>1, <1>4
  <1>6. UsersOK(user)
    <2>1. \A u \in Users : user[u] \in UserType /\ user[u].at = "idle"
      BY <1>4 DEF UserType
    <2>2. user \in [Users -> UserType]
      BY <1>4, <2>1
    <2>3. "idle" # "using"
      OBVIOUS
    <2> QED
      BY <2>1, <2>2, <2>3, Zenon DEF UsersOK
  <1>7. \A u \in Users : user[u].at # "using"
    BY <1>4
  <1>8. FilesRight(shard_, user)
    BY <1>7, Zenon DEF FilesRight
  <1>9. ASSUME NEW s PROVE HeldBy(user, s) = [h \in Handles |-> 0]
    <2>1. \A h : Holders(user, s, h) = {}
      BY <1>7 DEF Holders
    <2>2. \A h : Cardinality(Holders(user, s, h)) = 0
      BY <2>1, HoldersFinite, Zenon
    <2> QED
      BY <2>2 DEF HeldBy
  <1>10. /\ c.capacity = x /\ c.usage = 0 /\ c.lru = <<>> /\ c.in_use = <<>>
         /\ c.handle = [h \in Handles |-> Freed] /\ c.table = [b \in 1 .. TableLength |-> <<>>]
         /\ c \in ShardType(x)
    <2>1. Freed \in HandleType
      BY DEF Freed, HandleType
    <2>2. <<>> \in Seq(Handles)
      OBVIOUS
    <2> DEFINE f == Freed
               t == [b \in 1 .. TableLength |-> <<>>]
               e == <<>>
    <2> HIDE DEF f
    <2>3. [h \in Handles |-> f] \in [Handles -> HandleType]
      BY <2>1 DEF f
    <2>4. t \in Seq(Seq(Handles))
      BY <2>2, CacheAssumption
    <2>5. c = [capacity |-> x, usage |-> 0, lru |-> e, in_use |-> e,
               handle |-> [h \in Handles |-> f], table |-> t]
      BY Zenon DEF EmptyShard, f
    <2> HIDE DEF e, c, t
    <2> DEFINE hd == [h \in Handles |-> f]
    <2> HIDE DEF hd
    <2>6. c = [capacity |-> x, usage |-> 0, lru |-> e, in_use |-> e, handle |-> hd, table |-> t]
      BY <2>5, Zenon DEF hd
    <2>7. e \in Seq(Handles) /\ hd \in [Handles -> HandleType]
      BY <2>2, <2>3, Zenon DEF e, hd
    <2>8. /\ c.capacity = x /\ c.usage = 0 /\ c.lru = e /\ c.in_use = e
          /\ c.handle = hd /\ c.table = t /\ c \in ShardType(x)
      BY <2>4, <2>6, <2>7 DEF ShardType
    <2> QED
      BY <2>8, Zenon DEF e, t, hd, f
  <1> HIDE DEF c
  <1>11. \A h \in Handles : c.handle[h].refs = 0 /\ c.handle[h].in_cache = FALSE
    BY <1>10 DEF Freed
  <1>12. Cached(c) = {}
    BY <1>11 DEF Cached
  <1>13. ASSUME NEW s PROVE ShardOK(x, c, s, HeldBy(user, s))
    <2>1. RefsOK(c, HeldBy(user, s))
      BY <1>9, <1>11 DEF RefsOK
    <2>2. Ours(c, s) /\ {h \in Cached(c) : c.handle[h].refs = 1} = {}
          /\ {h \in Cached(c) : c.handle[h].refs # 1} = {}
      BY <1>12 DEF Ours
    <2>3. ListsOK(c)
      BY <1>10, <2>2, EmptyList, Zenon DEF ListsOK
    <2>4. c.usage = Cardinality(Cached(c))
      BY <1>10, <1>12, FS_EmptySet, Zenon
    <2>5. TableOK(c.table, c.handle, {})
      <3>1. \A b \in DOMAIN c.table : c.table[b] = <<>>
        BY <1>10
      <3>2. \A b : Slot(c.table, c.handle, {}, b) = {}
        BY DEF Slot
      <3>3. c.table \in Seq(Seq(Handles))
        BY <1>10 DEF ShardType
      <3>4. Len(c.table) # 0
        <4>1. TableLength \in Nat \ {0}
          BY CacheAssumption, Zenon
        <4> QED
          BY <1>10, <4>1
      <3>5. \A b \in DOMAIN c.table : ListOf(c.table[b], Slot(c.table, c.handle, {}, b))
        BY <3>1, <3>2, EmptyList, Zenon
      <3> QED
        BY <3>3, <3>4, <3>5, Zenon DEF TableOK
    <2> QED
      BY <1>10, <1>12, <2>1, <2>2, <2>3, <2>4, <2>5, Zenon DEF ShardOK, HalfOK
  <1>14. ShardsOK(shard_, user)
    <2>1. \A s \in Shards : shard_[s] = c
      BY <1>4, Zenon
    <2>2. shard_ = [s \in Shards |-> shard_[s]]
      BY <1>4
    <2> QED
      BY <1>3, <1>13, <2>1, <2>2, Zenon DEF ShardsOK
  <1> QED
    BY <1>5, <1>6, <1>8, <1>14, Zenon DEF CacheInv, n

UserFits(v) == /\ v \in UserType
               /\ v.at # "idle" => v.file \in Files
               /\ v.at = "using" => v.handle \in Handles

NowAt(usr, new, u, v) ==
    UsersOK(new) /\ new[u] = v /\ \A w \in Users : w # u => new[w] = usr[w]

LEMMA UserSet ==
    ASSUME NEW usr, UsersOK(usr), NEW u \in Users, NEW v, UserFits(v)
    PROVE  NowAt(usr, [usr EXCEPT ![u] = v], u, v)
  <1> DEFINE new == [usr EXCEPT ![u] = v]
  <1>1. usr \in [Users -> UserType] /\ v \in UserType
    BY Zenon DEF UsersOK, UserFits
  <1>2. new \in [Users -> UserType] /\ new[u] = v /\ \A w \in Users : w # u => new[w] = usr[w]
    BY <1>1
  <1> HIDE DEF new
  <1>3. UsersOK(new)
    BY <1>2, Zenon DEF UsersOK, UserFits
  <1> QED
    BY <1>2, <1>3, Zenon DEF new, NowAt

\* What is left of the invariant once a user and the shard it calls have changed.
StepOK(sh, usr) == UsersOK(usr) /\ FilesRight(sh, usr) /\ ShardsOK(sh, usr)

LEMMA UserStep ==
    ASSUME CacheInv, NEW u \in Users, NEW v, UserFits(v), NEW s \in Shards, NEW d, NEW R, NEW x \in Nat,
           LET new == [user EXCEPT ![u] = v]
           IN  /\ ShardOK(x, d, s, HeldBy(new, s))
               /\ \A t : t # s => HeldBy(new, t) = HeldBy(user, t)
               /\ R = HeldBy(new, s) \/ R = HeldBy(user, s),
           Keeps(shard_[s], d, R),
           v.at = "using" => Shard(v.file) = s /\ d.handle[v.handle].file = v.file
    PROVE  StepOK([shard_ EXCEPT ![s] = d], [user EXCEPT ![u] = v])
  <1> DEFINE new == [user EXCEPT ![u] = v]
  <1>1. UsersOK(user) /\ FilesRight(shard_, user) /\ ShardsOK(shard_, user)
        /\ shard_ = [t \in Shards |-> shard_[t]]
    BY Zenon DEF CacheInv, ShardsOK
  <1>2. UsersOK(new) /\ new[u] = v /\ \A w \in Users : w # u => new[w] = user[w]
    <2>1. NowAt(user, new, u, v)
      BY <1>1, UserSet, Zenon
    <2> QED
      BY <2>1, Zenon DEF NowAt
  <1>3. /\ ShardOK(x, d, s, HeldBy(new, s)) /\ \A t : t # s => HeldBy(new, t) = HeldBy(user, t)
        /\ R = HeldBy(new, s) \/ R = HeldBy(user, s)
    OBVIOUS
  <1> HIDE DEF new
  <1>4. ShardsOK([shard_ EXCEPT ![s] = d], new)
    BY <1>1, <1>3, ShardSet, Zenon
  <1>5. \A w \in Users : new[w].at = "using" =>
            new[w] = user[w] \/ (Shard(new[w].file) = s /\ d.handle[new[w].handle].file = new[w].file)
    BY <1>2, Zenon
  <1>6. FilesRight([shard_ EXCEPT ![s] = d], new)
    BY <1>1, <1>2, <1>3, <1>5, FilesKept, Zenon
  <1> QED
    BY <1>2, <1>4, <1>6, Zenon DEF StepOK, new

LEMMA GainIs ==
    ASSUME NEW usr, NEW new, NEW s, NEW h \in Handles, Gains(usr, new, s, h)
    PROVE  HeldBy(new, s) = [HeldBy(usr, s) EXCEPT ![h] = @ + 1]
  <1> DEFINE R == HeldBy(usr, s)
             Q == HeldBy(new, s)
  <1>1. R \in References /\ Q \in References
    BY HeldByType, Zenon
  <1>2. Q[h] = R[h] + 1 /\ \A g \in Handles : g # h => Q[g] = R[g]
    BY Zenon DEF Gains
  <1> HIDE DEF R, Q
  <1>3. Q = [R EXCEPT ![h] = @ + 1]
    BY <1>1, <1>2 DEF References
  <1> QED
    BY <1>3, Zenon DEF R, Q

LEMMA LossIs ==
    ASSUME NEW usr, NEW new, NEW s, NEW h \in Handles, Gains(new, usr, s, h)
    PROVE  HeldBy(new, s) = [HeldBy(usr, s) EXCEPT ![h] = @ - 1]
  <1> DEFINE R == HeldBy(usr, s)
             Q == HeldBy(new, s)
  <1>1. R \in References /\ Q \in References
    BY HeldByType, Zenon
  <1>2. R[h] = Q[h] + 1 /\ \A g \in Handles : g # h => Q[g] = R[g]
    BY Zenon DEF Gains
  <1> HIDE DEF R, Q
  <1>3. Q = [R EXCEPT ![h] = @ - 1]
    BY <1>1, <1>2 DEF References
  <1> QED
    BY <1>3, Zenon DEF R, Q

LEMMA ShardOf ==
    ASSUME CacheInv, NEW file \in Files
    PROVE  /\ Shard(file) \in Shards
           /\ \E x \in Nat : ShardOK(x, shard_[Shard(file)], Shard(file), HeldBy(user, Shard(file)))
  <1>1. Shard(file) \in Shards
    BY CacheAssumption, Zenon
  <1> QED
    BY <1>1, Zenon DEF CacheInv, ShardsOK

LEMMA FindOK ==
    ASSUME CacheInv, NEW u \in Users, NEW file \in Files, FindTable(u, file)
    PROVE  StepOK(shard_', user')
  <1> DEFINE s == Shard(file)
             c == shard_[s]
             h == TableLookup(c, file)
             d == CacheLookup(c, file)
             R == HeldBy(user, s)
             v == [at |-> IF h # 0 THEN "using" ELSE "opening", file |-> file, handle |-> h]
             new == [user EXCEPT ![u] = v]
  <1>1. user[u].at = "idle" /\ shard_' = [shard_ EXCEPT ![s] = d] /\ user' = new
    BY Zenon DEF FindTable, InShard
  <1>2. s \in Shards
    BY ShardOf, Zenon
  <1>3. PICK x \in Nat : ShardOK(x, c, s, R)
    BY ShardOf, Zenon
  <1>4. LookedUp(c.handle, Cached(c), file, h)
    BY <1>3, Looked, Zenon DEF ShardOK
  <1>5. R \in References /\ user \in [Users -> UserType] /\ UsersOK(user)
    BY HeldByType, Zenon DEF CacheInv, UsersOK
  <1>6. d = IF h = 0 THEN c ELSE Ref(c, h)
    BY Zenon DEF CacheLookup
  <1>7. user[u].at # "using"
    BY <1>1
  <1> HIDE DEF c, h, d, s
  <1>8. CASE h = 0
    <2>1. v = [at |-> "opening", file |-> file, handle |-> 0]
      BY <1>8
    <2> HIDE DEF v
    <2>2. v \in UserType /\ v.at = "opening" /\ v.file = file /\ v.at # "using"
      BY <2>1 DEF UserType
    <2>3. UserFits(v)
      BY <2>2, Zenon DEF UserFits
    <2>4. \A t : HeldBy(new, t) = HeldBy(user, t)
      BY <1>5, <1>7, <2>2, UserSame, Zenon
    <2>5. d = c
      BY <1>6, <1>8, Zenon
    <2>6. ShardOK(x, d, s, HeldBy(new, s)) /\ Keeps(c, d, R)
      BY <1>3, <2>4, <2>5, Zenon DEF Keeps
    <2>7. StepOK([shard_ EXCEPT ![s] = d], new)
      BY <1>2, <2>2, <2>3, <2>4, <2>6, UserStep, Zenon DEF c
    <2> QED
      BY <1>1, <2>7, Zenon
  <1>9. CASE h # 0 /\ h \in Cached(c) /\ c.handle[h].file = file
    <2>1. v = [at |-> "using", file |-> file, handle |-> h] /\ h \in Handles
      BY <1>9 DEF Cached
    <2> HIDE DEF v
    <2>2. v \in UserType /\ v.at = "using" /\ v.file = file /\ v.handle = h
      BY <2>1 DEF UserType
    <2>3. UserFits(v)
      BY <2>1, <2>2, Zenon DEF UserFits
    <2>4. new[u] = v /\ \A w \in Users : w # u => new[w] = user[w]
      <3>1. NowAt(user, new, u, v)
        BY <1>5, <2>3, UserSet, Zenon
      <3> QED
        BY <3>1, Zenon DEF NowAt
    <2> HIDE DEF new
    <2>5. Gains(user, new, s, h)
      <3>1. Gains(user, new, Shard(new[u].file), new[u].handle)
        BY <1>7, <2>1, <2>2, <2>4, UserGains, Zenon
      <3> QED
        BY <2>2, <2>4, <3>1, Zenon DEF s
    <2> DEFINE Q == HeldBy(new, s)
    <2>6. Q = [R EXCEPT ![h] = @ + 1]
      BY <2>1, <2>5, GainIs
    <2>7. ShardOK(x, d, s, Q) /\ Keeps(c, d, Q)
      <3>1. ShardOK(x, Ref(c, h), s, [R EXCEPT ![h] = @ + 1]) /\ Keeps(c, Ref(c, h), [R EXCEPT ![h] = @ + 1])
        BY <1>3, <1>5, <1>9, Referenced, Zenon
      <3> QED
        BY <1>6, <1>9, <2>6, <3>1, Zenon
    <2>8. Q[h] # 0
      <3>1. new[u].at = "using" /\ new[u].handle \in Handles /\ Shard(new[u].file) = s /\ new[u].handle = h
        BY <2>1, <2>2, <2>4, Zenon DEF s
      <3> QED
        BY <3>1, UsedHandle, Zenon
    <2>9. d.handle[v.handle].file = v.file /\ Shard(v.file) = s
      BY <1>9, <2>1, <2>2, <2>7, <2>8, Zenon DEF Keeps, s
    <2>10. \A t : t # s => HeldBy(new, t) = HeldBy(user, t)
      BY <2>5, Zenon DEF Gains
    <2>11. StepOK([shard_ EXCEPT ![s] = d], [user EXCEPT ![u] = v])
      BY <1>2, <2>3, <2>7, <2>9, <2>10, UserStep, Zenon DEF c, new
    <2> QED
      BY <1>1, <2>11, Zenon DEF new
  <1>10. h = 0 \/ (h # 0 /\ h \in Cached(c) /\ c.handle[h].file = file)
    <2>1. 0 \notin Cached(c)
      BY ZeroIsNone DEF Cached
    <2> QED
      BY <1>4, <2>1, Zenon DEF LookedUp
  <1> QED
    BY <1>8, <1>9, <1>10

LEMMA OpenedOK ==
    ASSUME CacheInv, NEW u \in Users, Opened(u) PROVE StepOK(shard_', user')
  <1> DEFINE file == user[u].file
             s == Shard(file)
             c == shard_[s]
             R == HeldBy(user, s)
  <1>1. user \in [Users -> UserType] /\ UsersOK(user) /\ user[u].at = "opening"
    BY Zenon DEF CacheInv, UsersOK, Opened
  <1>2. file \in Files /\ user[u].at # "using"
    <2>1. user[u].at # "idle" /\ user[u].at # "using"
      BY <1>1
    <2> QED
      BY <1>1, <2>1, Zenon DEF UsersOK
  <1> DEFINE h == Min({k \in Handles : c.handle[k].refs = 0})
             d == InsertHandle(c, file, h)
             v == [user[u] EXCEPT !.at = "using", !.handle = h]
             new == [user EXCEPT ![u] = v]
  <1>3. shard_' = [shard_ EXCEPT ![s] = d] /\ user' = [user EXCEPT ![u].at = "using", ![u].handle = h]
    BY Zenon DEF Opened, InShard
  <1>4. s \in Shards
    BY <1>2, ShardOf, Zenon
  <1>5. PICK x \in Nat : ShardOK(x, c, s, R)
    BY <1>2, ShardOf, Zenon
  <1>6. h \in Handles /\ c.handle[h].refs = 0
    BY <1>5, SomeHandleFree, Zenon
  <1> HIDE DEF h
  <1>7. user' = new
    BY <1>1, <1>3
  <1>8. user[u] \in UserType /\ user[u].file = file
    BY <1>1
  <1>9. v \in UserType /\ v.at = "using" /\ v.file = file /\ v.handle = h
    BY <1>6, <1>8 DEF UserType
  <1> HIDE DEF v, file
  <1>10. UserFits(v)
    BY <1>2, <1>6, <1>9, Zenon DEF UserFits
  <1>11. new[u] = v /\ \A w \in Users : w # u => new[w] = user[w]
    <2>1. NowAt(user, new, u, v)
      BY <1>1, <1>10, UserSet, Zenon
    <2> QED
      BY <2>1, Zenon DEF NowAt
  <1> HIDE DEF new, d, c
  <1>12. Gains(user, new, s, h)
    <2>1. Gains(user, new, Shard(new[u].file), new[u].handle)
      BY <1>2, <1>6, <1>9, <1>11, UserGains, Zenon
    <2> QED
      BY <1>9, <1>11, <2>1, Zenon
  <1>13. R \in References
    BY HeldByType, Zenon
  <1>14. HeldBy(new, s) = [R EXCEPT ![h] = @ + 1]
    BY <1>6, <1>12, GainIs
  <1> HIDE DEF R
  <1>15. ShardOK(x, d, s, [R EXCEPT ![h] = @ + 1]) /\ Puts(c, d, R, h, file)
    BY <1>2, <1>5, <1>6, <1>13, HandleInserted, Zenon DEF d
  <1>16. ShardOK(x, d, s, HeldBy(new, s)) /\ Keeps(c, d, R)
    BY <1>14, <1>15, Zenon DEF Puts
  <1>17. d.handle[v.handle].file = v.file /\ Shard(v.file) = s
    BY <1>9, <1>15, Zenon DEF Puts
  <1>18. \A t : t # s => HeldBy(new, t) = HeldBy(user, t)
    BY <1>12, Zenon DEF Gains
  <1> HIDE DEF s
  <1>19. StepOK([shard_ EXCEPT ![s] = d], [user EXCEPT ![u] = v])
    BY <1>4, <1>10, <1>16, <1>17, <1>18, UserStep, Zenon DEF c, new, R
  <1> QED
    BY <1>3, <1>7, <1>19, Zenon DEF new

LEMMA OpenFailsOK ==
    ASSUME CacheInv, NEW u \in Users, OpenFails(u) PROVE StepOK(shard_', user')
  <1> DEFINE v == [user[u] EXCEPT !.at = "idle"]
             new == [user EXCEPT ![u] = v]
  <1>1. user \in [Users -> UserType] /\ UsersOK(user) /\ user[u].at = "opening"
        /\ FilesRight(shard_, user) /\ ShardsOK(shard_, user)
    BY Zenon DEF CacheInv, UsersOK, OpenFails
  <1>2. user' = new /\ shard_' = shard_
    BY <1>1 DEF OpenFails
  <1>3. user[u] \in UserType /\ user[u].at # "using"
    BY <1>1
  <1>4. v \in UserType /\ v.at = "idle" /\ v.at # "using"
    BY <1>3 DEF UserType
  <1> HIDE DEF v
  <1>5. UserFits(v)
    BY <1>4, Zenon DEF UserFits
  <1>6. NowAt(user, new, u, v)
    BY <1>1, <1>5, UserSet, Zenon
  <1>7. \A t : HeldBy(new, t) = HeldBy(user, t)
    BY <1>1, <1>3, <1>4, UserSame, Zenon
  <1> HIDE DEF new
  <1>8. UsersOK(new) /\ \A w \in Users : new[w].at = "using" => new[w] = user[w]
    BY <1>4, <1>6, Zenon DEF NowAt
  <1>9. FilesRight(shard_, new)
    BY <1>1, <1>8, Zenon DEF FilesRight
  <1>10. ShardsOK(shard_, new)
    BY <1>1, <1>7, Zenon DEF ShardsOK
  <1> QED
    BY <1>2, <1>8, <1>9, <1>10, Zenon DEF StepOK

LEMMA ReleaseOK ==
    ASSUME CacheInv, NEW u \in Users, Release(u) PROVE StepOK(shard_', user')
  <1> DEFINE file == user[u].file
             s == Shard(file)
             c == shard_[s]
             R == HeldBy(user, s)
             h == user[u].handle
             d == CacheRelease(c, h)
             v == [user[u] EXCEPT !.at = "idle", !.handle = 0]
             new == [user EXCEPT ![u] = v]
  <1>1. user \in [Users -> UserType] /\ UsersOK(user) /\ user[u].at = "using"
    BY Zenon DEF CacheInv, UsersOK, Release
  <1>2. file \in Files /\ h \in Handles
    <2>1. user[u].at # "idle"
      BY <1>1
    <2> QED
      BY <1>1, <2>1, Zenon DEF UsersOK
  <1>3. shard_' = [shard_ EXCEPT ![s] = d] /\ user' = [user EXCEPT ![u].at = "idle", ![u].handle = 0]
    BY Zenon DEF Release, InShard
  <1>4. s \in Shards
    BY <1>2, ShardOf, Zenon
  <1>5. PICK x \in Nat : ShardOK(x, c, s, R)
    BY <1>2, ShardOf, Zenon
  <1>6. R[h] # 0
    BY <1>1, <1>2, UsedHandle, Zenon
  <1>7. user' = new
    BY <1>1, <1>3
  <1>8. user[u] \in UserType
    BY <1>1
  <1>9. v \in UserType /\ v.at = "idle" /\ v.at # "using"
    BY <1>8 DEF UserType
  <1> HIDE DEF v
  <1>10. UserFits(v)
    BY <1>9, Zenon DEF UserFits
  <1>11. new[u] = v /\ \A w \in Users : w # u => new[w] = user[w]
    <2>1. NowAt(user, new, u, v)
      BY <1>1, <1>10, UserSet, Zenon
    <2> QED
      BY <2>1, Zenon DEF NowAt
  <1> HIDE DEF new, d, c
  <1>12. Gains(new, user, s, h)
    <2>1. new[u].at # "using" /\ \A w \in Users : w # u => user[w] = new[w]
      BY <1>9, <1>11, Zenon
    <2> QED
      BY <1>1, <1>2, <2>1, UserGains, Zenon
  <1> HIDE DEF s, h
  <1>13. R \in References
    BY HeldByType, Zenon
  <1>14. HeldBy(new, s) = [R EXCEPT ![h] = @ - 1]
    BY <1>2, <1>12, LossIs
  <1>15. ShardOK(x, d, s, [R EXCEPT ![h] = @ - 1]) /\ Keeps(c, d, [R EXCEPT ![h] = @ - 1])
    <2> HIDE DEF R
    <2>1. d = Unref(c, h)
      BY Zenon DEF d, CacheRelease
    <2>2. /\ ShardOK(x, Unref(c, h), s, [R EXCEPT ![h] = @ - 1])
          /\ Keeps(c, Unref(c, h), [R EXCEPT ![h] = @ - 1])
      BY <1>2, <1>5, <1>6, <1>13, Released, Zenon
    <2> QED
      BY <2>1, <2>2, Zenon
  <1> DEFINE Q == HeldBy(new, s)
  <1>16. ShardOK(x, d, s, Q) /\ Keeps(c, d, Q)
    BY <1>14, <1>15, Zenon
  <1>17. \A t : t # s => HeldBy(new, t) = HeldBy(user, t)
    BY <1>12, Zenon DEF Gains
  <1>18. StepOK([shard_ EXCEPT ![s] = d], [user EXCEPT ![u] = v])
    BY <1>4, <1>9, <1>10, <1>16, <1>17, UserStep, Zenon DEF c, new
  <1> QED
    BY <1>3, <1>7, <1>18, Zenon DEF new

LEMMA EvictOK ==
    ASSUME CacheInv, NEW file \in Files, Evict(file) PROVE StepOK(shard_', user')
  <1> DEFINE s == Shard(file)
             d == EraseKey(shard_[s], file)
  <1>1. s \in Shards
    BY ShardOf, Zenon
  <1>2. \A x \in Nat, R \in References : ShardOK(x, shard_[s], s, R) =>
            ShardOK(x, d, s, R) /\ Keeps(shard_[s], d, R)
    BY KeyErased, Zenon
  <1>3. shard_' = [shard_ EXCEPT ![s] = d] /\ user' = user
    BY Zenon DEF Evict, InShard
  <1> HIDE DEF d, s
  <1>4. FilesRight([shard_ EXCEPT ![s] = d], user) /\ ShardsOK([shard_ EXCEPT ![s] = d], user)
    BY <1>1, <1>2, ShardChanged, Zenon
  <1> QED
    BY <1>3, <1>4, Zenon DEF StepOK, CacheInv

LEMMA PruneOK ==
    ASSUME CacheInv, Prune PROVE StepOK(shard_', user')
  <1> DEFINE s == pruning
             d == PruneShard(shard_[s])
             n == kNumShards
  <1>1. n \in Nat \ {0} /\ s \in 0 .. n /\ s < n /\ Shards = 0 .. n - 1
    BY CacheAssumption, Zenon DEF CacheInv, Prune, Shards
  <1>2. s \in Shards
    <2> HIDE DEF n
    <2> QED
      BY <1>1
  <1>3. \A x \in Nat, R \in References : ShardOK(x, shard_[s], s, R) =>
            ShardOK(x, d, s, R) /\ Keeps(shard_[s], d, R)
    BY OldestErased, Zenon DEF PruneShard
  <1>4. shard_' = [shard_ EXCEPT ![s] = d] /\ user' = user
    BY Zenon DEF Prune
  <1> HIDE DEF d, s
  <1>5. FilesRight([shard_ EXCEPT ![s] = d], user) /\ ShardsOK([shard_ EXCEPT ![s] = d], user)
    BY <1>2, <1>3, ShardChanged, Zenon
  <1> QED
    BY <1>4, <1>5, Zenon DEF StepOK, CacheInv

LEMMA StepInv == CacheInv /\ [CacheNext]_cacheVars => CacheInv'
  <1> SUFFICES ASSUME CacheInv, [CacheNext]_cacheVars PROVE CacheInv'
    BY Zenon
  <1> DEFINE n == kNumShards
  <1>1. n \in Nat \ {0} /\ pruning \in 0 .. n
    BY CacheAssumption, Zenon DEF CacheInv
  <1>2. ASSUME StepOK(shard_', user'), pruning' \in 0 .. n PROVE CacheInv'
    BY <1>2, Zenon DEF CacheInv, StepOK, n
  <1>3. ASSUME NEW u \in Users, NEW file \in Files, FindTable(u, file) PROVE CacheInv'
    BY <1>1, <1>2, <1>3, FindOK, Zenon DEF FindTable
  <1>4. ASSUME NEW u \in Users, Opened(u) PROVE CacheInv'
    BY <1>1, <1>2, <1>4, OpenedOK, Zenon DEF Opened
  <1>5. ASSUME NEW u \in Users, OpenFails(u) PROVE CacheInv'
    <2>1. pruning' = pruning
      BY <1>5, Zenon DEF OpenFails
    <2> QED
      BY <1>1, <1>2, <1>5, <2>1, OpenFailsOK, Zenon
  <1>6. ASSUME NEW u \in Users, Release(u) PROVE CacheInv'
    BY <1>1, <1>2, <1>6, ReleaseOK, Zenon DEF Release
  <1>7. ASSUME NEW file \in Files, Evict(file) PROVE CacheInv'
    BY <1>1, <1>2, <1>7, EvictOK, Zenon DEF Evict
  <1>8. CASE StartPrune
    <2>1. pruning' = 0 /\ shard_' = shard_ /\ user' = user
      BY <1>8, Zenon DEF StartPrune
    <2>2. 0 \in 0 .. n
      <3> HIDE DEF n
      <3> QED
        BY <1>1
    <2> QED
      BY <1>2, <2>1, <2>2, Zenon DEF StepOK, CacheInv
  <1>9. CASE Prune
    <2>1. pruning < n /\ pruning' = pruning + 1
      BY <1>9, Zenon DEF Prune
    <2>2. pruning' \in 0 .. n
      <3> HIDE DEF n
      <3> QED
        BY <1>1, <2>1
    <2> QED
      BY <1>2, <1>9, <2>2, PruneOK, Zenon
  <1>10. CASE UNCHANGED cacheVars
    BY <1>10, Zenon DEF cacheVars, CacheInv
  <1> QED
    BY <1>3, <1>4, <1>5, <1>6, <1>7, <1>8, <1>9, <1>10, Zenon DEF CacheNext

\* The inductive invariant: what users hold and what is in the cache account for every
\* reference, the lists split what is in the cache, and the hash table holds exactly that.
THEOREM CacheInvHolds == CacheSpec => []CacheInv
  <1>1. (\E capacity \in Capacities : CacheInit(capacity)) => CacheInv
    BY InitInv, Zenon
  <1> QED
    BY <1>1, StepInv, PTL DEF CacheSpec

-----------------------------------------------------------------------------
\* What follows.

LEMMA ListSet == ASSUME NEW q, NEW S, ListOf(q, S) PROVE ToSet(q) = S
  <1>1. \A h : Has(q, h) <=> h \in S
    BY Zenon DEF ListOf
  <1>2. \A h : h \in ToSet(q) <=> Has(q, h)
    BY DEF ToSet, Has
  <1> QED
    BY <1>1, <1>2

\* HeldTablesStay of util/cache.cc and db/table_cache.cc: what a thread uses is what it asked
\* for until Release, and every handle counts exactly those who use it and the cache.
THEOREM TablesStay == CacheSpec => []HeldTablesStay
  <1>1. CacheInv => HeldTablesStay
    <2> SUFFICES ASSUME CacheInv PROVE HeldTablesStay
      BY Zenon
    <2>1. \A u \in Users : user[u].at = "using" =>
            shard_[Shard(user[u].file)].handle[user[u].handle].file = user[u].file
      BY Zenon DEF CacheInv, FilesRight
    <2>2. ASSUME NEW s \in Shards, NEW h \in Handles
          PROVE  shard_[s].handle[h].refs =
                     Cardinality({u \in Users : /\ user[u].at = "using" /\ user[u].handle = h
                                                /\ Shard(user[u].file) = s})
                     + (IF shard_[s].handle[h].in_cache THEN 1 ELSE 0)
      <3>1. PICK x \in Nat : ShardOK(x, shard_[s], s, HeldBy(user, s))
        BY Zenon DEF CacheInv, ShardsOK
      <3>2. shard_[s].handle[h].refs =
                HeldBy(user, s)[h] + (IF shard_[s].handle[h].in_cache THEN 1 ELSE 0)
        BY <3>1, Zenon DEF ShardOK, HalfOK, RefsOK
      <3>3. HeldBy(user, s)[h] = Cardinality(Holders(user, s, h))
        BY DEF HeldBy
      <3> QED
        BY <3>2, <3>3, Zenon DEF Holders
    <2> QED
      BY <2>1, <2>2, Zenon DEF HeldTablesStay
  <1> QED
    BY <1>1, CacheInvHolds, PTL

\* CacheAgrees of util/cache.cc: the hash table, the two lists and usage_ of every shard agree
\* on what is in the cache, after every call.
THEOREM CachesAgree == CacheSpec => []CacheAgrees
  <1>1. CacheInv => CacheAgrees
    <2> SUFFICES ASSUME CacheInv, NEW s \in Shards
                 PROVE  LET c == shard_[s]
                            in == {h \in Handles : c.handle[h].in_cache}
                        IN  /\ ToSet(Elems(c.table)) = in /\ Len(Elems(c.table)) = Cardinality(in)
                            /\ \A h \in in : /\ TableLookup(c, c.handle[h].file) = h
                                             /\ Shard(c.handle[h].file) = s
                            /\ ToSet(c.lru) = {h \in in : c.handle[h].refs = 1}
                            /\ ToSet(c.in_use) = {h \in in : c.handle[h].refs > 1}
                            /\ c.usage = Cardinality(in)
      BY Zenon DEF CacheAgrees
    <2> DEFINE c == shard_[s]
               in == Cached(c)
               R == HeldBy(user, s)
    <2>1. PICK x \in Nat : ShardOK(x, c, s, R)
      BY Zenon DEF CacheInv, ShardsOK
    <2> HIDE DEF c
    <2>2. /\ RefsOK(c, R) /\ Ours(c, s) /\ ListsOK(c) /\ c.usage = Cardinality(in)
          /\ TableOK(c.table, c.handle, in)
      BY <2>1, Zenon DEF ShardOK, HalfOK
    <2>3. ListOf(Elems(c.table), in)
      BY <2>2, ElemsList, Zenon
    <2>4. ToSet(Elems(c.table)) = in /\ Len(Elems(c.table)) = Cardinality(in)
      BY <2>3, ListSet, ListCounts, Zenon
    <2>5. ASSUME NEW h \in in
          PROVE  TableLookup(c, c.handle[h].file) = h /\ Shard(c.handle[h].file) = s
      <3>1. c.handle[h].file \in Files /\ Shard(c.handle[h].file) = s
        BY <2>2, Zenon DEF Ours
      <3>2. LookedUp(c.handle, in, c.handle[h].file, TableLookup(c, c.handle[h].file))
        BY <2>1, <3>1, Looked, Zenon DEF ShardOK
      <3>3. \A g \in in : c.handle[g].file = c.handle[h].file => g = h
        BY <2>2, Zenon DEF TableOK
      <3> HIDE DEF in
      <3> QED
        BY <3>1, <3>2, <3>3, Zenon DEF LookedUp
    <2>6. ToSet(c.lru) = {h \in in : c.handle[h].refs = 1}
      BY <2>2, ListSet, Zenon DEF ListsOK
    <2>7. ToSet(c.in_use) = {h \in in : c.handle[h].refs > 1}
      <3>1. ToSet(c.in_use) = {h \in in : c.handle[h].refs # 1}
        BY <2>2, ListSet, Zenon DEF ListsOK
      <3>2. ASSUME NEW h \in in PROVE c.handle[h].refs # 1 <=> c.handle[h].refs > 1
        <4>1. h \in Handles /\ c.handle[h].in_cache
          BY DEF Cached
        <4>2. (IF c.handle[h].in_cache THEN 1 ELSE 0) = 1
          BY <4>1, Zenon
        <4>3. c.handle[h].refs = R[h] + 1
          BY <2>2, <4>1, <4>2, Zenon DEF RefsOK
        <4>4. R[h] \in Nat
          <5>1. R \in References
            BY HeldByType, Zenon
          <5> HIDE DEF R
          <5> QED
            BY <4>1, <5>1 DEF References
        <4> HIDE DEF R
        <4> QED
          BY <4>3, <4>4
      <3> HIDE DEF in
      <3> QED
        BY <3>1, <3>2
    <2> QED
      BY <2>2, <2>4, <2>5, <2>6, <2>7, Zenon DEF Cached, c
  <1> QED
    BY <1>1, CacheInvHolds, PTL
========================================================================
