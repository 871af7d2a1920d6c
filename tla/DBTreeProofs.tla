---------------------------- MODULE DBTreeProofs ----------------------------
(***************************************************************************)
(* Proofs about DBTree: below level 0 the files of a level follow one       *)
(* another, entries never hop across levels, and a file chosen for its      *)
(* seeks has a level below it, for any number of levels, keys and updates.  *)
(***************************************************************************)
EXTENDS DBTree, FiniteSetTheorems, WellFoundedInduction, TLAPS

-----------------------------------------------------------------------------
\* Natural numbers and recursive functions.

LEMMA LeastOf ==
    ASSUME NEW S, S \subseteq Nat, S # {} PROVE \E m \in S : \A x \in S : m <= x
  <1> DEFINE less == OpToRel(<, Nat)
  <1>1. \A x, y \in Nat : <<x, y>> \in less <=> x < y
    BY DEF OpToRel
  <1>2. IsWellFoundedOn(less, Nat)
    BY NatLessThanWellFounded, Zenon
  <1> HIDE DEF less
  <1>3. PICK m \in S : \A x \in S : ~(<<x, m>> \in less)
    BY <1>2, WFMin
  <1>4. ASSUME NEW x \in S PROVE m <= x
    <2>1. x \in Nat /\ m \in Nat
      OBVIOUS
    <2>2. ~(x < m)
      BY <1>1, <1>3, <2>1
    <2> QED
      BY <2>1, <2>2
  <1> QED
    BY <1>4

LEMMA MinIn == ASSUME NEW S, S \subseteq Nat, S # {} PROVE Min(S) \in S /\ \A x \in S : Min(S) <= x
  <1>1. \E m \in S : \A x \in S : m <= x
    BY LeastOf, Zenon
  <1> QED
    BY <1>1, Zenon DEF Min

LEMMA Steps ==
    ASSUME NEW n \in Nat, NEW P, 0 \in P, \A k \in 1 .. n : k - 1 \in P => k \in P
    PROVE  \A k \in 0 .. n : k \in P
  <1> DEFINE bad == {k \in 0 .. n : k \notin P}
  <1> SUFFICES ASSUME bad # {} PROVE FALSE
    BY Zenon
  <1>1. PICK m \in bad : \A x \in bad : m <= x
    <2>1. bad \subseteq Nat
      OBVIOUS
    <2> HIDE DEF bad
    <2> QED
      BY <2>1, LeastOf
  <1>2. m \in 1 .. n /\ m - 1 \in 0 .. n /\ ~(m <= m - 1)
    OBVIOUS
  <1>3. m - 1 \in P
    BY <1>1, <1>2, Zenon
  <1> QED
    BY <1>2, <1>3, Zenon

Recurs(f, n, a, step) == f = [k \in 0 .. n |-> IF k = 0 THEN a ELSE step[k][f[k - 1]]]

LEMMA RecursNext ==
    ASSUME NEW S, NEW a \in S, NEW step, NEW m \in Nat, \A x \in S : step[m + 1][x] \in S,
           NEW f \in [0 .. m -> S], Recurs(f, m, a, step)
    PROVE  \E g \in [0 .. m + 1 -> S] : Recurs(g, m + 1, a, step)
  <1> DEFINE g == [k \in 0 .. m + 1 |-> IF k = m + 1 THEN step[m + 1][f[m]] ELSE f[k]]
  <1>1. ASSUME NEW k \in 0 .. m + 1
        PROVE  g[k] \in S /\ g[k] = IF k = 0 THEN a ELSE step[k][g[k - 1]]
    <2>1. CASE k = m + 1
      <3>1. m \in 0 .. m /\ m \in 0 .. m + 1 /\ m # m + 1 /\ m + 1 # 0 /\ (m + 1) - 1 = m
            /\ m + 1 \in 0 .. m + 1
        OBVIOUS
      <3>2. g[m + 1] = step[m + 1][f[m]] /\ g[m] = f[m] /\ f[m] \in S
        BY <3>1, Zenon
      <3> HIDE DEF g
      <3> QED
        BY <2>1, <3>1, <3>2, Zenon
    <2>2. CASE k \in 0 .. m
      <3>1. f[k] = IF k = 0 THEN a ELSE step[k][f[k - 1]]
        BY <2>2, Zenon DEF Recurs
      <3>2. g[k] = f[k] /\ (k # 0 => g[k - 1] = f[k - 1]) /\ f[k] \in S
        BY <2>2
      <3> HIDE DEF g
      <3> QED
        BY <3>1, <3>2, Zenon
    <2> QED
      BY <2>1, <2>2
  <1>2. g = [k \in 0 .. m + 1 |-> g[k]]
    OBVIOUS
  <1> HIDE DEF g
  <1>3. g \in [0 .. m + 1 -> S]
    BY <1>1, <1>2
  <1>4. Recurs(g, m + 1, a, step)
    BY <1>1, <1>2 DEF Recurs
  <1> QED
    BY <1>3, <1>4, Zenon

LEMMA RecursSome ==
    ASSUME NEW S, NEW a \in S, NEW n \in Nat, NEW step, \A k \in 1 .. n : \A x \in S : step[k][x] \in S
    PROVE  \E f \in [0 .. n -> S] : Recurs(f, n, a, step)
  <1> DEFINE P == {m \in 0 .. n : \E f \in [0 .. m -> S] : Recurs(f, m, a, step)}
  <1>1. 0 \in P
    <2> DEFINE f == [k \in 0 .. 0 |-> a]
    <2>1. f \in [0 .. 0 -> S]
      OBVIOUS
    <2>2. f = [k \in 0 .. 0 |-> IF k = 0 THEN a ELSE step[k][f[k - 1]]]
      OBVIOUS
    <2>3. 0 \in 0 .. n
      OBVIOUS
    <2> HIDE DEF f
    <2>4. Recurs(f, 0, a, step)
      BY <2>2, Zenon DEF Recurs
    <2> QED
      BY <2>1, <2>3, <2>4, Zenon
  <1>2. ASSUME NEW k \in 1 .. n, k - 1 \in P PROVE k \in P
    <2> DEFINE m == k - 1
    <2>1. m \in Nat /\ m + 1 = k /\ k \in 0 .. n
      OBVIOUS
    <2>2. PICK f \in [0 .. m -> S] : Recurs(f, m, a, step)
      BY <1>2, Zenon
    <2> HIDE DEF m
    <2>3. \A x \in S : step[m + 1][x] \in S
      BY <2>1, Zenon
    <2>4. \E g \in [0 .. m + 1 -> S] : Recurs(g, m + 1, a, step)
      BY <2>1, <2>2, <2>3, RecursNext, Zenon
    <2> QED
      BY <2>1, <2>4, Zenon
  <1> HIDE DEF P
  <1>3. n \in P
    <2>1. \A k \in 0 .. n : k \in P
      BY <1>1, <1>2, Steps, Zenon
    <2>2. n \in 0 .. n
      OBVIOUS
    <2> QED
      BY <2>1, <2>2, Zenon
  <1> QED
    BY <1>3, Zenon DEF P

Follows(f, n, a, step) ==
    f = [k \in 0 .. n |-> f[k]] /\ f[0] = a /\ \A k \in 1 .. n : f[k] = step[k][f[k - 1]]

LEMMA RecursFacts ==
    ASSUME NEW S, NEW a \in S, NEW n \in Nat, NEW step, \A k \in 1 .. n : \A x \in S : step[k][x] \in S
    PROVE  \E f \in [0 .. n -> S] : Follows(f, n, a, step)
  <1>1. PICK f \in [0 .. n -> S] : Recurs(f, n, a, step)
    BY RecursSome, Zenon
  <1>2. \A k \in 0 .. n : f[k] = IF k = 0 THEN a ELSE step[k][f[k - 1]]
    BY <1>1, Zenon DEF Recurs
  <1>3. 0 \in 0 .. n /\ \A k \in 1 .. n : k # 0 /\ k \in 0 .. n
    OBVIOUS
  <1>4. f[0] = a /\ \A k \in 1 .. n : f[k] = step[k][f[k - 1]]
    BY <1>2, <1>3, Zenon
  <1>5. f = [k \in 0 .. n |-> f[k]]
    OBVIOUS
  <1> QED
    BY <1>4, <1>5, Zenon DEF Follows

-----------------------------------------------------------------------------
\* Finite sets in order.  R is the order, as a set of pairs.

StrictOrder(S, R) ==
    /\ \A x \in S : <<x, x>> \notin R
    /\ \A x, y, z \in S : <<x, y>> \in R /\ <<y, z>> \in R => <<x, z>> \in R
    /\ \A x, y \in S : x # y => <<x, y>> \in R \/ <<y, x>> \in R

Below(S, R, x) == {y \in S : <<y, x>> \in R}

\* The elements of S in the order R.
Lists(q, S, R) ==
    /\ q \in [1 .. Cardinality(S) -> S] /\ Cardinality(S) \in Nat
    /\ \A x \in S : \E i \in 1 .. Cardinality(S) : q[i] = x
    /\ \A i, j \in 1 .. Cardinality(S) : i < j => <<q[i], q[j]>> \in R

LEMMA RankGrows ==
    ASSUME NEW S, IsFiniteSet(S), NEW R, StrictOrder(S, R), NEW x \in S, NEW y \in S, <<x, y>> \in R
    PROVE  Cardinality(Below(S, R, x)) < Cardinality(Below(S, R, y))
  <1> DEFINE A == Below(S, R, x)
             B == Below(S, R, y)
  <1>1. A \in SUBSET B /\ x \in B /\ x \notin A /\ B \in SUBSET S
    BY DEF Below, StrictOrder
  <1> HIDE DEF A, B
  <1>2. IsFiniteSet(B) /\ A # B
    BY <1>1, FS_Subset, Zenon
  <1>3. Cardinality(A) <= Cardinality(B) /\ Cardinality(A) # Cardinality(B) /\ IsFiniteSet(A)
    BY <1>1, <1>2, FS_Subset, Zenon
  <1>4. Cardinality(A) \in Nat /\ Cardinality(B) \in Nat
    BY <1>2, <1>3, FS_CardinalityType, Zenon
  <1>5. Cardinality(A) < Cardinality(B)
    BY <1>3, <1>4
  <1> QED
    BY <1>5, Zenon DEF A, B

LEMMA Ranks ==
    ASSUME NEW S, IsFiniteSet(S), NEW R, StrictOrder(S, R), NEW n, n = Cardinality(S)
    PROVE  /\ n \in Nat
           /\ \A x \in S : Cardinality(Below(S, R, x)) \in 0 .. n - 1
           /\ \A x, y \in S : Cardinality(Below(S, R, x)) = Cardinality(Below(S, R, y)) => x = y
           /\ \A i \in 0 .. n - 1 : \E x \in S : Cardinality(Below(S, R, x)) = i
  <1> DEFINE rank == [x \in S |-> Cardinality(Below(S, R, x))]
             T == 0 .. n - 1
  <1>1. n \in Nat
    BY FS_CardinalityType, Zenon
  <1>2. ASSUME NEW x \in S PROVE rank[x] \in T
    <2>1. Below(S, R, x) \in SUBSET (S \ {x})
      BY DEF Below, StrictOrder
    <2>2. IsFiniteSet(S \ {x}) /\ Cardinality(S \ {x}) = n - 1
      BY FS_RemoveElement
    <2>3. IsFiniteSet(Below(S, R, x)) /\ Cardinality(Below(S, R, x)) <= n - 1
      BY <2>1, <2>2, FS_Subset
    <2>4. Cardinality(Below(S, R, x)) \in Nat
      BY <2>3, FS_CardinalityType
    <2>5. Cardinality(Below(S, R, x)) \in T
      BY <1>1, <2>3, <2>4
    <2> QED
      BY <2>5, Zenon
  <1>3. ASSUME NEW x \in S, NEW y \in S, rank[x] = rank[y] PROVE x = y
    <2> SUFFICES ASSUME x # y PROVE FALSE
      OBVIOUS
    <2>1. <<x, y>> \in R \/ <<y, x>> \in R
      BY Zenon DEF StrictOrder
    <2>2. rank[x] < rank[y] \/ rank[y] < rank[x]
      BY <2>1, RankGrows, Zenon
    <2>3. rank[x] \in Int /\ rank[y] \in Int
      <3>1. rank[x] \in T /\ rank[y] \in T
        BY <1>2, Zenon
      <3> HIDE DEF rank
      <3> QED
        BY <1>1, <3>1
    <2> HIDE DEF rank
    <2> QED
      BY <1>3, <2>2, <2>3
  <1>4. rank \in Injection(S, T)
    <2>1. rank \in [S -> T]
      BY <1>2, Zenon
    <2>2. IsInjective(rank)
      BY <1>3 DEF IsInjective
    <2> HIDE DEF rank
    <2> QED
      BY <2>1, <2>2, Zenon DEF Injection
  <1>5. IsFiniteSet(T) /\ Cardinality(T) = n
    <2>1. 0 \in Int /\ n - 1 \in Int /\ (IF 0 > n - 1 THEN 0 ELSE (n - 1) - 0 + 1) = n
      BY <1>1
    <2>2. IsFiniteSet(0 .. n - 1)
          /\ Cardinality(0 .. n - 1) = IF 0 > n - 1 THEN 0 ELSE (n - 1) - 0 + 1
      BY <2>1, FS_Interval, Zenon
    <2> QED
      BY <2>1, <2>2, Zenon
  <1> HIDE DEF T, rank
  <1>6. rank \in Surjection(S, T)
    BY <1>4, <1>5, FS_Injection, Zenon
  <1>7. \A i \in T : \E x \in S : rank[x] = i
    BY <1>6, Zenon DEF Surjection
  <1> QED
    BY <1>1, <1>2, <1>3, <1>7, Zenon DEF rank, T

\* Elements taken by the number of those below them.
LEMMA Listed ==
    ASSUME NEW S, IsFiniteSet(S), NEW R, StrictOrder(S, R), NEW q,
           q = [i \in 1 .. Cardinality(S) |-> q[i]],
           \A i \in 1 .. Cardinality(S) :
               (\E x \in S : Cardinality(Below(S, R, x)) = i - 1)
               => q[i] \in S /\ Cardinality(Below(S, R, q[i])) = i - 1
    PROVE  Lists(q, S, R)
  <1> DEFINE n == Cardinality(S)
             rank(x) == Cardinality(Below(S, R, x))
  <1>1. /\ n \in Nat
        /\ \A x \in S : rank(x) \in 0 .. n - 1
        /\ \A x, y \in S : rank(x) = rank(y) => x = y
        /\ \A i \in 0 .. n - 1 : \E x \in S : rank(x) = i
    BY Ranks
  <1>2. \A x, y \in S : <<x, y>> \in R => rank(x) < rank(y)
    BY RankGrows
  <1>3. q = [i \in 1 .. n |-> q[i]]
        /\ \A i \in 1 .. n : (\E x \in S : rank(x) = i - 1) => q[i] \in S /\ rank(q[i]) = i - 1
    OBVIOUS
  <1> HIDE DEF n, rank
  <1>4. \A i \in 1 .. n : i - 1 \in 0 .. n - 1
    BY <1>1
  <1>6. ASSUME NEW i \in 1 .. n PROVE q[i] \in S /\ rank(q[i]) = i - 1
    BY <1>1, <1>3, <1>4, Zenon
  <1>7. q \in [1 .. n -> S]
    BY <1>3, <1>6
  <1>8. ASSUME NEW x \in S PROVE \E i \in 1 .. n : q[i] = x
    <2>1. rank(x) + 1 \in 1 .. n /\ (rank(x) + 1) - 1 = rank(x)
      BY <1>1
    <2>2. q[rank(x) + 1] = x
      BY <1>1, <1>6, <2>1
    <2> QED
      BY <2>1, <2>2, Zenon
  <1>9. ASSUME NEW i \in 1 .. n, NEW j \in 1 .. n, i < j PROVE <<q[i], q[j]>> \in R
    <2>1. rank(q[i]) = i - 1 /\ rank(q[j]) = j - 1 /\ q[i] \in S /\ q[j] \in S
      BY <1>6
    <2>2. i - 1 < j - 1 /\ ~(j - 1 < i - 1) /\ i - 1 # j - 1
      BY <1>1, <1>9
    <2>3. q[i] # q[j]
      BY <2>1, <2>2, Zenon
    <2>4. <<q[i], q[j]>> \in R \/ <<q[j], q[i]>> \in R
      BY <2>1, <2>3, Zenon DEF StrictOrder
    <2> QED
      BY <1>2, <2>1, <2>2, <2>4, Zenon
  <1> QED
    BY <1>1, <1>7, <1>8, <1>9 DEF Lists, n

LEMMA ListOf1 ==
    ASSUME NEW S, IsFiniteSet(S), NEW R, StrictOrder(S, R) PROVE \E q : Lists(q, S, R)
  <1> DEFINE n == Cardinality(S)
             has(x, i) == Cardinality(Below(S, R, x)) = i - 1
             q == [i \in 1 .. n |-> CHOOSE x \in S : has(x, i)]
  <1>1. ASSUME NEW i \in 1 .. n, \E x \in S : has(x, i) PROVE q[i] \in S /\ has(q[i], i)
    <2>1. q[i] = CHOOSE x \in S : has(x, i)
      BY Zenon
    <2> HIDE DEF q, has
    <2> QED
      BY <1>1, <2>1, Zenon
  <1>2. q = [i \in 1 .. n |-> q[i]]
    <2> HIDE DEF has
    <2> QED
      OBVIOUS
  <1> HIDE DEF q
  <1>3. Lists(q, S, R)
    BY <1>1, <1>2, Listed, Zenon
  <1> QED
    BY <1>3, Zenon

LEMMA FirstAndLast ==
    ASSUME NEW S, IsFiniteSet(S), NEW R, StrictOrder(S, R), S # {}
    PROVE  /\ \E x \in S : \A y \in S \ {x} : <<x, y>> \in R
           /\ \E x \in S : \A y \in S \ {x} : <<y, x>> \in R
  <1>1. PICK q : Lists(q, S, R)
    BY ListOf1, Zenon
  <1> DEFINE n == Cardinality(S)
  <1>2. n \in Nat /\ q \in [1 .. n -> S] /\ (\A x \in S : \E i \in 1 .. n : q[i] = x)
        /\ \A i, j \in 1 .. n : i < j => <<q[i], q[j]>> \in R
    BY <1>1, Zenon DEF Lists
  <1>3. n # 0
    BY FS_EmptySet, Zenon
  <1> HIDE DEF n
  <1>4. 1 \in 1 .. n /\ n \in 1 .. n /\ \A i \in 1 .. n : (i # 1 => 1 < i) /\ (i # n => i < n)
    BY <1>2, <1>3
  <1>5. \A y \in S \ {q[1]} : <<q[1], y>> \in R
    BY <1>2, <1>4, Zenon
  <1>6. \A y \in S \ {q[n]} : <<y, q[n]>> \in R
    BY <1>2, <1>4, Zenon
  <1> QED
    BY <1>2, <1>4, <1>5, <1>6, Zenon
-----------------------------------------------------------------------------
\* Entries in order.

Entry == InternalKeys(Keys, 1 .. MaxSequenceNumber - 1)

\* No two of these entries are of one update.
Unique(S) == \A e, o \in S : e.seq = o.seq => e = o

EntryOrder == {p \in Entry \X Entry : Before(p[1], p[2])}

LEMMA Constants ==
    /\ NumLevels \in Nat /\ NumLevels >= 2 /\ MaxMemCompactLevel \in Nat
    /\ MaxMemCompactLevel <= NumLevels - 1 /\ TargetFileSize \in Nat /\ TargetFileSize # 0
    /\ L0Trigger \in Nat /\ L0Trigger # 0 /\ LevelBase \in Nat /\ LevelBase # 0
    /\ MaxKey \in Nat /\ MaxSequenceNumber \in Nat
  <1>1. NumLevels \in Nat /\ NumLevels # 0 /\ NumLevels # 1
        /\ MaxMemCompactLevel \in 0 .. NumLevels - 1
    BY LevelsAssumption
  <1>2. TargetFileSize \in Nat \ {0} /\ L0Trigger \in Nat \ {0} /\ LevelBase \in Nat \ {0}
    BY LevelsAssumption
  <1>3. MaxKey \in Nat
    BY BoundsAssumption
  <1>4. MaxSequenceNumber \in Nat
    BY DEF MaxSequenceNumber
  <1> QED
    BY <1>1, <1>2, <1>3, <1>4

LEMMA EntryFields ==
    ASSUME NEW e \in Entry
    PROVE  e.key \in Nat /\ e.seq \in Nat /\ e.seq < MaxSequenceNumber /\ e.key \in Keys
  BY Constants DEF Entry, InternalKeys, Keys

LEMMA EntryFinite == IsFiniteSet(Entry)
  <1> DEFINE Q == 1 .. MaxSequenceNumber - 1
             P == Keys \X Q
             T == P \X Types
             f == [e \in Entry |-> <<<<e.key, e.seq>>, e.type>>]
  <1>1. IsFiniteSet(Keys) /\ IsFiniteSet(Q)
    <2>1. 1 \in Int /\ MaxKey \in Int /\ MaxSequenceNumber - 1 \in Int
      BY Constants
    <2> QED
      BY <2>1, FS_Interval, Zenon DEF Keys
  <1>2. IsFiniteSet(Types)
    <2>1. Types = {"value"} \cup {"deletion"}
      BY DEF Types
    <2>2. IsFiniteSet({"value"}) /\ IsFiniteSet({"deletion"})
      BY FS_Singleton, Zenon
    <2> QED
      BY <2>1, <2>2, FS_Union, Zenon
  <1>3. \A e \in Entry : e.key \in Keys /\ e.seq \in Q /\ e.type \in Types
    BY DEF Entry, InternalKeys
  <1>4. \A e, o \in Entry : e.key = o.key /\ e.seq = o.seq /\ e.type = o.type => e = o
    BY DEF Entry, InternalKeys
  <1> HIDE DEF Q
  <1>5. IsFiniteSet(P)
    BY <1>1, FS_Product, Zenon
  <1>6. IsFiniteSet(T)
    BY <1>2, <1>5, FS_Product, Zenon
  <1>7. f \in [Entry -> T]
    BY <1>3, Zenon
  <1>8. ASSUME NEW e \in Entry, NEW o \in Entry, f[e] = f[o] PROVE e = o
    <2>1. <<<<e.key, e.seq>>, e.type>> = <<<<o.key, o.seq>>, o.type>>
      BY <1>8, Zenon
    <2>2. e.key = o.key /\ e.seq = o.seq /\ e.type = o.type
      BY <2>1
    <2> QED
      BY <1>4, <2>2, Zenon
  <1> HIDE DEF f, T
  <1>9. IsInjective(f)
    BY <1>7, <1>8, Zenon DEF IsInjective
  <1>10. f \in Injection(Entry, T)
    BY <1>7, <1>9, Zenon DEF Injection
  <1> QED
    BY <1>6, <1>10, FS_Injection, Zenon

LEMMA BeforeTrans ==
    ASSUME NEW a \in Entry, NEW b \in Entry, NEW c \in Entry, Before(a, b), Before(b, c)
    PROVE  Before(a, c)
  BY EntryFields DEF Before

LEMMA BeforeNot == ASSUME NEW a \in Entry, NEW b \in Entry, Before(a, b) PROVE ~Before(b, a) /\ a # b
  BY EntryFields DEF Before

LEMMA BeforeTotal ==
    ASSUME NEW a \in Entry, NEW b \in Entry, Unique({a, b}), a # b PROVE Before(a, b) \/ Before(b, a)
  BY EntryFields DEF Before, Unique

LEMMA BeforeKeys ==
    ASSUME NEW a \in Entry, NEW b \in Entry, Before(a, b) PROVE a.key <= b.key
  BY EntryFields DEF Before

LEMMA UniquePart == ASSUME NEW S, Unique(S), NEW T, T \subseteq S PROVE Unique(T)
  BY DEF Unique

LEMMA EntriesOrdered ==
    ASSUME NEW S, S \subseteq Entry, Unique(S) PROVE StrictOrder(S, EntryOrder) /\ IsFiniteSet(S)
  <1>1. \A a, b \in Entry : <<a, b>> \in EntryOrder <=> Before(a, b)
    BY DEF EntryOrder
  <1>2. \A x \in S : <<x, x>> \notin EntryOrder
    BY <1>1, BeforeNot
  <1>3. \A x, y, z \in S : <<x, y>> \in EntryOrder /\ <<y, z>> \in EntryOrder => <<x, z>> \in EntryOrder
    BY <1>1, BeforeTrans
  <1>4. ASSUME NEW x \in S, NEW y \in S, x # y
        PROVE  <<x, y>> \in EntryOrder \/ <<y, x>> \in EntryOrder
    <2>1. Unique({x, y})
      BY UniquePart
    <2>2. Before(x, y) \/ Before(y, x)
      BY <1>4, <2>1, BeforeTotal
    <2>3. x \in Entry /\ y \in Entry
      OBVIOUS
    <2> QED
      BY <1>1, <2>2, <2>3, Zenon
  <1>5. IsFiniteSet(S)
    BY EntryFinite, FS_Subset
  <1> QED
    BY <1>2, <1>3, <1>4, <1>5, Zenon DEF StrictOrder

LEMMA Ends ==
    ASSUME NEW S, S \subseteq Entry, Unique(S), S # {}
    PROVE  /\ FirstOf(S) \in S /\ \A o \in S : o = FirstOf(S) \/ Before(FirstOf(S), o)
           /\ LastOf(S) \in S /\ \A o \in S : o = LastOf(S) \/ Before(o, LastOf(S))
  <1>1. \A a, b \in S : <<a, b>> \in EntryOrder => Before(a, b)
    BY DEF EntryOrder
  <1>2. /\ \E x \in S : \A y \in S \ {x} : <<x, y>> \in EntryOrder
        /\ \E x \in S : \A y \in S \ {x} : <<y, x>> \in EntryOrder
    BY EntriesOrdered, FirstAndLast, Zenon
  <1>3. \E x \in S : \A y \in S \ {x} : Before(x, y)
    BY <1>1, <1>2, Zenon
  <1>4. \E x \in S : \A y \in S \ {x} : Before(y, x)
    BY <1>1, <1>2, Zenon
  <1>5. FirstOf(S) \in S /\ \A y \in S \ {FirstOf(S)} : Before(FirstOf(S), y)
    BY <1>3, Zenon DEF FirstOf
  <1>6. LastOf(S) \in S /\ \A y \in S \ {LastOf(S)} : Before(y, LastOf(S))
    BY <1>4, Zenon DEF LastOf
  <1> QED
    BY <1>5, <1>6, Zenon

LEMMA EndKeys ==
    ASSUME NEW S, S \subseteq Entry, Unique(S), S # {}
    PROVE  /\ FirstOf(S) \in Entry /\ LastOf(S) \in Entry /\ FirstOf(S) \in S /\ LastOf(S) \in S
           /\ FirstOf(S).key \in Nat /\ LastOf(S).key \in Nat
           /\ \A o \in S : FirstOf(S).key <= o.key /\ o.key <= LastOf(S).key /\ o.key \in Nat
  <1>1. FirstOf(S) \in S /\ LastOf(S) \in S
    BY Ends, Zenon
  <1>2. FirstOf(S) \in Entry /\ LastOf(S) \in Entry
    BY <1>1, Zenon
  <1>3. FirstOf(S).key \in Nat /\ LastOf(S).key \in Nat
    BY <1>2, EntryFields, Zenon
  <1>4. ASSUME NEW o \in S
        PROVE  FirstOf(S).key <= o.key /\ o.key <= LastOf(S).key /\ o.key \in Nat
    <2>1. o \in Entry /\ o.key \in Nat
      BY EntryFields
    <2>2. o = FirstOf(S) \/ Before(FirstOf(S), o)
      BY Ends, Zenon
    <2>3. o = LastOf(S) \/ Before(o, LastOf(S))
      BY Ends, Zenon
    <2>4. FirstOf(S).key <= o.key
      BY <1>2, <1>3, <2>1, <2>2, BeforeKeys
    <2>5. o.key <= LastOf(S).key
      BY <1>2, <1>3, <2>1, <2>3, BeforeKeys
    <2> QED
      BY <2>1, <2>4, <2>5, Zenon
  <1> QED
    BY <1>1, <1>2, <1>3, <1>4, Zenon

LEMMA InOrderLists ==
    ASSUME NEW S, S \subseteq Entry, Unique(S)
    PROVE  /\ InOrder(S) \in Seq(S) /\ Len(InOrder(S)) = Cardinality(S) /\ Cardinality(S) \in Nat
           /\ DOMAIN InOrder(S) = 1 .. Cardinality(S)
           /\ \A i, j \in 1 .. Cardinality(S) : i < j => Before(InOrder(S)[i], InOrder(S)[j])
  <1> DEFINE n == Cardinality(S)
             q == InOrder(S)
             has(x, i) == Cardinality({o \in S : Before(o, x)}) = i - 1
  <1>1. \A e \in S : Below(S, EntryOrder, e) = {o \in S : Before(o, e)}
    BY DEF Below, EntryOrder
  <1>2. q = [i \in 1 .. n |-> CHOOSE x \in S : has(x, i)]
    BY Zenon DEF InOrder
  <1> HIDE DEF q
  <1>3. Lists(q, S, EntryOrder)
    <2>1. ASSUME NEW i \in 1 .. n, \E x \in S : Cardinality(Below(S, EntryOrder, x)) = i - 1
          PROVE  q[i] \in S /\ Cardinality(Below(S, EntryOrder, q[i])) = i - 1
      <3>1. \E x \in S : has(x, i)
        BY <1>1, <2>1, Zenon
      <3>2. q[i] = CHOOSE x \in S : has(x, i)
        BY <1>2, Zenon
      <3>3. q[i] \in S /\ has(q[i], i)
        <4> HIDE DEF has
        <4> QED
          BY <3>1, <3>2, Zenon
      <3> QED
        BY <1>1, <3>3, Zenon
    <2>2. q = [i \in 1 .. n |-> q[i]]
      <3> HIDE DEF has
      <3> QED
        BY <1>2
    <2> QED
      BY <2>1, <2>2, EntriesOrdered, Listed, Zenon
  <1>4. q \in [1 .. n -> S] /\ n \in Nat /\ \A i, j \in 1 .. n : i < j => <<q[i], q[j]>> \in EntryOrder
    BY <1>3, Zenon DEF Lists
  <1>5. \A i, j \in 1 .. n : i < j => Before(q[i], q[j])
    BY <1>4 DEF EntryOrder
  <1> HIDE DEF n
  <1>6. q \in Seq(S) /\ Len(q) = n /\ DOMAIN q = 1 .. n
    BY <1>4
  <1> QED
    BY <1>4, <1>5, <1>6, Zenon DEF n, q
-----------------------------------------------------------------------------
\* Files in order.

File == FileMetaData(Entry)

\* The files of one level, or some of them.
FilesOK(fs) ==
    /\ fs \subseteq File /\ IsFiniteSet(fs) /\ Unique(KeysOf(fs))
    /\ \A f, g \in fs : f.number = g.number => f = g

FileBefore(f, g) == \/ Before(Smallest(f), Smallest(g))
                    \/ Smallest(f) = Smallest(g) /\ f.number < g.number
FileOrder(fs) == {p \in fs \X fs : FileBefore(p[1], p[2])}

LEMMA SomeFiles == ASSUME NEW fs, FilesOK(fs), NEW gs, gs \subseteq fs PROVE FilesOK(gs)
  <1>1. IsFiniteSet(gs) /\ gs \subseteq File
    BY FS_Subset DEF FilesOK
  <1>2. KeysOf(gs) \subseteq KeysOf(fs)
    BY DEF KeysOf
  <1>3. Unique(KeysOf(gs))
    BY <1>2, UniquePart, Zenon DEF FilesOK
  <1>4. \A f, g \in gs : f.number = g.number => f = g
    BY DEF FilesOK
  <1> QED
    BY <1>1, <1>3, <1>4, Zenon DEF FilesOK

LEMMA FileData ==
    ASSUME NEW fs, FilesOK(fs), NEW f \in fs
    PROVE  /\ f.data \subseteq Entry /\ f.data # {} /\ Unique(f.data) /\ f.number \in Nat
           /\ f.data \subseteq KeysOf(fs) /\ f \in File
  <1>1. f \in File
    BY Zenon DEF FilesOK
  <1>2. f.data \subseteq Entry /\ f.data # {} /\ f.number \in Nat
    BY <1>1 DEF File, FileMetaData
  <1>3. f.data \subseteq KeysOf(fs)
    BY DEF KeysOf
  <1>4. Unique(f.data)
    BY <1>3, UniquePart, Zenon DEF FilesOK
  <1> QED
    BY <1>1, <1>2, <1>3, <1>4, Zenon

LEMMA FileEnds ==
    ASSUME NEW fs, FilesOK(fs), NEW f \in fs
    PROVE  /\ Smallest(f) \in Entry /\ Largest(f) \in Entry
           /\ Smallest(f) \in f.data /\ Largest(f) \in f.data
           /\ Smallest(f).key \in Nat /\ Largest(f).key \in Nat
           /\ \A e \in f.data : Smallest(f).key <= e.key /\ e.key <= Largest(f).key /\ e.key \in Nat
           /\ \A e \in f.data : e = Smallest(f) \/ Before(Smallest(f), e)
           /\ \A e \in f.data : e = Largest(f) \/ Before(e, Largest(f))
  <1>1. f.data \subseteq Entry /\ f.data # {} /\ Unique(f.data)
    BY FileData, Zenon
  <1>2. /\ FirstOf(f.data) \in Entry /\ LastOf(f.data) \in Entry
        /\ FirstOf(f.data) \in f.data /\ LastOf(f.data) \in f.data
        /\ FirstOf(f.data).key \in Nat /\ LastOf(f.data).key \in Nat
        /\ \A o \in f.data : FirstOf(f.data).key <= o.key /\ o.key <= LastOf(f.data).key /\ o.key \in Nat
    BY <1>1, EndKeys, Zenon
  <1>3. /\ \A o \in f.data : o = FirstOf(f.data) \/ Before(FirstOf(f.data), o)
        /\ \A o \in f.data : o = LastOf(f.data) \/ Before(o, LastOf(f.data))
    BY <1>1, Ends, Zenon
  <1> QED
    BY <1>2, <1>3, Zenon DEF Smallest, Largest

LEMMA FilesOrdered == ASSUME NEW fs, FilesOK(fs) PROVE StrictOrder(fs, FileOrder(fs))
  <1>1. \A f, g \in fs : <<f, g>> \in FileOrder(fs) <=> FileBefore(f, g)
    BY DEF FileOrder
  <1>2. \A f \in fs : Smallest(f) \in Entry /\ Smallest(f) \in KeysOf(fs) /\ f.number \in Nat
    BY FileData, FileEnds
  <1>3. ASSUME NEW f \in fs, FileBefore(f, f) PROVE FALSE
    <2>1. ~Before(Smallest(f), Smallest(f))
      BY <1>2, BeforeNot
    <2> QED
      BY <1>2, <1>3, <2>1 DEF FileBefore
  <1>4. ASSUME NEW f \in fs, NEW g \in fs, NEW h \in fs, FileBefore(f, g), FileBefore(g, h)
        PROVE  FileBefore(f, h)
    <2> DEFINE a == Smallest(f)
               b == Smallest(g)
               c == Smallest(h)
    <2>1. a \in Entry /\ b \in Entry /\ c \in Entry
      BY <1>2
    <2>2. (Before(a, b) \/ (a = b /\ f.number < g.number))
         /\ (Before(b, c) \/ (b = c /\ g.number < h.number))
      BY <1>4, Zenon DEF FileBefore
    <2> HIDE DEF a, b, c
    <2>3. Before(a, b) /\ Before(b, c) => Before(a, c)
      BY <2>1, BeforeTrans
    <2>4. f.number < g.number /\ g.number < h.number => f.number < h.number
      BY <1>2
    <2>5. Before(a, c) \/ (a = c /\ f.number < h.number)
      BY <2>2, <2>3, <2>4, Zenon
    <2> QED
      BY <2>5, Zenon DEF FileBefore, a, c
  <1>5. ASSUME NEW f \in fs, NEW g \in fs, f # g PROVE FileBefore(f, g) \/ FileBefore(g, f)
    <2> DEFINE a == Smallest(f)
               b == Smallest(g)
    <2>1. CASE a = b
      <3>1. f.number # g.number
        BY <1>5, Zenon DEF FilesOK
      <3>2. f.number < g.number \/ g.number < f.number
        BY <1>2, <3>1
      <3> QED
        BY <2>1, <3>2, Zenon DEF FileBefore
    <2>2. CASE a # b
      <3>1. a \in Entry /\ b \in Entry /\ {a, b} \subseteq KeysOf(fs)
        BY <1>2
      <3>2. Unique({a, b})
        BY <3>1, UniquePart, Zenon DEF FilesOK
      <3> HIDE DEF a, b
      <3>3. Before(a, b) \/ Before(b, a)
        BY <2>2, <3>1, <3>2, BeforeTotal, Zenon
      <3> QED
        BY <3>3, Zenon DEF FileBefore, a, b
    <2> QED
      BY <2>1, <2>2
  <1> QED
    BY <1>1, <1>3, <1>4, <1>5, Zenon DEF StrictOrder

\* What Sorted makes of a set of files.
LEMMA SortedLists == ASSUME NEW fs, FilesOK(fs) PROVE Lists(Sorted(fs), fs, FileOrder(fs))
  <1> DEFINE n == Cardinality(fs)
             q == Sorted(fs)
             R == FileOrder(fs)
             has(x, i) == Cardinality({g \in fs : FileBefore(g, x)}) = i - 1
  <1>1. \A f \in fs : Below(fs, R, f) = {g \in fs : FileBefore(g, f)}
    BY DEF Below, FileOrder
  <1>2. q = [i \in 1 .. n |-> CHOOSE x \in fs : has(x, i)]
    BY Zenon DEF Sorted, FileBefore
  <1> HIDE DEF q, R
  <1>3. ASSUME NEW i \in 1 .. n, \E x \in fs : Cardinality(Below(fs, R, x)) = i - 1
        PROVE  q[i] \in fs /\ Cardinality(Below(fs, R, q[i])) = i - 1
    <2>1. \E x \in fs : has(x, i)
      BY <1>1, <1>3, Zenon
    <2>2. q[i] = CHOOSE x \in fs : has(x, i)
      BY <1>2, Zenon
    <2>3. q[i] \in fs /\ has(q[i], i)
      <3> HIDE DEF has
      <3> QED
        BY <2>1, <2>2, Zenon
    <2> QED
      BY <1>1, <2>3, Zenon
  <1>4. q = [i \in 1 .. n |-> q[i]]
    <2> HIDE DEF has
    <2> QED
      BY <1>2
  <1>5. StrictOrder(fs, R) /\ IsFiniteSet(fs)
    BY FilesOrdered, Zenon DEF FilesOK, R
  <1>6. Lists(q, fs, R)
    BY <1>3, <1>4, <1>5, Listed, Zenon
  <1> QED
    BY <1>6, Zenon DEF q, R

LEMMA SortedIs ==
    ASSUME NEW fs, FilesOK(fs)
    PROVE  /\ Cardinality(fs) \in Nat /\ Sorted(fs) \in Seq(fs) /\ Len(Sorted(fs)) = Cardinality(fs)
           /\ DOMAIN Sorted(fs) = 1 .. Cardinality(fs) /\ ToSet(Sorted(fs)) = fs
           /\ \A i \in 1 .. Cardinality(fs) : Sorted(fs)[i] \in fs
           /\ \A f \in fs : \E i \in 1 .. Cardinality(fs) : Sorted(fs)[i] = f
           /\ \A i, j \in 1 .. Cardinality(fs) :
                  i < j => FileBefore(Sorted(fs)[i], Sorted(fs)[j]) /\ Sorted(fs)[i] # Sorted(fs)[j]
  <1> DEFINE n == Cardinality(fs)
             q == Sorted(fs)
  <1>1. q \in [1 .. n -> fs] /\ n \in Nat /\ (\A x \in fs : \E i \in 1 .. n : q[i] = x)
        /\ \A i, j \in 1 .. n : i < j => <<q[i], q[j]>> \in FileOrder(fs)
    BY SortedLists, Zenon DEF Lists
  <1>2. \A x \in fs : <<x, x>> \notin FileOrder(fs)
    BY FilesOrdered, Zenon DEF StrictOrder
  <1> HIDE DEF n, q
  <1>3. \A i, j \in 1 .. n : i < j => FileBefore(q[i], q[j]) /\ q[i] # q[j]
    <2>1. \A x, y : <<x, y>> \in FileOrder(fs) => FileBefore(x, y)
      BY DEF FileOrder
    <2> QED
      BY <1>1, <1>2, <2>1, Zenon
  <1>4. q \in Seq(fs) /\ Len(q) = n /\ DOMAIN q = 1 .. n /\ \A i \in 1 .. n : q[i] \in fs
    BY <1>1
  <1>5. ToSet(q) = fs
    BY <1>1, <1>4 DEF ToSet
  <1> QED
    BY <1>1, <1>3, <1>4, <1>5, Zenon DEF n, q

LEMMA FirstFile ==
    ASSUME NEW fs, FilesOK(fs), fs # {}
    PROVE  Sorted(fs)[1] \in fs /\ \A f \in fs : f = Sorted(fs)[1] \/ FileBefore(Sorted(fs)[1], f)
  <1> DEFINE n == Cardinality(fs)
  <1>1. n \in Nat /\ n # 0
    BY SortedIs, FS_EmptySet, Zenon DEF FilesOK
  <1>2. 1 \in 1 .. n /\ \A i \in 1 .. n : i = 1 \/ 1 < i
    BY <1>1
  <1>3. Sorted(fs)[1] \in fs
    BY <1>2, SortedIs, Zenon
  <1>4. ASSUME NEW f \in fs PROVE f = Sorted(fs)[1] \/ FileBefore(Sorted(fs)[1], f)
    <2>1. PICK i \in 1 .. n : Sorted(fs)[i] = f
      BY SortedIs, Zenon
    <2> QED
      BY <1>2, <2>1, SortedIs, Zenon
  <1> QED
    BY <1>3, <1>4, Zenon

-----------------------------------------------------------------------------
\* Files that follow one another.

Ahead(S, T) == \A e \in S, o \in T : Before(e, o)
Apart(fs) == \A f, g \in fs : f # g => Ahead(f.data, g.data) \/ Ahead(g.data, f.data)

LEMMA AheadEnds ==
    ASSUME NEW fs, FilesOK(fs), NEW f \in fs, NEW g \in fs, Ahead(f.data, g.data)
    PROVE  /\ Before(Largest(f), Smallest(g)) /\ Before(Smallest(f), Smallest(g))
           /\ Before(Largest(f), Largest(g)) /\ Largest(f).key <= Smallest(g).key
  <1>1. /\ Largest(f) \in f.data /\ Smallest(g) \in g.data /\ Smallest(f) \in f.data
        /\ Largest(g) \in g.data /\ Largest(f) \in Entry /\ Smallest(g) \in Entry
    BY FileEnds, Zenon
  <1>2. /\ Before(Largest(f), Smallest(g)) /\ Before(Smallest(f), Smallest(g))
        /\ Before(Largest(f), Largest(g))
    BY <1>1, Zenon DEF Ahead
  <1> QED
    BY <1>1, <1>2, BeforeKeys, Zenon

LEMMA ApartBefore ==
    ASSUME NEW fs, FilesOK(fs), Apart(fs), NEW f \in fs, NEW g \in fs, f # g,
           FileBefore(f, g) \/ ~FileBefore(g, f)
    PROVE  Ahead(f.data, g.data)
  <1> SUFFICES ASSUME Ahead(g.data, f.data) PROVE FALSE
    BY Zenon DEF Apart
  <1>1. Before(Smallest(g), Smallest(f)) /\ Smallest(g) \in Entry /\ Smallest(f) \in Entry
    BY AheadEnds, FileEnds, Zenon
  <1>2. ~Before(Smallest(f), Smallest(g)) /\ Smallest(f) # Smallest(g)
    BY <1>1, BeforeNot
  <1> QED
    BY <1>1, <1>2, Zenon DEF FileBefore

LEMMA SortedApart ==
    ASSUME NEW fs, FilesOK(fs), Apart(fs), NEW i \in 1 .. Cardinality(fs), NEW j \in 1 .. Cardinality(fs),
           i < j
    PROVE  Ahead(Sorted(fs)[i].data, Sorted(fs)[j].data)
  <1>1. /\ Sorted(fs)[i] \in fs /\ Sorted(fs)[j] \in fs /\ FileBefore(Sorted(fs)[i], Sorted(fs)[j])
        /\ Sorted(fs)[i] # Sorted(fs)[j]
    BY SortedIs, Zenon
  <1> QED
    BY <1>1, ApartBefore, Zenon
-----------------------------------------------------------------------------
\* The binary search.

Halve(fs, target, w) ==
    LET mid == (w.left + w.right) \div 2
    IN  IF w.left >= w.right THEN w
        ELSE IF Before(Largest(fs[mid + 1]), target)
             THEN [w EXCEPT !.left = mid + 1] ELSE [w EXCEPT !.right = mid]

Windows(n) == {w \in [left : 0 .. n, right : 0 .. n] : w.left <= w.right}

LEMMA HalveIn ==
    ASSUME NEW fs, NEW target, NEW n \in Nat, NEW w \in Windows(n), NEW h, h = Halve(fs, target, w)
    PROVE  /\ h \in Windows(n)
           /\ w.left = w.right => h = w
           /\ w.left # w.right => h.right - h.left < w.right - w.left
           /\ \/ h.left = w.left
              \/ h.left \in 1 .. n /\ Before(Largest(fs[h.left]), target)
  <1> DEFINE mid == (w.left + w.right) \div 2
             before == Before(Largest(fs[mid + 1]), target)
  <1>1. w.left \in 0 .. n /\ w.right \in 0 .. n /\ w.left <= w.right
        /\ w = [left |-> w.left, right |-> w.right]
    BY DEF Windows
  <1>2. h = IF w.left >= w.right THEN w
            ELSE IF before THEN [w EXCEPT !.left = mid + 1] ELSE [w EXCEPT !.right = mid]
    BY Zenon DEF Halve
  <1>3. w.left # w.right => mid \in Nat /\ w.left <= mid /\ mid < w.right
    BY <1>1
  <1> HIDE DEF mid
  <1>4. CASE w.left = w.right
    <2>1. h = w
      BY <1>1, <1>2, <1>4
    <2> QED
      BY <1>4, <2>1
  <1>5. CASE w.left # w.right /\ before
    <2>1. h = [w EXCEPT !.left = mid + 1]
      BY <1>1, <1>2, <1>5
    <2>2. h = [left |-> mid + 1, right |-> w.right]
      BY <1>1, <2>1
    <2>3. h.left = mid + 1 /\ h.right = w.right
      BY <2>2
    <2>4. mid + 1 \in 1 .. n /\ mid + 1 <= w.right /\ mid + 1 \in 0 .. n
          /\ w.right - (mid + 1) < w.right - w.left
      BY <1>1, <1>3, <1>5
    <2>5. h \in Windows(n)
      BY <1>1, <2>2, <2>4 DEF Windows
    <2> QED
      BY <1>5, <2>3, <2>4, <2>5, Zenon
  <1>6. CASE w.left # w.right /\ ~before
    <2>1. h = [w EXCEPT !.right = mid]
      BY <1>1, <1>2, <1>6
    <2>2. h = [left |-> w.left, right |-> mid]
      BY <1>1, <2>1
    <2>3. h.left = w.left /\ h.right = mid
      BY <2>2
    <2>4. w.left <= mid /\ mid \in 0 .. n /\ mid - w.left < w.right - w.left
      BY <1>1, <1>3, <1>6
    <2>5. h \in Windows(n)
      BY <1>1, <2>2, <2>4 DEF Windows
    <2> QED
      BY <1>6, <2>3, <2>4, <2>5, Zenon
  <1> QED
    BY <1>4, <1>5, <1>6, Zenon

\* The largest keys of the files ascend past the target.
Ascend(fs, target) ==
    \A i, j \in 1 .. Len(fs) :
        i < j /\ Before(Largest(fs[j]), target) => Before(Largest(fs[i]), target)

LEMMA FindFileIs ==
    ASSUME NEW fs, Len(fs) \in Nat, NEW target
    PROVE  /\ FindFile(fs, target) \in 0 .. Len(fs)
           /\ Ascend(fs, target) =>
                  \A i \in 1 .. Len(fs) : i <= FindFile(fs, target) => Before(Largest(fs[i]), target)
  <1> DEFINE n == Len(fs)
             a == [left |-> 0, right |-> n]
             W == Windows(n)
             step == [k \in 1 .. n |-> [w \in W |-> Halve(fs, target, w)]]
             Searches(f) == f = [i \in 0 .. n |-> IF i = 0 THEN a ELSE Halve(fs, target, f[i - 1])]
             s == CHOOSE f : Searches(f)
             behind(m) == \A i \in 1 .. n : i <= m => Before(Largest(fs[i]), target)
             P == {i \in 0 .. n : /\ s[i] \in W
                                  /\ s[i].left = s[i].right \/ s[i].right - s[i].left <= n - i
                                  /\ Ascend(fs, target) => behind(s[i].left)}
  <1>1. FindFile(fs, target) = s[n].right
    BY Zenon DEF FindFile, Halve
  <1>2. a \in W /\ a.left = 0 /\ a.right = n
    BY DEF Windows
  <1>3. \A w \in W : Halve(fs, target, w) \in W
    BY HalveIn, Zenon
  <1>4. \A k \in 1 .. n : \A w \in W : step[k][w] = Halve(fs, target, w)
    BY Zenon
  <1> HIDE DEF W, step, a
  <1>5. PICK f \in [0 .. n -> W] : Follows(f, n, a, step)
    <2>1. a \in W /\ n \in Nat /\ \A k \in 1 .. n : \A w \in W : step[k][w] \in W
      BY <1>2, <1>3, <1>4, Zenon
    <2> HIDE DEF n
    <2> QED
      BY <2>1, RecursFacts, Zenon
  <1>6. Searches(f)
    <2>1. ASSUME NEW k \in 0 .. n PROVE f[k] = IF k = 0 THEN a ELSE Halve(fs, target, f[k - 1])
      <3>1. k # 0 => k \in 1 .. n /\ k - 1 \in 0 .. n
        OBVIOUS
      <3> QED
        BY <1>4, <1>5, <3>1, Zenon DEF Follows
    <2> QED
      BY <1>5, <2>1 DEF Follows
  <1>7. Searches(s)
    BY <1>6, Zenon
  <1>8. s[0] = a /\ \A k \in 1 .. n : s[k] = Halve(fs, target, s[k - 1])
    <2>1. \A k \in 0 .. n : s[k] = IF k = 0 THEN a ELSE Halve(fs, target, s[k - 1])
      BY <1>7, Zenon
    <2>2. 0 \in 0 .. n /\ \A k \in 1 .. n : k \in 0 .. n /\ k # 0
      OBVIOUS
    <2> QED
      BY <2>1, <2>2, Zenon
  <1> HIDE DEF s, n
  <1>9. n \in Nat
    BY DEF n
  <1>10. 0 \in P
    <2>1. n - 0 <= n - 0 /\ 0 \in 0 .. n
      BY <1>9
    <2>2. behind(0)
      BY <1>9
    <2> QED
      BY <1>2, <1>8, <2>1, <2>2, Zenon
  <1>11. ASSUME NEW k \in 1 .. n, k - 1 \in P PROVE k \in P
    <2> DEFINE w == s[k - 1]
               h == s[k]
    <2>1. w \in W /\ (w.left = w.right \/ w.right - w.left <= n - (k - 1))
          /\ (Ascend(fs, target) => behind(w.left))
      BY <1>11, Zenon
    <2>2. h = Halve(fs, target, w)
      BY <1>8, Zenon
    <2> HIDE DEF w, h
    <2>3. /\ h \in W
          /\ w.left = w.right => h = w
          /\ w.left # w.right => h.right - h.left < w.right - w.left
          /\ h.left = w.left \/ (h.left \in 1 .. n /\ Before(Largest(fs[h.left]), target))
      <3>1. w \in Windows(n)
        BY <2>1, Zenon DEF W
      <3> QED
        BY <1>9, <2>2, <3>1, HalveIn, Zenon DEF W
    <2>4. w.left \in Nat /\ w.right \in Nat /\ h.left \in Nat /\ h.right \in Nat
      BY <1>9, <2>1, <2>3 DEF W, Windows
    <2>5. h.left = h.right \/ h.right - h.left <= n - k
      <3>1. n - (k - 1) = n - k + 1 /\ n - k \in Int
        BY <1>9
      <3>2. CASE w.left = w.right
        BY <2>1, <2>3, <3>2, Zenon
      <3>3. CASE w.left # w.right
        <4>1. w.right - w.left <= n - k + 1 /\ h.right - h.left < w.right - w.left
          BY <2>1, <2>3, <3>1, <3>3, Zenon
        <4> QED
          BY <2>4, <3>1, <4>1
      <3> QED
        BY <3>2, <3>3, Zenon
    <2>6. ASSUME Ascend(fs, target) PROVE behind(h.left)
      <3>1. CASE h.left = w.left
        BY <2>1, <2>6, <3>1, Zenon
      <3>2. CASE h.left \in 1 .. n /\ Before(Largest(fs[h.left]), target)
        <4>1. \A i \in 1 .. n : i <= h.left => i = h.left \/ i < h.left
          BY <1>9, <2>4
        <4>2. \A i, j \in 1 .. n : i < j /\ Before(Largest(fs[j]), target) => Before(Largest(fs[i]), target)
          BY <2>6, Zenon DEF Ascend, n
        <4> QED
          BY <3>2, <4>1, <4>2, Zenon
      <3> QED
        BY <2>3, <3>1, <3>2, Zenon
    <2>7. k \in 0 .. n
      BY <1>9
    <2> QED
      BY <2>3, <2>5, <2>6, <2>7, Zenon DEF h
  <1>12. n \in P
    <2>1. \A k \in 0 .. n : k \in P
      <3> HIDE DEF P
      <3> QED
        BY <1>9, <1>10, <1>11, Steps, Zenon
    <2>2. n \in 0 .. n
      BY <1>9
    <2> QED
      BY <2>1, <2>2, Zenon
  <1> DEFINE w == s[n]
  <1>13. w \in W /\ (w.left = w.right \/ w.right - w.left <= n - n) /\ (Ascend(fs, target) => behind(w.left))
    BY <1>12, Zenon
  <1> HIDE DEF w
  <1>14. w.left \in 0 .. n /\ w.right \in 0 .. n /\ w.left <= w.right
    BY <1>13 DEF W, Windows
  <1>15. w.left = w.right
    BY <1>9, <1>13, <1>14
  <1>16. w.right \in 0 .. n /\ (Ascend(fs, target) => behind(w.right))
    BY <1>13, <1>14, <1>15, Zenon
  <1> QED
    BY <1>1, <1>16, Zenon DEF w, n
-----------------------------------------------------------------------------
\* Overlaps.

Spans(f, k) == Smallest(f).key <= k /\ k <= Largest(f).key
Overlaps(f, lo, hi) == Smallest(f).key <= hi /\ lo <= Largest(f).key

LEMMA OverlapsIs ==
    ASSUME NEW fs, FilesOK(fs), NEW f \in fs, NEW lo \in Nat, NEW hi \in Nat
    PROVE  ~AfterFile(lo, f) /\ ~BeforeFile(hi, f) <=> Overlaps(f, lo, hi)
  <1>1. Smallest(f).key \in Nat /\ Largest(f).key \in Nat
    BY FileEnds, Zenon
  <1> QED
    BY <1>1 DEF AfterFile, BeforeFile, Overlaps

LEMMA LookupBefore ==
    ASSUME NEW e \in Entry, NEW k \in Nat
    PROVE  Before(e, LookupKey(k, MaxSequenceNumber)) <=> e.key < k
  <1>1. LookupKey(k, MaxSequenceNumber).key = k /\ LookupKey(k, MaxSequenceNumber).seq = MaxSequenceNumber
    BY DEF LookupKey
  <1>2. e.seq \in Nat /\ e.seq < MaxSequenceNumber /\ e.key \in Nat /\ MaxSequenceNumber \in Nat
    BY EntryFields, Constants, Zenon
  <1> HIDE DEF MaxSequenceNumber
  <1> QED
    BY <1>1, <1>2 DEF Before

LEMMA NoOverlap ==
    ASSUME NEW fs, FilesOK(fs), NEW disjoint, disjoint => Apart(fs), NEW lo \in Nat, NEW hi \in Nat,
           ~SomeFileOverlapsRange(disjoint, fs, lo, hi)
    PROVE  \A f \in fs : ~Overlaps(f, lo, hi)
  <1> SUFFICES ASSUME NEW f \in fs, Overlaps(f, lo, hi) PROVE FALSE
    OBVIOUS
  <1>1. CASE ~disjoint
    BY <1>1, OverlapsIs, Zenon DEF SomeFileOverlapsRange
  <1>2. CASE disjoint
    <2> DEFINE s == Sorted(fs)
               target == LookupKey(lo, MaxSequenceNumber)
               x == FindFile(s, target)
               n == Cardinality(fs)
    <2>1. ~(x < Len(s) /\ ~BeforeFile(hi, s[x + 1]))
      BY <1>2, Zenon DEF SomeFileOverlapsRange
    <2>2. Len(s) = n /\ n \in Nat /\ \A i \in 1 .. n : s[i] \in fs
      BY SortedIs, Zenon
    <2>3. PICK i \in 1 .. n : s[i] = f
      BY SortedIs, Zenon
    <2>4. \A g \in fs : Before(Largest(g), target) <=> Largest(g).key < lo
      BY LookupBefore, FileEnds, Zenon
    <2>5. \A j, k \in 1 .. n : j < k => Ahead(s[j].data, s[k].data)
      BY <1>2, SortedApart, Zenon
    <2> HIDE DEF s, target, n
    <2>6. Ascend(s, target)
      <3> SUFFICES ASSUME NEW j \in 1 .. n, NEW k \in 1 .. n, j < k, Before(Largest(s[k]), target)
                   PROVE  Before(Largest(s[j]), target)
        BY <2>2, Zenon DEF Ascend
      <3>1. s[j] \in fs /\ s[k] \in fs /\ Ahead(s[j].data, s[k].data)
        BY <2>2, <2>5, Zenon
      <3>2. Largest(s[j]) \in Entry /\ Largest(s[k]) \in Entry /\ Before(Largest(s[j]), Largest(s[k]))
            /\ Largest(s[j]).key \in Nat /\ Largest(s[k]).key \in Nat
        BY <3>1, AheadEnds, FileEnds, Zenon
      <3>3. Largest(s[j]).key <= Largest(s[k]).key
        BY <3>2, BeforeKeys, Zenon
      <3>4. Largest(s[k]).key < lo
        BY <2>4, <3>1, Zenon
      <3>5. Largest(s[j]).key < lo
        BY <3>2, <3>3, <3>4
      <3> QED
        BY <2>4, <3>1, <3>5, Zenon
    <2>7. x \in 0 .. n /\ \A j \in 1 .. n : j <= x => Before(Largest(s[j]), target)
      BY <2>2, <2>6, FindFileIs, Zenon
    <2> HIDE DEF x
    <2>8. ~(i <= x)
      <3> SUFFICES ASSUME i <= x PROVE FALSE
        BY Zenon
      <3>1. Largest(f).key < lo
        BY <2>3, <2>4, <2>7, Zenon
      <3>2. Largest(f).key \in Nat /\ lo <= Largest(f).key
        BY FileEnds, Zenon DEF Overlaps
      <3> QED
        BY <3>1, <3>2
    <2>9. x < n /\ x + 1 \in 1 .. n /\ (x + 1 = i \/ x + 1 < i)
      BY <2>2, <2>7, <2>8
    <2> DEFINE h == s[x + 1]
    <2>10. h \in fs /\ (h = f \/ Ahead(h.data, f.data))
      BY <2>2, <2>3, <2>5, <2>9, Zenon
    <2>11. BeforeFile(hi, h)
      BY <2>1, <2>2, <2>9, Zenon
    <2> HIDE DEF h
    <2>12. Smallest(h).key \in Nat /\ Smallest(f).key \in Nat /\ Smallest(h).key <= Smallest(f).key
      <3>1. Smallest(h) \in Entry /\ Smallest(f) \in Entry /\ Smallest(h).key \in Nat
            /\ Smallest(f).key \in Nat
        BY <2>10, FileEnds, Zenon
      <3>2. h = f \/ Before(Smallest(h), Smallest(f))
        BY <2>10, AheadEnds, Zenon
      <3>3. h = f \/ Smallest(h).key <= Smallest(f).key
        BY <3>1, <3>2, BeforeKeys, Zenon
      <3> QED
        BY <3>1, <3>3
    <2>13. Smallest(f).key <= hi
      BY Zenon DEF Overlaps
    <2> QED
      BY <2>11, <2>12, <2>13 DEF BeforeFile
  <1> QED
    BY <1>1, <1>2

\* The files of a version.
AllOf(v) == UNION {KeysOf(v[l]) : l \in Levels}
VersionOK(v) ==
    /\ v \in [Levels -> SUBSET File] /\ \A l \in Levels : FilesOK(v[l])
    /\ Unique(AllOf(v))
    /\ \A l, m \in Levels : \A f \in v[l], g \in v[m] : f.number = g.number => l = m

LEMMA LevelsAre == 0 \in Levels /\ Levels \subseteq Nat /\ \A l \in Levels : l < NumLevels
  BY Constants DEF Levels

\* A memtable goes past levels where nothing overlaps it.
LEMMA PickedLevel ==
    ASSUME NEW v, VersionOK(v), NEW lo \in Nat, NEW hi \in Nat,
           NEW t, t = PickLevelForMemTableOutput(v, lo, hi)
    PROVE  /\ t \in Levels
           /\ (\A l \in Levels \ {0} : Apart(v[l])) /\ t # 0 =>
                  \A l \in 0 .. t : l \in Levels /\ \A f \in v[l] : ~Overlaps(f, lo, hi)
  <1> DEFINE mayPush(l) ==
                 /\ l < MaxMemCompactLevel
                 /\ ~OverlapInLevel(v, l + 1, lo, hi)
                 /\ l + 2 < NumLevels =>
                        TotalFileSize(GetOverlappingInputs(v, l + 2, lo, hi))
                            <= MaxGrandParentOverlapBytes
             S == {l \in 0 .. MaxMemCompactLevel : ~mayPush(l)}
  <1>1. t = IF OverlapInLevel(v, 0, lo, hi) THEN 0 ELSE Min(S)
    BY Zenon DEF PickLevelForMemTableOutput
  <1>2. MaxMemCompactLevel \in S /\ S \subseteq 0 .. MaxMemCompactLevel
    <2>1. MaxMemCompactLevel \in 0 .. MaxMemCompactLevel /\ ~(MaxMemCompactLevel < MaxMemCompactLevel)
      BY Constants
    <2>2. ~mayPush(MaxMemCompactLevel)
      BY <2>1, Zenon
    <2> QED
      BY <2>1, <2>2, Zenon
  <1>3. \A l \in 0 .. MaxMemCompactLevel : l \notin S => ~OverlapInLevel(v, l + 1, lo, hi)
    BY Zenon
  <1> HIDE DEF S
  <1>4. Min(S) \in S /\ \A x \in S : Min(S) <= x
    <2>1. S \subseteq Nat /\ S # {}
      BY <1>2
    <2> QED
      BY <2>1, MinIn, Zenon
  <1>5. t \in 0 .. MaxMemCompactLevel /\ t \in Levels
    BY <1>1, <1>2, <1>4, Constants, LevelsAre DEF Levels
  <1>6. ASSUME \A l \in Levels \ {0} : Apart(v[l]), t # 0, NEW l \in 0 .. t
        PROVE  l \in Levels /\ \A f \in v[l] : ~Overlaps(f, lo, hi)
    <2>1. l \in Levels
      BY <1>5, Constants DEF Levels
    <2>2. FilesOK(v[l]) /\ (l > 0 => Apart(v[l]))
      <3>1. l > 0 => l # 0
        OBVIOUS
      <3> QED
        BY <1>6, <2>1, <3>1, Zenon DEF VersionOK
    <2>3. ~OverlapInLevel(v, l, lo, hi)
      <3>1. CASE l = 0
        BY <1>1, <1>6, <3>1, Zenon
      <3>2. CASE l # 0
        <4>1. t = Min(S)
          BY <1>1, <1>6, Zenon
        <4>2. l - 1 \in 0 .. MaxMemCompactLevel /\ ~(t <= l - 1) /\ (l - 1) + 1 = l
          BY <1>5, <3>2, Constants
        <4>3. l - 1 \notin S
          BY <1>4, <4>1, <4>2, Zenon
        <4> QED
          BY <1>3, <4>2, <4>3, Zenon
      <3> QED
        BY <3>1, <3>2
    <2>4. ~SomeFileOverlapsRange(l > 0, v[l], lo, hi)
      BY <2>3, Zenon DEF OverlapInLevel
    <2>5. PICK d : d = (l > 0)
      BY Zenon
    <2>6. \A f \in v[l] : ~Overlaps(f, lo, hi)
      BY <2>2, <2>4, <2>5, NoOverlap, Zenon
    <2> QED
      BY <2>1, <2>6, Zenon
  <1> QED
    BY <1>5, <1>6, Zenon
-----------------------------------------------------------------------------
\* The files that overlap a range.

LEMMA MaxIn ==
    ASSUME NEW S, NEW b \in Nat, S \subseteq 0 .. b, S # {}
    PROVE  Max(S) \in S /\ \A x \in S : x <= Max(S)
  <1> DEFINE U == {u \in Nat : \A x \in S : x <= u}
  <1>1. b \in U
    OBVIOUS
  <1>2. PICK u \in U : \A v \in U : u <= v
    <2>1. U \subseteq Nat /\ U # {}
      BY <1>1
    <2> HIDE DEF U
    <2> QED
      BY <2>1, LeastOf
  <1>3. u \in S
    <2> SUFFICES ASSUME u \notin S PROVE FALSE
      OBVIOUS
    <2>1. \A x \in S : x <= u - 1 /\ x >= 0 /\ x \in Nat
      OBVIOUS
    <2>2. u - 1 \in Nat
      <3>1. PICK x \in S : TRUE
        OBVIOUS
      <3> QED
        BY <2>1, <3>1
    <2>3. u - 1 \in U
      BY <2>1, <2>2
    <2>4. u <= u - 1 /\ u \in Nat
      BY <1>2, <2>3
    <2> QED
      BY <2>4
  <1>4. \A y \in S : u >= y
    BY <1>2
  <1>5. Max(S) \in S /\ \A y \in S : Max(S) >= y
    BY <1>3, <1>4, Zenon DEF Max
  <1>6. \A y \in S : y \in Nat
    OBVIOUS
  <1> HIDE DEF U
  <1> QED
    BY <1>5, <1>6

Within(fs, r) == {f \in fs : ~AfterFile(r[1], f) /\ ~BeforeFile(r[2], f)}
Widen(fs, r) ==
    LET w == Within(fs, r)
    IN  <<Min({r[1]} \cup {Smallest(f).key : f \in w}), Max({r[2]} \cup {Largest(f).key : f \in w})>>

LEMMA WithinIs ==
    ASSUME NEW fs, FilesOK(fs), NEW r \in Nat \X Nat
    PROVE  /\ Within(fs, r) \subseteq fs
           /\ \A f \in fs : f \in Within(fs, r) <=> Overlaps(f, r[1], r[2])
  <1>1. r[1] \in Nat /\ r[2] \in Nat
    OBVIOUS
  <1> QED
    BY <1>1, OverlapsIs, Zenon DEF Within

\* The ends of q are those of r or of a file found.
EndsOf(q, r, W) == /\ q[1] = r[1] \/ \E f \in W : q[1] = Smallest(f).key
                   /\ q[2] = r[2] \/ \E f \in W : q[2] = Largest(f).key

LEMMA WidenIs ==
    ASSUME NEW fs, FilesOK(fs), NEW r \in Nat \X Nat, NEW q, q = Widen(fs, r)
    PROVE  /\ q \in Nat \X Nat /\ q[1] <= r[1] /\ r[2] <= q[2]
           /\ \A f \in Within(fs, r) : q[1] <= Smallest(f).key /\ Largest(f).key <= q[2]
           /\ EndsOf(q, r, Within(fs, r))
  <1> DEFINE w == Within(fs, r)
             A == {r[1]} \cup {Smallest(f).key : f \in w}
             B == {r[2]} \cup {Largest(f).key : f \in w}
  <1>1. q = <<Min(A), Max(B)>>
    BY Zenon DEF Widen
  <1>2. \A f \in w : /\ Smallest(f).key \in Nat /\ Largest(f).key \in Nat
                     /\ Largest(f).key <= MaxKey
    <2> SUFFICES ASSUME NEW f \in w
                 PROVE  Smallest(f).key \in Nat /\ Largest(f).key \in Nat /\ Largest(f).key <= MaxKey
      OBVIOUS
    <2>1. f \in fs
      BY WithinIs, Zenon
    <2>2. Smallest(f).key \in Nat /\ Largest(f).key \in Nat /\ Largest(f) \in Entry
      BY <2>1, FileEnds, Zenon
    <2>3. Largest(f).key \in Keys
      BY <2>2, EntryFields, Zenon
    <2> QED
      BY <2>2, <2>3, Constants DEF Keys
  <1>3. r[1] \in Nat /\ r[2] \in Nat
    OBVIOUS
  <1> HIDE DEF w
  <1>4. A \subseteq Nat /\ A # {}
    BY <1>2, <1>3
  <1>5. PICK b \in Nat : B \subseteq 0 .. b
    <2>1. CASE r[2] <= MaxKey
      <3>1. B \subseteq 0 .. MaxKey
        BY <1>2, <1>3, <2>1, Constants
      <3> QED
        BY <3>1, Constants, Zenon
    <2>2. CASE ~(r[2] <= MaxKey)
      <3>1. B \subseteq 0 .. r[2]
        BY <1>2, <1>3, <2>2, Constants
      <3> QED
        BY <1>3, <3>1, Zenon
    <2> QED
      BY <2>1, <2>2
  <1>6. B # {} /\ B \subseteq Nat
    BY <1>2, <1>3
  <1> DEFINE x == Min(A)
             y == Max(B)
  <1>7. x \in A /\ \A z \in A : x <= z
    <2> HIDE DEF A
    <2> QED
      BY <1>4, MinIn, Zenon
  <1>8. y \in B /\ \A z \in B : z <= y
    <2> HIDE DEF B
    <2> QED
      BY <1>5, <1>6, MaxIn, Zenon
  <1>9. q[1] = x /\ q[2] = y /\ q = <<x, y>>
    BY <1>1
  <1> HIDE DEF x, y
  <1>10. x \in Nat /\ y \in Nat
    BY <1>4, <1>6, <1>7, <1>8, Zenon
  <1>11. q \in Nat \X Nat
    BY <1>9, <1>10
  <1>12. r[1] \in A /\ r[2] \in B
    BY Zenon
  <1>13. \A f \in w : Smallest(f).key \in A /\ Largest(f).key \in B
    BY Zenon
  <1>14. (x = r[1] \/ \E f \in w : x = Smallest(f).key) /\ (y = r[2] \/ \E f \in w : y = Largest(f).key)
    BY <1>7, <1>8, Zenon
  <1> HIDE DEF A, B
  <1> QED
    BY <1>7, <1>8, <1>9, <1>11, <1>12, <1>13, <1>14, Zenon DEF w, EndsOf

\* One more round of the search in level 0 either widens the range or finds no other file.
LEMMA WidenMore ==
    ASSUME NEW fs, FilesOK(fs), NEW r \in Nat \X Nat, NEW q, q = Widen(fs, r)
    PROVE  /\ Within(fs, r) \subseteq Within(fs, q)
           /\ Within(fs, r) = Within(fs, q) =>
                  \A f \in Within(fs, q) : q[1] <= Smallest(f).key /\ Largest(f).key <= q[2]
  <1>1. q \in Nat \X Nat /\ q[1] <= r[1] /\ r[2] <= q[2]
        /\ \A f \in Within(fs, r) : q[1] <= Smallest(f).key /\ Largest(f).key <= q[2]
    BY WidenIs, Zenon
  <1>2. r[1] \in Nat /\ r[2] \in Nat /\ q[1] \in Nat /\ q[2] \in Nat
    BY <1>1
  <1>3. ASSUME NEW f \in Within(fs, r) PROVE f \in Within(fs, q)
    <2>1. f \in fs /\ Overlaps(f, r[1], r[2])
      BY WithinIs, Zenon
    <2>2. Smallest(f).key \in Nat /\ Largest(f).key \in Nat
      BY <2>1, FileEnds, Zenon
    <2>3. Overlaps(f, q[1], q[2])
      BY <1>1, <1>2, <2>1, <2>2 DEF Overlaps
    <2> QED
      BY <1>1, <2>1, <2>3, WithinIs, Zenon
  <1> QED
    BY <1>1, <1>3, Zenon

\* Every key between the ends of a range and of the files found for it is in the range, or a
\* file found spans it.
Reached(W, lo, hi) ==
    \A k \in Nat : /\ lo <= k \/ \E f \in W : Smallest(f).key <= k
                   /\ k <= hi \/ \E f \in W : k <= Largest(f).key
                   => (lo <= k /\ k <= hi) \/ \E f \in W : Spans(f, k)

Filled(W, a, b, lo, hi) ==
    \A k \in Nat : a <= k /\ k <= b => (lo <= k /\ k <= hi) \/ \E f \in W : Spans(f, k)

LEMMA FilledNext ==
    ASSUME NEW fs, FilesOK(fs), NEW r \in Nat \X Nat, NEW lo, NEW hi,
           Filled(Within(fs, r), r[1], r[2], lo, hi), NEW q, q = Widen(fs, r)
    PROVE  Filled(Within(fs, q), q[1], q[2], lo, hi)
  <1>1. q \in Nat \X Nat /\ Within(fs, r) \subseteq Within(fs, q)
    BY WidenIs, WidenMore, Zenon
  <1>2. r[1] \in Nat /\ r[2] \in Nat /\ q[1] \in Nat /\ q[2] \in Nat
    BY <1>1
  <1>6. EndsOf(q, r, Within(fs, r))
    BY WidenIs, Zenon
  <1> SUFFICES ASSUME NEW k \in Nat, q[1] <= k, k <= q[2]
               PROVE  (lo <= k /\ k <= hi) \/ \E f \in Within(fs, q) : Spans(f, k)
    BY Zenon DEF Filled
  <1>3. CASE r[1] <= k /\ k <= r[2]
    BY <1>1, <1>3, Zenon DEF Filled
  <1>4. CASE ~(r[1] <= k)
    <2>1. q[1] # r[1]
      BY <1>2, <1>4
    <2>2. PICK f \in Within(fs, r) : q[1] = Smallest(f).key
      BY <1>6, <2>1, Zenon DEF EndsOf
    <2>3. f \in fs /\ Overlaps(f, r[1], r[2])
      BY WithinIs, Zenon
    <2>4. Smallest(f).key \in Nat /\ Largest(f).key \in Nat
      BY <2>3, FileEnds, Zenon
    <2>5. Spans(f, k)
      BY <1>2, <1>4, <2>2, <2>3, <2>4 DEF Overlaps, Spans
    <2> QED
      BY <1>1, <2>5, Zenon
  <1>5. CASE ~(k <= r[2])
    <2>1. q[2] # r[2]
      BY <1>2, <1>5
    <2>2. PICK f \in Within(fs, r) : q[2] = Largest(f).key
      BY <1>6, <2>1, Zenon DEF EndsOf
    <2>3. f \in fs /\ Overlaps(f, r[1], r[2])
      BY WithinIs, Zenon
    <2>4. Smallest(f).key \in Nat /\ Largest(f).key \in Nat
      BY <2>3, FileEnds, Zenon
    <2>5. Spans(f, k)
      BY <1>2, <1>5, <2>2, <2>3, <2>4 DEF Overlaps, Spans
    <2> QED
      BY <1>1, <2>5, Zenon
  <1> QED
    BY <1>3, <1>4, <1>5

LEMMA ReachedFrom ==
    ASSUME NEW fs, FilesOK(fs), NEW r \in Nat \X Nat, NEW lo \in Nat, NEW hi \in Nat,
           r[1] <= lo, hi <= r[2], Filled(Within(fs, r), r[1], r[2], lo, hi)
    PROVE  Reached(Within(fs, r), lo, hi)
  <1> DEFINE W == Within(fs, r)
  <1> SUFFICES ASSUME NEW k \in Nat, lo <= k \/ \E f \in W : Smallest(f).key <= k,
                      k <= hi \/ \E f \in W : k <= Largest(f).key
               PROVE  (lo <= k /\ k <= hi) \/ \E f \in W : Spans(f, k)
    BY Zenon DEF Reached
  <1>1. r[1] \in Nat /\ r[2] \in Nat
    OBVIOUS
  <1>2. \A f \in W : /\ Smallest(f).key <= r[2] /\ r[1] <= Largest(f).key
                     /\ Smallest(f).key \in Nat /\ Largest(f).key \in Nat
    BY WithinIs, FileEnds, Zenon DEF Overlaps
  <1>3. CASE r[1] <= k /\ k <= r[2]
    BY <1>3, Zenon DEF Filled
  <1> HIDE DEF W
  <1>4. CASE ~(r[1] <= k)
    <2>1. ~(lo <= k)
      BY <1>1, <1>4
    <2>2. PICK f \in W : Smallest(f).key <= k
      BY <2>1, Zenon
    <2>3. Spans(f, k)
      BY <1>1, <1>2, <1>4, <2>2 DEF Spans
    <2> QED
      BY <2>3, Zenon
  <1>5. CASE ~(k <= r[2])
    <2>1. ~(k <= hi)
      BY <1>1, <1>5
    <2>2. PICK f \in W : k <= Largest(f).key
      BY <2>1, Zenon
    <2>3. Spans(f, k)
      BY <1>1, <1>2, <1>5, <2>2 DEF Spans
    <2> QED
      BY <2>3, Zenon
  <1> QED
    BY <1>3, <1>4, <1>5

\* The range found for level 0 holds its files, or they are all there are.
Closed(fs, r) ==
    \/ Within(fs, r) = fs
    \/ \A f \in Within(fs, r) : r[1] <= Smallest(f).key /\ Largest(f).key <= r[2]

LEMMA SmallerPart ==
    ASSUME NEW S, IsFiniteSet(S), NEW T, T \subseteq S
    PROVE  /\ Cardinality(T) \in Nat /\ Cardinality(S) \in Nat
           /\ T # S => Cardinality(T) < Cardinality(S)
  <1>1. Cardinality(T) <= Cardinality(S) /\ (Cardinality(T) = Cardinality(S) => T = S)
        /\ IsFiniteSet(T)
    BY FS_Subset
  <1>2. Cardinality(T) \in Nat /\ Cardinality(S) \in Nat
    BY <1>1, FS_CardinalityType, Zenon
  <1> QED
    BY <1>1, <1>2

\* The ranges of GetOverlappingInputs.
Ranges(fs, lo, hi, s, n) ==
    s = [i \in 0 .. n |-> IF i = 0 THEN <<lo, hi>> ELSE Widen(fs, s[i - 1])]

Wide(fs, lo, hi, r) ==
    /\ r \in Nat \X Nat /\ r[1] <= lo /\ hi <= r[2]
    /\ Filled(Within(fs, r), r[1], r[2], lo, hi)

LEMMA WideFirst ==
    ASSUME NEW fs, NEW lo \in Nat, NEW hi \in Nat PROVE Wide(fs, lo, hi, <<lo, hi>>)
  BY DEF Wide, Filled

LEMMA WideNext ==
    ASSUME NEW fs, FilesOK(fs), NEW lo \in Nat, NEW hi \in Nat, NEW r, Wide(fs, lo, hi, r)
    PROVE  Wide(fs, lo, hi, Widen(fs, r))
  <1> DEFINE q == Widen(fs, r)
  <1>1. r \in Nat \X Nat /\ r[1] <= lo /\ hi <= r[2] /\ Filled(Within(fs, r), r[1], r[2], lo, hi)
    BY Zenon DEF Wide
  <1>2. q \in Nat \X Nat /\ q[1] <= r[1] /\ r[2] <= q[2]
    BY <1>1, WidenIs, Zenon
  <1>3. Filled(Within(fs, q), q[1], q[2], lo, hi)
    BY <1>1, FilledNext, Zenon
  <1> HIDE DEF q
  <1>4. q[1] <= lo /\ hi <= q[2]
    BY <1>1, <1>2
  <1> QED
    BY <1>2, <1>3, <1>4, Zenon DEF Wide, q

\* Each round ends the search or finds another file.
LEMMA ClosedNext ==
    ASSUME NEW fs, FilesOK(fs), NEW r \in Nat \X Nat, NEW k \in Nat,
           Closed(fs, r) \/ Cardinality(Within(fs, r)) >= k, NEW q, q = Widen(fs, r)
    PROVE  Closed(fs, q) \/ Cardinality(Within(fs, q)) >= k + 1
  <1> DEFINE A == Within(fs, r)
             B == Within(fs, q)
             in(p, W) == \A f \in W : p[1] <= Smallest(f).key /\ Largest(f).key <= p[2]
  <1>1. q \in Nat \X Nat /\ q[1] <= r[1] /\ r[2] <= q[2] /\ EndsOf(q, r, A)
    BY WidenIs, Zenon
  <1>2. A \subseteq B /\ (A = B => in(q, B))
    BY WidenMore, Zenon
  <1>3. A \subseteq fs /\ B \subseteq fs
    BY <1>1, WithinIs, Zenon
  <1>4. IsFiniteSet(A) /\ IsFiniteSet(B)
    BY <1>3, FS_Subset, Zenon DEF FilesOK
  <1>5. Cardinality(A) \in Nat /\ Cardinality(B) \in Nat
        /\ (A # B => Cardinality(A) < Cardinality(B))
    BY <1>2, <1>4, SmallerPart, Zenon
  <1>6. CASE A = fs
    <2>1. B = fs
      BY <1>2, <1>3, <1>6, Zenon
    <2> QED
      BY <2>1, Zenon DEF Closed
  <1>7. CASE in(r, A)
    <2>1. r[1] \in Nat /\ r[2] \in Nat /\ q[1] \in Nat /\ q[2] \in Nat
          /\ r = <<r[1], r[2]>> /\ q = <<q[1], q[2]>>
      BY <1>1
    <2>2. (q[1] = r[1] \/ r[1] <= q[1]) /\ (q[2] = r[2] \/ q[2] <= r[2])
      BY <1>1, <1>7, Zenon DEF EndsOf
    <2>3. q = r
      BY <1>1, <2>1, <2>2
    <2> QED
      BY <1>7, <2>3, Zenon DEF Closed
  <1>8. CASE Cardinality(A) >= k
    <2>1. CASE A = B
      BY <1>2, <2>1, Zenon DEF Closed
    <2>2. CASE A # B
      BY <1>5, <1>8, <2>2
    <2> QED
      BY <2>1, <2>2
  <1> QED
    BY <1>6, <1>7, <1>8, Zenon DEF Closed

LEMMA RangesEnd ==
    ASSUME NEW fs, FilesOK(fs), NEW lo \in Nat, NEW hi \in Nat, NEW n, n = Cardinality(fs),
           NEW s, Ranges(fs, lo, hi, s, n)
    PROVE  Wide(fs, lo, hi, s[n]) /\ Closed(fs, s[n])
  <1> DEFINE P == {i \in 0 .. n : /\ Wide(fs, lo, hi, s[i])
                                  /\ Closed(fs, s[i]) \/ Cardinality(Within(fs, s[i])) >= i}
  <1>1. n \in Nat
    BY FS_CardinalityType DEF FilesOK
  <1>2. \A i \in 0 .. n : s[i] = IF i = 0 THEN <<lo, hi>> ELSE Widen(fs, s[i - 1])
    BY Zenon DEF Ranges
  <1>3. s[0] = <<lo, hi>> /\ \A i \in 1 .. n : s[i] = Widen(fs, s[i - 1])
    <2>1. 0 \in 0 .. n /\ \A i \in 1 .. n : i \in 0 .. n /\ i # 0
      BY <1>1
    <2> QED
      BY <1>2, <2>1, Zenon
  <1>4. \A r : Wide(fs, lo, hi, r) => Cardinality(Within(fs, r)) \in Nat
    <2>1. \A r : Wide(fs, lo, hi, r) => Within(fs, r) \subseteq fs
      BY WithinIs, Zenon DEF Wide
    <2> QED
      BY <2>1, FS_Subset, FS_CardinalityType, Zenon DEF FilesOK
  <1>5. 0 \in P
    <2>1. Wide(fs, lo, hi, s[0])
      BY <1>3, WideFirst, Zenon
    <2>2. Cardinality(Within(fs, s[0])) >= 0 /\ 0 \in 0 .. n
      BY <1>1, <1>4, <2>1
    <2> QED
      BY <2>1, <2>2, Zenon
  <1>6. ASSUME NEW i \in 1 .. n, i - 1 \in P PROVE i \in P
    <2> DEFINE r == s[i - 1]
               q == s[i]
    <2>1. Wide(fs, lo, hi, r) /\ (Closed(fs, r) \/ Cardinality(Within(fs, r)) >= i - 1)
      BY <1>6, Zenon
    <2>2. q = Widen(fs, r)
      BY <1>3, Zenon
    <2>3. i - 1 \in Nat /\ (i - 1) + 1 = i /\ i \in 0 .. n
      BY <1>1
    <2> HIDE DEF q, r
    <2>4. r \in Nat \X Nat
      BY <2>1, Zenon DEF Wide
    <2>5. Wide(fs, lo, hi, q)
      BY <2>1, <2>2, WideNext, Zenon
    <2>6. PICK k \in Nat : k = i - 1
      BY <2>3, Zenon
    <2>7. Closed(fs, q) \/ Cardinality(Within(fs, q)) >= k + 1
      BY <2>1, <2>2, <2>4, <2>6, ClosedNext, Zenon
    <2> QED
      BY <2>3, <2>5, <2>6, <2>7, Zenon DEF q
  <1>7. n \in P
    <2>1. \A i \in 0 .. n : i \in P
      <3> HIDE DEF P
      <3> QED
        BY <1>1, <1>5, <1>6, Steps, Zenon
    <2>2. n \in 0 .. n
      BY <1>1
    <2> QED
      BY <2>1, <2>2, Zenon
  <1> DEFINE r == s[n]
             W == Within(fs, r)
  <1>8. Wide(fs, lo, hi, r) /\ (Closed(fs, r) \/ Cardinality(W) >= n)
    BY <1>7, Zenon
  <1>9. W \subseteq fs
    BY <1>8, WithinIs, Zenon DEF Wide
  <1>10. ASSUME Cardinality(W) >= n PROVE W = fs
    <2> SUFFICES ASSUME W # fs PROVE FALSE
      OBVIOUS
    <2>1. Cardinality(W) < n /\ Cardinality(W) \in Nat
      BY <1>9, SmallerPart, Zenon DEF FilesOK
    <2> QED
      BY <1>1, <1>10, <2>1
  <1> QED
    BY <1>8, <1>10, Zenon DEF Closed

InputsOf(W, fs, level, lo, hi) ==
    /\ W \subseteq fs
    /\ \A f \in fs : Overlaps(f, lo, hi) => f \in W
    /\ Reached(W, lo, hi)
    /\ level # 0 => \A f \in W : Overlaps(f, lo, hi)
    /\ level = 0 => \A f \in W, g \in fs : Overlaps(g, Smallest(f).key, Largest(f).key) => g \in W

\* The files GetOverlappingInputs returns: all that overlap the range; in level 0 with each
\* file those that overlap it.
LEMMA InputsAre ==
    ASSUME NEW v, NEW level \in Nat, FilesOK(v[level]), NEW lo \in Nat, NEW hi \in Nat
    PROVE  InputsOf(GetOverlappingInputs(v, level, lo, hi), v[level], level, lo, hi)
  <1> DEFINE fs == v[level]
             n == Cardinality(fs)
             s == CHOOSE f : Ranges(fs, lo, hi, f, n)
             r == IF level = 0 THEN s[Cardinality(v[0])] ELSE <<lo, hi>>
             W == Within(fs, r)
             S == Nat \X Nat
             step == [k \in 1 .. n |-> [w \in S |-> Widen(fs, w)]]
             a == <<lo, hi>>
  <1>1. GetOverlappingInputs(v, level, lo, hi) = W
    BY Zenon DEF GetOverlappingInputs, Widen, Within, Ranges
  <1>2. a \in S
    OBVIOUS
  <1>3. \A w \in S : Widen(fs, w) \in S
    BY WidenIs, Zenon
  <1>4. \A k \in 1 .. n : \A w \in S : step[k][w] = Widen(fs, w)
    BY Zenon
  <1>5. n \in Nat
    BY FS_CardinalityType, Zenon DEF FilesOK
  <1> HIDE DEF S, step, a
  <1>6. PICK f \in [0 .. n -> S] : Follows(f, n, a, step)
    <2>1. \A k \in 1 .. n : \A w \in S : step[k][w] \in S
      BY <1>3, <1>4, Zenon
    <2> HIDE DEF n
    <2> QED
      BY <1>2, <1>5, <2>1, RecursFacts, Zenon
  <1>7. Ranges(fs, lo, hi, f, n)
    <2>1. ASSUME NEW k \in 0 .. n PROVE f[k] = IF k = 0 THEN <<lo, hi>> ELSE Widen(fs, f[k - 1])
      <3>1. k # 0 => k \in 1 .. n /\ k - 1 \in 0 .. n
        BY <1>5
      <3> QED
        BY <1>4, <1>6, <3>1, Zenon DEF Follows, a
    <2>2. f = [k \in 0 .. n |-> f[k]]
      BY <1>6, Zenon DEF Follows
    <2> HIDE DEF n
    <2> QED
      BY <2>1, <2>2 DEF Ranges
  <1>8. Ranges(fs, lo, hi, s, n)
    BY <1>7, Zenon
  <1> HIDE DEF s
  <1>9. Wide(fs, lo, hi, r) /\ (level = 0 => Closed(fs, r))
    <2>1. CASE level = 0
      <3>1. r = s[n]
        BY <2>1, Zenon
      <3> QED
        BY <1>8, <3>1, RangesEnd, Zenon
    <2>2. CASE level # 0
      <3>1. r = <<lo, hi>>
        BY <2>2, Zenon
      <3> QED
        BY <2>2, <3>1, WideFirst, Zenon
    <2> QED
      BY <2>1, <2>2
  <1>10. level # 0 => r[1] = lo /\ r[2] = hi
    OBVIOUS
  <1> HIDE DEF r
  <1>11. r \in Nat \X Nat /\ r[1] <= lo /\ hi <= r[2] /\ Filled(W, r[1], r[2], lo, hi)
    BY <1>9, Zenon DEF Wide
  <1>12. r[1] \in Nat /\ r[2] \in Nat
    BY <1>11
  <1>13. W \subseteq fs /\ \A f1 \in fs : f1 \in W <=> Overlaps(f1, r[1], r[2])
    BY <1>11, WithinIs, Zenon
  <1>14. Reached(W, lo, hi)
    BY <1>11, ReachedFrom, Zenon
  <1>15. \A f1 \in fs : Smallest(f1).key \in Nat /\ Largest(f1).key \in Nat
    BY FileEnds, Zenon
  <1> HIDE DEF W, fs
  <1>16. \A f1 \in fs : Overlaps(f1, lo, hi) => Overlaps(f1, r[1], r[2])
    BY <1>11, <1>12, <1>15 DEF Overlaps
  <1>17. ASSUME level = 0, NEW f1 \in W, NEW g \in fs, Overlaps(g, Smallest(f1).key, Largest(f1).key)
         PROVE  g \in W
    <2>1. CASE W = fs
      BY <2>1, Zenon
    <2>2. CASE \A f2 \in W : r[1] <= Smallest(f2).key /\ Largest(f2).key <= r[2]
      <3>1. f1 \in fs /\ r[1] <= Smallest(f1).key /\ Largest(f1).key <= r[2]
        BY <1>13, <2>2, Zenon
      <3>2. Overlaps(g, r[1], r[2])
        BY <1>12, <1>15, <1>17, <3>1 DEF Overlaps
      <3> QED
        BY <1>13, <3>2, Zenon
    <2> QED
      BY <1>9, <1>17, <2>1, <2>2, Zenon DEF Closed, W
  <1>18. InputsOf(W, fs, level, lo, hi)
    BY <1>10, <1>13, <1>14, <1>16, <1>17, Zenon DEF InputsOf
  <1> QED
    BY <1>1, <1>18, Zenon DEF fs
-----------------------------------------------------------------------------
\* The inputs of a compaction end between two user keys.

Boundary(fs, last) == {f \in fs : Before(last, Smallest(f)) /\ Smallest(f).key = last.key}

\* One more file at the end of the inputs.
AddTo(fs, st) ==
    LET b == Boundary(fs, st.last)
        f == Sorted(b)[1]
    IN  IF b = {} THEN st ELSE [files |-> Append(st.files, f), last |-> Largest(f)]

Inputs(fs) == [files : Seq(fs), last : Entry]

\* st is followed by q.
Added(fs, st, q) ==
    \/ Boundary(fs, st.last) = {} /\ q = st
    \/ \E f \in Boundary(fs, st.last) :
          /\ ToSet(q.files) = ToSet(st.files) \cup {f} /\ q.last = Largest(f)
          /\ \A g \in Boundary(fs, st.last) : g = f \/ FileBefore(f, g)

LEMMA AppendSet ==
    ASSUME NEW S, NEW s \in Seq(S), NEW x \in S
    PROVE  Append(s, x) \in Seq(S) /\ ToSet(Append(s, x)) = ToSet(s) \cup {x}
  <1>1. Append(s, x) \in Seq(S) /\ Len(Append(s, x)) = Len(s) + 1 /\ Len(s) \in Nat
        /\ Append(s, x)[Len(s) + 1] = x /\ DOMAIN s = 1 .. Len(s)
        /\ DOMAIN Append(s, x) = 1 .. Len(s) + 1
        /\ \A i \in 1 .. Len(s) : Append(s, x)[i] = s[i]
    OBVIOUS
  <1> DEFINE t == Append(s, x)
             n == Len(s)
  <1> HIDE DEF t, n
  <1>2. n \in Nat /\ t[n + 1] = x /\ DOMAIN s = 1 .. n /\ DOMAIN t = 1 .. n + 1
        /\ \A i \in 1 .. n : t[i] = s[i]
    BY <1>1, Zenon DEF t, n
  <1>3. \A i \in 1 .. n + 1 : i = n + 1 \/ i \in 1 .. n
    BY <1>2
  <1>4. n + 1 \in 1 .. n + 1 /\ 1 .. n \subseteq 1 .. n + 1
    BY <1>2
  <1>5. ToSet(t) = ToSet(s) \cup {x}
    <2>1. ToSet(t) = {t[i] : i \in 1 .. n + 1} /\ ToSet(s) = {s[i] : i \in 1 .. n}
      BY <1>2, Zenon DEF ToSet
    <2> QED
      BY <1>2, <1>3, <1>4, <2>1, Zenon
  <1> QED
    BY <1>1, <1>5, Zenon DEF t

LEMMA AddToIs ==
    ASSUME NEW fs, FilesOK(fs), NEW st \in Inputs(fs), NEW q, q = AddTo(fs, st)
    PROVE  q \in Inputs(fs) /\ Added(fs, st, q)
  <1> DEFINE b == Boundary(fs, st.last)
             f == Sorted(b)[1]
  <1>1. q = IF b = {} THEN st ELSE [files |-> Append(st.files, f), last |-> Largest(f)]
    BY Zenon DEF AddTo
  <1>2. CASE b = {}
    BY <1>1, <1>2, Zenon DEF Added
  <1>3. CASE b # {}
    <2>1. b \subseteq fs
      BY DEF Boundary
    <2>2. f \in b /\ \A g \in b : g = f \/ FileBefore(f, g)
      BY <1>3, <2>1, SomeFiles, FirstFile, Zenon
    <2> HIDE DEF f, b
    <2>3. q = [files |-> Append(st.files, f), last |-> Largest(f)]
      BY <1>1, <1>3, Zenon
    <2>4. q.files = Append(st.files, f) /\ q.last = Largest(f)
      BY <2>3
    <2>5. f \in fs /\ Largest(f) \in Entry
      BY <2>1, <2>2, FileEnds, Zenon
    <2>6. st.files \in Seq(fs)
      BY DEF Inputs
    <2>8. Append(st.files, f) \in Seq(fs) /\ ToSet(Append(st.files, f)) = ToSet(st.files) \cup {f}
      <3>1. PICK s \in Seq(fs) : s = st.files
        BY <2>6, Zenon
      <3>2. PICK x \in fs : x = f
        BY <2>5, Zenon
      <3>3. Append(s, x) \in Seq(fs) /\ ToSet(Append(s, x)) = ToSet(s) \cup {x}
        BY AppendSet
      <3> QED
        BY <3>1, <3>2, <3>3, Zenon
    <2>7. ToSet(q.files) = ToSet(st.files) \cup {f}
      BY <2>4, <2>8, Zenon
    <2>9. q \in Inputs(fs)
      BY <2>3, <2>5, <2>8 DEF Inputs
    <2> QED
      BY <2>2, <2>4, <2>7, <2>9, Zenon DEF Added, b
  <1> QED
    BY <1>2, <1>3

\* Every user key between the ends of the files is spanned by one of them.
Covered(I) ==
    \A f, g \in I : \A k \in Nat :
        Smallest(f).key <= k /\ k <= Largest(g).key => \E h \in I : Spans(h, k)

\* A file of fs that overlaps one of I is in I.
Whole(fs, I) == \A f \in I, g \in fs : Overlaps(g, Smallest(f).key, Largest(f).key) => g \in I

\* Only after the last of the files I may a user key go on in another file of fs.
Tidy(fs, I) == \A h \in I : Largest(h) = LastOf(KeysOf(I)) \/ Boundary(fs, Largest(h)) \subseteq I

LEMMA CoveredOne == ASSUME NEW fs, FilesOK(fs), NEW f \in fs PROVE Covered({f})
  BY DEF Covered, Spans

\* A file that starts at a key of the others.
LEMMA CoveredMore ==
    ASSUME NEW fs, FilesOK(fs), NEW I, Covered(I), NEW h \in I, NEW f, h \in fs, f \in fs,
           Smallest(f).key = Largest(h).key
    PROVE  Covered(I \cup {f})
  <1>1. Smallest(f).key \in Nat /\ Largest(f).key \in Nat /\ Smallest(h).key \in Nat
        /\ Largest(h).key \in Nat /\ Smallest(f).key <= Largest(f).key
    <2>1. Largest(f) \in f.data
      BY FileEnds, Zenon
    <2> QED
      BY <2>1, FileEnds, Zenon
  <1> SUFFICES ASSUME NEW a \in I \cup {f}, NEW b \in I \cup {f}, NEW k \in Nat,
                      Smallest(a).key <= k, k <= Largest(b).key
               PROVE  \E g \in I \cup {f} : Spans(g, k)
    BY Zenon DEF Covered
  <1>2. CASE Smallest(f).key <= k /\ k <= Largest(f).key
    BY <1>2, Zenon DEF Spans
  <1>3. CASE ~(Smallest(f).key <= k)
    <2>1. a # f /\ k <= Largest(h).key
      BY <1>1, <1>3
    <2> QED
      BY <2>1, Zenon DEF Covered
  <1>4. CASE Smallest(f).key <= k /\ ~(k <= Largest(f).key)
    <2>1. b # f
      BY <1>4, Zenon
    <2>2. CASE a # f
      BY <2>1, <2>2, Zenon DEF Covered
    <2>3. CASE a = f
      <3>1. Smallest(h).key <= k
        <4>1. Largest(h) \in h.data
          BY FileEnds, Zenon
        <4>2. Smallest(h).key <= Largest(h).key
          BY <4>1, FileEnds, Zenon
        <4> QED
          BY <1>1, <1>4, <4>2
      <3> QED
        BY <2>1, <3>1, Zenon DEF Covered
    <2> QED
      BY <2>2, <2>3
  <1> QED
    BY <1>2, <1>3, <1>4

LEMMA LastFile ==
    ASSUME NEW fs, FilesOK(fs), NEW I, I \subseteq fs, I # {}
    PROVE  /\ \E h \in I : Largest(h) = LastOf(KeysOf(I))
           /\ FirstOf(KeysOf(I)) \in Entry /\ LastOf(KeysOf(I)) \in Entry
           /\ \E h \in I : Smallest(h).key = FirstOf(KeysOf(I)).key
           /\ FirstOf(KeysOf(I)).key \in Nat /\ LastOf(KeysOf(I)).key \in Nat
           /\ KeysOf(I) \subseteq Entry /\ KeysOf(I) # {} /\ Unique(KeysOf(I))
           /\ \A h \in I : FirstOf(KeysOf(I)).key <= Smallest(h).key /\ Largest(h).key <= LastOf(KeysOf(I)).key
  <1> DEFINE K == KeysOf(I)
             a == FirstOf(K)
             z == LastOf(K)
  <1>1. FilesOK(I)
    BY SomeFiles, Zenon
  <1>2. PICK f \in I : TRUE
    BY Zenon
  <1>3. \A h \in I : h.data \subseteq K /\ h.data \subseteq Entry /\ h.data # {}
    BY <1>1, FileData, Zenon
  <1>4. K \subseteq Entry /\ K # {} /\ Unique(K)
    <2>1. K \subseteq Entry
      BY <1>3 DEF KeysOf
    <2> QED
      BY <1>1, <1>2, <1>3, <2>1, Zenon DEF FilesOK
  <1>5. /\ a \in Entry /\ z \in Entry /\ a \in K /\ z \in K /\ a.key \in Nat /\ z.key \in Nat
        /\ \A o \in K : a.key <= o.key /\ o.key <= z.key /\ o.key \in Nat
    <2> HIDE DEF K
    <2> QED
      BY <1>4, EndKeys, Zenon
  <1>6. \A o \in K : o = z \/ Before(o, z)
    <2> HIDE DEF K
    <2> QED
      BY <1>4, Ends, Zenon
  <1>7. (\E h \in I : a \in h.data) /\ (\E h \in I : z \in h.data)
    <2>1. \A o \in K : \E h \in I : o \in h.data
      BY DEF KeysOf
    <2> QED
      BY <1>5, <2>1, Zenon
  <1> HIDE DEF K, a, z
  <1>8. \A h \in I : a.key <= Smallest(h).key /\ Largest(h).key <= z.key
    <2>1. \A h \in I : Smallest(h) \in h.data /\ Largest(h) \in h.data
      BY <1>1, FileEnds, Zenon
    <2> QED
      BY <1>3, <1>5, <2>1, Zenon
  <1>9. \E h \in I : Smallest(h).key = a.key
    <2>1. PICK h \in I : a \in h.data
      BY <1>7, Zenon
    <2>2. Smallest(h).key <= a.key /\ Smallest(h).key \in Nat
      BY <1>1, <2>1, FileEnds, Zenon
    <2>3. Smallest(h).key = a.key
      BY <1>5, <1>8, <2>2
    <2> QED
      BY <2>3, Zenon
  <1>10. \E h \in I : Largest(h) = z
    <2>1. PICK h \in I : z \in h.data
      BY <1>7, Zenon
    <2>2. (z = Largest(h) \/ Before(z, Largest(h))) /\ Largest(h) \in h.data /\ Largest(h) \in Entry
      BY <1>1, <2>1, FileEnds, Zenon
    <2>3. Largest(h) = z \/ Before(Largest(h), z)
      BY <1>3, <1>6, <2>2, Zenon
    <2>4. Largest(h) = z
      BY <1>5, <2>2, <2>3, BeforeNot, Zenon
    <2> QED
      BY <2>4, Zenon
  <1> QED
    BY <1>4, <1>5, <1>8, <1>9, <1>10, Zenon DEF K, a, z

\* What holds of the inputs I and of the files C while files are added.
Extends(fs, C, I, st) ==
    LET S == ToSet(st.files)
    IN  /\ st \in Inputs(fs) /\ I \subseteq S
        /\ \E h \in S : Largest(h) = st.last
        /\ Covered(C \cup I) => Covered(C \cup S)
        /\ Whole(fs, I) => S = I
        /\ Apart(fs) /\ Tidy(fs, I) => \A h \in S : Boundary(fs, Largest(h)) \subseteq S \cup Boundary(fs, st.last)

After(fs, last) == {g \in fs : Before(last, Smallest(g))}

LEMMA ExtendsFirst ==
    ASSUME NEW fs, FilesOK(fs), NEW C, NEW s \in Seq(fs), s # <<>>, NEW st,
           st = [files |-> s, last |-> LastOf(KeysOf(ToSet(s)))]
    PROVE  Extends(fs, C, ToSet(s), st)
  <1> DEFINE I == ToSet(s)
  <1>1. I \subseteq fs /\ I # {}
    <2>1. Len(s) \in Nat /\ Len(s) # 0 /\ DOMAIN s = 1 .. Len(s) /\ \A i \in 1 .. Len(s) : s[i] \in fs
      OBVIOUS
    <2>2. 1 \in DOMAIN s
      BY <2>1
    <2> QED
      BY <2>1, <2>2, Zenon DEF ToSet
  <1>2. LastOf(KeysOf(I)) \in Entry /\ \E h \in I : Largest(h) = LastOf(KeysOf(I))
    BY <1>1, LastFile, Zenon
  <1>3. st.files = s /\ st.last = LastOf(KeysOf(I))
    BY Zenon
  <1>4. st \in Inputs(fs)
    BY <1>2 DEF Inputs
  <1>5. Tidy(fs, I) => \A h \in I : Boundary(fs, Largest(h)) \subseteq I \cup Boundary(fs, LastOf(KeysOf(I)))
    BY Zenon DEF Tidy
  <1> HIDE DEF I
  <1>6. ToSet(st.files) = I
    BY <1>3, Zenon DEF I
  <1>7. \E h \in ToSet(st.files) : Largest(h) = st.last
    BY <1>2, <1>3, <1>6, Zenon
  <1>8. Tidy(fs, I) => \A h \in ToSet(st.files) :
                           Boundary(fs, Largest(h)) \subseteq ToSet(st.files) \cup Boundary(fs, st.last)
    BY <1>3, <1>5, <1>6, Zenon
  <1> QED
    BY <1>4, <1>6, <1>7, <1>8, Zenon DEF Extends, I

LEMMA ExtendsNext ==
    ASSUME NEW fs, FilesOK(fs), NEW C, NEW I, NEW st, Extends(fs, C, I, st),
           NEW q, q = AddTo(fs, st)
    PROVE  Extends(fs, C, I, q)
  <1> DEFINE S == ToSet(st.files)
             R == ToSet(q.files)
  <1>1. /\ st \in Inputs(fs) /\ I \subseteq S
        /\ \E h \in S : Largest(h) = st.last
        /\ Covered(C \cup I) => Covered(C \cup S)
        /\ Whole(fs, I) => S = I
        /\ Apart(fs) /\ Tidy(fs, I) => \A h \in S : Boundary(fs, Largest(h)) \subseteq S \cup Boundary(fs, st.last)
    BY Zenon DEF Extends
  <1>2. q \in Inputs(fs) /\ Added(fs, st, q)
    BY <1>1, AddToIs, Zenon
  <1>3. CASE Boundary(fs, st.last) = {} /\ q = st
    BY <1>3, Zenon
  <1>4. CASE \E f \in Boundary(fs, st.last) :
                /\ ToSet(q.files) = ToSet(st.files) \cup {f} /\ q.last = Largest(f)
                /\ \A g \in Boundary(fs, st.last) : g = f \/ FileBefore(f, g)
    <2>1. PICK f \in Boundary(fs, st.last) :
                /\ R = S \cup {f} /\ q.last = Largest(f)
                /\ \A g \in Boundary(fs, st.last) : g = f \/ FileBefore(f, g)
      BY <1>4, Zenon
    <2>2. PICK h \in S : Largest(h) = st.last
      BY <1>1, Zenon
    <2>3. f \in fs /\ Before(st.last, Smallest(f)) /\ Smallest(f).key = st.last.key
      BY DEF Boundary
    <2>4. S \subseteq fs
      <3>1. st.files \in Seq(fs)
        BY <1>1 DEF Inputs
      <3>2. DOMAIN st.files = 1 .. Len(st.files) /\ \A i \in 1 .. Len(st.files) : st.files[i] \in fs
        BY <3>1
      <3> QED
        BY <3>2, Zenon DEF ToSet
    <2>5. h \in fs /\ Smallest(f).key = Largest(h).key
      BY <2>2, <2>3, <2>4, Zenon
    <2> HIDE DEF S, R
    <2>6. I \subseteq R /\ \E g \in R : Largest(g) = q.last
      BY <1>1, <2>1, Zenon
    <2>7. Covered(C \cup I) => Covered(C \cup R)
      <3> SUFFICES ASSUME Covered(C \cup S) PROVE Covered((C \cup S) \cup {f})
        <4>1. C \cup R = (C \cup S) \cup {f}
          BY <2>1, Zenon
        <4> QED
          BY <1>1, <4>1, Zenon
      <3>1. h \in C \cup S
        BY <2>2, Zenon
      <3> QED
        BY <2>3, <2>5, <3>1, CoveredMore, Zenon
    <2>8. Whole(fs, I) => R = I
      <3> SUFFICES ASSUME Whole(fs, S) PROVE f \in S
        BY <1>1, <2>1, Zenon
      <3>1. Smallest(f).key \in Nat /\ Largest(f).key \in Nat /\ Smallest(f).key <= Largest(f).key
            /\ Smallest(h).key \in Nat /\ Largest(h).key \in Nat /\ Smallest(h).key <= Largest(h).key
        <4>1. Largest(f) \in f.data /\ Largest(h) \in h.data
          BY <2>3, <2>5, FileEnds, Zenon
        <4> QED
          BY <2>3, <2>5, <4>1, FileEnds, Zenon
      <3>2. Overlaps(f, Smallest(h).key, Largest(h).key)
        BY <2>5, <3>1 DEF Overlaps
      <3> QED
        BY <2>2, <2>3, <3>2, Zenon DEF Whole
    <2>9. ASSUME Apart(fs), Tidy(fs, I), NEW g \in R, NEW x \in Boundary(fs, Largest(g))
          PROVE  x \in R \cup Boundary(fs, q.last)
      <3>1. CASE g = f
        BY <2>1, <2>9, <3>1, Zenon
      <3>2. CASE g \in S
        <4>1. x \in S \/ x \in Boundary(fs, st.last)
          BY <1>1, <2>9, <3>2, Zenon
        <4>2. CASE x \in S
          BY <2>1, <4>2, Zenon
        <4>3. CASE x \in Boundary(fs, st.last) /\ x # f
          <5>1. x \in fs /\ Smallest(x).key = st.last.key /\ FileBefore(f, x)
            <6>1. x \in fs /\ Smallest(x).key = st.last.key
              BY <4>3 DEF Boundary
            <6> QED
              BY <2>1, <4>3, <6>1, Zenon
          <5>2. Ahead(f.data, x.data)
            BY <2>3, <2>9, <4>3, <5>1, ApartBefore, Zenon
          <5>3. Before(Largest(f), Smallest(x)) /\ Largest(f).key <= Smallest(x).key
            BY <2>3, <5>1, <5>2, AheadEnds, Zenon
          <5>4. Smallest(f).key \in Nat /\ Largest(f).key \in Nat /\ Smallest(f).key <= Largest(f).key
            <6>1. Largest(f) \in f.data
              BY <2>3, FileEnds, Zenon
            <6> QED
              BY <2>3, <6>1, FileEnds, Zenon
          <5>5. Smallest(x).key = Smallest(f).key
            BY <2>3, <5>1, Zenon
          <5>6. Smallest(x).key = Largest(f).key
            BY <5>3, <5>4, <5>5
          <5>7. x \in Boundary(fs, Largest(f))
            BY <5>1, <5>3, <5>6, Zenon DEF Boundary
          <5> QED
            BY <2>1, <5>7, Zenon
        <4> QED
          BY <2>1, <4>1, <4>2, <4>3, Zenon
      <3> QED
        BY <2>1, <2>9, <3>1, <3>2, Zenon
    <2>10. Apart(fs) /\ Tidy(fs, I) => \A g \in R : Boundary(fs, Largest(g)) \subseteq R \cup Boundary(fs, q.last)
      BY <2>9, Zenon
    <2> QED
      BY <1>2, <2>6, <2>7, <2>8, <2>10, Zenon DEF Extends, R
  <1> QED
    BY <1>2, <1>3, <1>4, Zenon DEF Added

\* Each file added comes after the ones before it.
LEMMA AfterNext ==
    ASSUME NEW fs, FilesOK(fs), NEW st \in Inputs(fs), NEW k \in Nat,
           Boundary(fs, st.last) = {} \/ Cardinality(After(fs, st.last)) <= k, NEW q, q = AddTo(fs, st)
    PROVE  Boundary(fs, q.last) = {} \/ Cardinality(After(fs, q.last)) <= k - 1
  <1>1. q \in Inputs(fs) /\ Added(fs, st, q)
    BY AddToIs, Zenon
  <1>2. CASE Boundary(fs, st.last) = {} /\ q = st
    BY <1>2, Zenon
  <1>3. CASE \E f \in Boundary(fs, st.last) :
                /\ ToSet(q.files) = ToSet(st.files) \cup {f} /\ q.last = Largest(f)
                /\ \A g \in Boundary(fs, st.last) : g = f \/ FileBefore(f, g)
    <2>1. PICK f \in Boundary(fs, st.last) : q.last = Largest(f)
      BY <1>3, Zenon
    <2>2. f \in fs /\ Before(st.last, Smallest(f)) /\ st.last \in Entry
      BY DEF Boundary, Inputs
    <2> DEFINE A == After(fs, st.last)
               B == After(fs, q.last)
    <2>3. /\ Smallest(f) \in Entry /\ Largest(f) \in Entry
          /\ Largest(f) = Smallest(f) \/ Before(Smallest(f), Largest(f))
      BY <2>2, FileEnds, Zenon
    <2>4. A \subseteq fs /\ IsFiniteSet(A)
      <3>1. A \subseteq fs
        BY DEF After
      <3> QED
        BY <3>1, FS_Subset DEF FilesOK
    <2>5. f \in A /\ f \notin B
      <3>1. f \in A
        BY <2>2, Zenon DEF After
      <3>2. f \in B => Before(Largest(f), Smallest(f))
        BY <2>1, Zenon DEF After
      <3>3. ~Before(Largest(f), Smallest(f))
        BY <2>3, BeforeNot, Zenon
      <3> QED
        BY <3>1, <3>2, <3>3, Zenon
    <2>6. ASSUME NEW g \in B PROVE g \in A
      <3>1. g \in fs /\ Before(Largest(f), Smallest(g)) /\ Smallest(g) \in Entry
        <4>1. g \in fs /\ Before(q.last, Smallest(g))
          BY Zenon DEF After
        <4> QED
          BY <2>1, <4>1, FileEnds, Zenon
      <3>2. Before(Smallest(f), Smallest(g))
        BY <2>3, <3>1, BeforeTrans, Zenon
      <3>3. Before(st.last, Smallest(g))
        BY <2>2, <2>3, <3>1, <3>2, BeforeTrans, Zenon
      <3> QED
        BY <3>1, <3>3, Zenon DEF After
    <2>7. Cardinality(B) < Cardinality(A) /\ Cardinality(A) \in Nat /\ Cardinality(B) \in Nat
      <3>1. B \subseteq A /\ B # A
        BY <2>5, <2>6, Zenon
      <3> QED
        BY <2>4, <3>1, SmallerPart, Zenon
    <2>8. Cardinality(A) <= k
      BY <2>1, Zenon
    <2>9. Cardinality(B) <= k - 1
      <3> HIDE DEF A, B
      <3> QED
        BY <2>7, <2>8
    <2> QED
      BY <2>9, Zenon
  <1> QED
    BY <1>1, <1>2, <1>3, Zenon DEF Added

AddsAll(fs, first, s, n) == s = [i \in 0 .. n |-> IF i = 0 THEN first ELSE AddTo(fs, s[i - 1])]

LEMMA AddsEnd ==
    ASSUME NEW fs, FilesOK(fs), NEW C, NEW I, NEW first, Extends(fs, C, I, first),
           NEW n, n = Cardinality(fs), NEW s, AddsAll(fs, first, s, n)
    PROVE  Extends(fs, C, I, s[n]) /\ Boundary(fs, s[n].last) = {}
  <1> DEFINE done(i) == \/ Boundary(fs, s[i].last) = {}
                        \/ Cardinality(After(fs, s[i].last)) <= n - i
             P == {i \in 0 .. n : Extends(fs, C, I, s[i]) /\ done(i)}
  <1>1. n \in Nat
    BY FS_CardinalityType DEF FilesOK
  <1>2. \A i \in 0 .. n : s[i] = IF i = 0 THEN first ELSE AddTo(fs, s[i - 1])
    BY Zenon DEF AddsAll
  <1>3. s[0] = first /\ \A i \in 1 .. n : s[i] = AddTo(fs, s[i - 1])
    <2>1. 0 \in 0 .. n /\ \A i \in 1 .. n : i \in 0 .. n /\ i # 0
      BY <1>1
    <2> QED
      BY <1>2, <2>1, Zenon
  <1>4. \A last : Cardinality(After(fs, last)) \in Nat /\ Cardinality(After(fs, last)) <= n
                  /\ IsFiniteSet(After(fs, last)) /\ After(fs, last) \subseteq fs
    <2> SUFFICES ASSUME NEW last
                 PROVE  Cardinality(After(fs, last)) \in Nat /\ Cardinality(After(fs, last)) <= n
                        /\ IsFiniteSet(After(fs, last)) /\ After(fs, last) \subseteq fs
      OBVIOUS
    <2>1. After(fs, last) \subseteq fs
      BY DEF After
    <2>2. IsFiniteSet(After(fs, last)) /\ Cardinality(After(fs, last)) <= n
      BY <2>1, FS_Subset DEF FilesOK
    <2> QED
      BY <2>1, <2>2, FS_CardinalityType, Zenon
  <1>5. 0 \in P
    <2>1. Cardinality(After(fs, s[0].last)) <= n - 0 /\ 0 \in 0 .. n
      BY <1>1, <1>4
    <2> QED
      BY <1>3, <2>1, Zenon
  <1>6. ASSUME NEW i \in 1 .. n, i - 1 \in P PROVE i \in P
    <2> DEFINE st == s[i - 1]
               q == s[i]
    <2>1. Extends(fs, C, I, st) /\ (Boundary(fs, st.last) = {} \/ Cardinality(After(fs, st.last)) <= n - (i - 1))
      BY <1>6, Zenon
    <2>2. q = AddTo(fs, st)
      BY <1>3, Zenon
    <2>3. n - (i - 1) \in Nat /\ (n - (i - 1)) - 1 = n - i /\ i \in 0 .. n
      BY <1>1
    <2> HIDE DEF q, st
    <2>4. Extends(fs, C, I, q) /\ st \in Inputs(fs)
      <3>1. st \in Inputs(fs)
        BY <2>1, Zenon DEF Extends
      <3> QED
        BY <2>1, <2>2, <3>1, ExtendsNext, Zenon
    <2>5. PICK k \in Nat : k = n - (i - 1)
      BY <2>3, Zenon
    <2>6. Boundary(fs, q.last) = {} \/ Cardinality(After(fs, q.last)) <= k - 1
      BY <2>1, <2>2, <2>4, <2>5, AfterNext, Zenon
    <2>7. Boundary(fs, q.last) = {} \/ Cardinality(After(fs, q.last)) <= n - i
      BY <2>3, <2>5, <2>6
    <2> QED
      BY <2>3, <2>4, <2>7, Zenon DEF q
  <1>7. n \in P
    <2>1. \A i \in 0 .. n : i \in P
      <3> HIDE DEF P
      <3> QED
        BY <1>1, <1>5, <1>6, Steps, Zenon
    <2>2. n \in 0 .. n
      BY <1>1
    <2> QED
      BY <2>1, <2>2, Zenon
  <1>8. ASSUME Cardinality(After(fs, s[n].last)) <= n - n PROVE Boundary(fs, s[n].last) = {}
    <2>1. Cardinality(After(fs, s[n].last)) = 0
      BY <1>1, <1>4, <1>8
    <2>2. After(fs, s[n].last) = {}
      BY <1>4, <2>1, FS_EmptySet, Zenon
    <2> QED
      BY <2>2, Zenon DEF Boundary, After
  <1> QED
    BY <1>7, <1>8, Zenon

\* The inputs q made of the inputs s.
Bounded(fs, C, s, q) ==
    /\ q \in Seq(fs) /\ q # <<>> /\ ToSet(s) \subseteq ToSet(q) /\ ToSet(q) \subseteq fs
    /\ Covered(C \cup ToSet(s)) => Covered(C \cup ToSet(q))
    /\ Whole(fs, ToSet(s)) => ToSet(q) = ToSet(s)
    /\ Apart(fs) /\ Tidy(fs, ToSet(s)) => \A h \in ToSet(q) : Boundary(fs, Largest(h)) \subseteq ToSet(q)

LEMMA SomeIn ==
    ASSUME NEW S, NEW s \in Seq(S)
    PROVE  ToSet(s) \subseteq S /\ (s # <<>> => s[1] \in ToSet(s)) /\ (s = <<>> => ToSet(s) = {})
  <1>1. Len(s) \in Nat /\ DOMAIN s = 1 .. Len(s) /\ (\A i \in 1 .. Len(s) : s[i] \in S)
        /\ (s # <<>> => 1 \in 1 .. Len(s)) /\ (s = <<>> => 1 .. Len(s) = {})
    OBVIOUS
  <1> QED
    BY <1>1, Zenon DEF ToSet

LEMMA BoundaryInputs ==
    ASSUME NEW v, NEW level, FilesOK(v[level]), NEW C, NEW s \in Seq(v[level]), s # <<>>
    PROVE  Bounded(v[level], C, s, AddBoundaryInputs(v, level, s))
  <1> DEFINE fs == v[level]
             n == Cardinality(fs)
             first == [files |-> s, last |-> LastOf(KeysOf(ToSet(s)))]
             a == CHOOSE f : AddsAll(fs, first, f, n)
             T == Inputs(fs)
             step == [k \in 1 .. n |-> [w \in T |-> AddTo(fs, w)]]
             I == ToSet(s)
  <1>1. AddBoundaryInputs(v, level, s) = a[n].files
    BY Zenon DEF AddBoundaryInputs, AddTo, Boundary, AddsAll
  <1>2. Extends(fs, C, I, first)
    BY ExtendsFirst, Zenon
  <1>3. first \in T /\ \A w \in T : AddTo(fs, w) \in T
    <2>1. first \in T
      BY <1>2, Zenon DEF Extends
    <2> QED
      BY <2>1, AddToIs, Zenon
  <1>4. \A k \in 1 .. n : \A w \in T : step[k][w] = AddTo(fs, w)
    BY Zenon
  <1>5. n \in Nat
    BY FS_CardinalityType, Zenon DEF FilesOK
  <1> HIDE DEF T, step, first
  <1>6. PICK f \in [0 .. n -> T] : Follows(f, n, first, step)
    <2>1. \A k \in 1 .. n : \A w \in T : step[k][w] \in T
      BY <1>3, <1>4, Zenon
    <2> HIDE DEF n
    <2> QED
      BY <1>3, <1>5, <2>1, RecursFacts, Zenon
  <1>7. AddsAll(fs, first, f, n)
    <2>1. ASSUME NEW k \in 0 .. n PROVE f[k] = IF k = 0 THEN first ELSE AddTo(fs, f[k - 1])
      <3>1. k # 0 => k \in 1 .. n /\ k - 1 \in 0 .. n
        BY <1>5
      <3> QED
        BY <1>4, <1>6, <3>1, Zenon DEF Follows
    <2>2. f = [k \in 0 .. n |-> f[k]]
      BY <1>6, Zenon DEF Follows
    <2> HIDE DEF n
    <2> QED
      BY <2>1, <2>2 DEF AddsAll
  <1>8. AddsAll(fs, first, a, n)
    BY <1>7, Zenon
  <1> HIDE DEF a
  <1>9. Extends(fs, C, I, a[n]) /\ Boundary(fs, a[n].last) = {}
    BY <1>2, <1>8, AddsEnd, Zenon
  <1> DEFINE q == a[n].files
             Q == ToSet(q)
  <1>10. /\ a[n] \in Inputs(fs) /\ I \subseteq Q
         /\ \E h \in Q : Largest(h) = a[n].last
         /\ Covered(C \cup I) => Covered(C \cup Q)
         /\ Whole(fs, I) => Q = I
         /\ Apart(fs) /\ Tidy(fs, I) => \A h \in Q : Boundary(fs, Largest(h)) \subseteq Q \cup Boundary(fs, a[n].last)
    BY <1>9, Zenon DEF Extends
  <1>11. q \in Seq(fs)
    BY <1>10 DEF Inputs
  <1>12. Apart(fs) /\ Tidy(fs, I) => \A h \in Q : Boundary(fs, Largest(h)) \subseteq Q
    BY <1>9, <1>10, Zenon
  <1> HIDE DEF q
  <1>13. q # <<>> /\ Q \subseteq fs
    <2>1. Q \subseteq fs /\ (q = <<>> => Q = {})
      BY <1>11, SomeIn, Zenon
    <2>2. Q # {}
      BY <1>10, Zenon
    <2> QED
      BY <2>1, <2>2, Zenon
  <1>14. Bounded(fs, C, s, q)
    BY <1>10, <1>11, <1>12, <1>13, Zenon DEF Bounded
  <1> QED
    BY <1>1, <1>14, Zenon DEF q
-----------------------------------------------------------------------------
\* The choice of the inputs.

Newer(S, T) == \A e \in S, o \in T : e.key = o.key => e.seq > o.seq

\* What stays behind of a level is newer than the files that leave it.
Settled(fs, S) == \A g \in fs \ S : Newer(g.data, KeysOf(S))

LEMMA Within1 ==
    ASSUME NEW fs, FilesOK(fs), NEW f \in fs
    PROVE  Smallest(f).key \in Nat /\ Largest(f).key \in Nat /\ Smallest(f).key <= Largest(f).key
  <1>1. Largest(f) \in f.data
    BY FileEnds, Zenon
  <1> QED
    BY <1>1, FileEnds, Zenon

LEMMA WholeSettled ==
    ASSUME NEW fs, FilesOK(fs), NEW S, S \subseteq fs, Whole(fs, S) PROVE Settled(fs, S)
  <1> SUFFICES ASSUME NEW g \in fs \ S PROVE Newer(g.data, KeysOf(S))
    BY Zenon DEF Settled
  <1> SUFFICES ASSUME NEW e \in g.data, NEW o \in KeysOf(S), e.key = o.key PROVE FALSE
    BY Zenon DEF Newer
  <1>0. PICK h \in S : o \in h.data
    BY Zenon DEF KeysOf
  <1>1. h \in fs /\ g \in fs
    OBVIOUS
  <1>2. /\ Smallest(h).key <= o.key /\ o.key <= Largest(h).key
        /\ Smallest(g).key <= e.key /\ e.key <= Largest(g).key /\ e.key \in Nat
    BY <1>0, <1>1, FileEnds, Zenon
  <1>3. Overlaps(g, Smallest(h).key, Largest(h).key)
    <2>1. /\ Smallest(h).key \in Nat /\ Largest(h).key \in Nat
          /\ Smallest(g).key \in Nat /\ Largest(g).key \in Nat
      BY <1>1, Within1, Zenon
    <2> QED
      BY <1>2, <2>1 DEF Overlaps
  <1> QED
    BY <1>1, <1>3, Zenon DEF Whole

LEMMA TidySettled ==
    ASSUME NEW fs, FilesOK(fs), NEW S, S \subseteq fs, Apart(fs),
           \A h \in S : Boundary(fs, Largest(h)) \subseteq S
    PROVE  Settled(fs, S)
  <1> SUFFICES ASSUME NEW g \in fs \ S, NEW h \in S, NEW e \in g.data, NEW o \in h.data, e.key = o.key
               PROVE  e.seq > o.seq
    <2> SUFFICES ASSUME NEW g \in fs \ S PROVE Newer(g.data, KeysOf(S))
      BY Zenon DEF Settled
    <2> SUFFICES ASSUME NEW e \in g.data, NEW o \in KeysOf(S), e.key = o.key PROVE e.seq > o.seq
      BY Zenon DEF Newer
    <2>1. PICK h \in S : o \in h.data
      BY Zenon DEF KeysOf
    <2> QED
      BY <2>1, Zenon
  <1>1. h \in fs /\ g \in fs /\ h # g
    BY Zenon
  <1>2. CASE Ahead(g.data, h.data)
    <2>1. Before(e, o) /\ e.key \in Nat
      BY <1>1, <1>2, FileEnds, Zenon DEF Ahead
    <2> QED
      BY <2>1 DEF Before
  <1>3. CASE Ahead(h.data, g.data)
    <2>1. Before(Largest(h), Smallest(g)) /\ Largest(h).key <= Smallest(g).key
      BY <1>1, <1>3, AheadEnds, Zenon
    <2>2. /\ o.key <= Largest(h).key /\ Smallest(g).key <= e.key
          /\ Largest(h).key \in Nat /\ Smallest(g).key \in Nat /\ o.key \in Nat
      BY <1>1, FileEnds, Zenon
    <2>3. Smallest(g).key = Largest(h).key
      BY <2>1, <2>2
    <2>4. g \in Boundary(fs, Largest(h))
      BY <1>1, <2>1, <2>3, Zenon DEF Boundary
    <2> QED
      BY <2>4, Zenon
  <1> QED
    BY <1>1, <1>2, <1>3, Zenon DEF Apart

\* The files of a level that overlap a range: keys go on only after the last.
LEMMA OverlapTidy ==
    ASSUME NEW fs, FilesOK(fs), Apart(fs), NEW lo \in Nat, NEW hi \in Nat, NEW W, W \subseteq fs, W # {},
           \A f \in fs : f \in W <=> Overlaps(f, lo, hi)
    PROVE  Tidy(fs, W)
  <1> SUFFICES ASSUME NEW h \in W, Largest(h) # LastOf(KeysOf(W)), NEW g \in Boundary(fs, Largest(h))
               PROVE  g \in W
    BY Zenon DEF Tidy
  <1>1. PICK z \in W : Largest(z) = LastOf(KeysOf(W))
    BY LastFile, Zenon
  <1>2. g \in fs /\ Before(Largest(h), Smallest(g)) /\ Smallest(g).key = Largest(h).key
    BY Zenon DEF Boundary
  <1>3. h \in fs /\ z \in fs /\ h # z
    BY <1>1, Zenon
  <1>4. Ahead(h.data, z.data)
    <2> SUFFICES ASSUME Ahead(z.data, h.data) PROVE FALSE
      BY <1>3, Zenon DEF Apart
    <2>1. Before(Largest(z), Largest(h)) /\ Largest(z) \in Entry /\ Largest(h) \in Entry
      BY <1>3, AheadEnds, FileEnds, Zenon
    <2>2. Largest(h) \in KeysOf(W)
      BY FileEnds, Zenon DEF KeysOf
    <2>3. KeysOf(W) \subseteq Entry /\ Unique(KeysOf(W)) /\ KeysOf(W) # {}
      BY LastFile, Zenon
    <2>4. Before(Largest(h), Largest(z))
      BY <1>1, <2>2, <2>3, Ends, Zenon
    <2> QED
      BY <2>1, <2>4, BeforeNot, Zenon
  <1>5. Largest(h).key <= Smallest(z).key
    BY <1>3, <1>4, AheadEnds, Zenon
  <1>6. Overlaps(h, lo, hi) /\ Overlaps(z, lo, hi)
    BY <1>3, Zenon
  <1>7. /\ Smallest(z).key \in Nat /\ Largest(h).key \in Nat /\ Smallest(g).key \in Nat
        /\ Largest(g).key \in Nat /\ Smallest(g).key <= Largest(g).key
    BY <1>2, <1>3, Within1, Zenon
  <1>8. Overlaps(g, lo, hi)
    BY <1>2, <1>5, <1>6, <1>7 DEF Overlaps
  <1> QED
    BY <1>2, <1>8, Zenon

LEMMA TwoLevels ==
    ASSUME NEW v, VersionOK(v), NEW l \in Levels, NEW m \in Levels PROVE FilesOK(v[l] \cup v[m])
  <1>1. FilesOK(v[l]) /\ FilesOK(v[m])
    BY Zenon DEF VersionOK
  <1>2. v[l] \cup v[m] \subseteq File /\ IsFiniteSet(v[l] \cup v[m])
    BY <1>1, FS_Union, Zenon DEF FilesOK
  <1>3. KeysOf(v[l] \cup v[m]) \subseteq AllOf(v)
    <2>1. KeysOf(v[l] \cup v[m]) \subseteq KeysOf(v[l]) \cup KeysOf(v[m])
      BY DEF KeysOf
    <2> QED
      BY <2>1, Zenon DEF AllOf
  <1>4. Unique(KeysOf(v[l] \cup v[m]))
    BY <1>3, UniquePart, Zenon DEF VersionOK
  <1>5. ASSUME NEW f \in v[l] \cup v[m], NEW g \in v[l] \cup v[m], f.number = g.number PROVE f = g
    <2>1. PICK x \in {l, m} : f \in v[x]
      BY Zenon
    <2>2. PICK y \in {l, m} : g \in v[y]
      BY Zenon
    <2>3. x \in Levels /\ y \in Levels /\ FilesOK(v[x])
      BY <1>1, Zenon
    <2>4. x = y
      BY <1>5, <2>1, <2>2, <2>3, Zenon DEF VersionOK
    <2> QED
      BY <1>5, <2>1, <2>2, <2>3, <2>4, Zenon DEF FilesOK
  <1> QED
    BY <1>2, <1>4, <1>5, Zenon DEF FilesOK

\* The files of a level over the range of the files I.
OverlapOf(W, fs, level, I) ==
    InputsOf(W, fs, level, FirstOf(KeysOf(I)).key, LastOf(KeysOf(I)).key)

LEMMA OverlappingAre ==
    ASSUME NEW F, FilesOK(F), NEW I, I \subseteq F, I # {}, NEW v, NEW level \in Nat, FilesOK(v[level])
    PROVE  OverlapOf(Overlapping(v, level, I), v[level], level, I)
  <1> DEFINE lo == FirstOf(KeysOf(I)).key
             hi == LastOf(KeysOf(I)).key
  <1>1. lo \in Nat /\ hi \in Nat
    BY LastFile, Zenon
  <1>2. Overlapping(v, level, I) = GetOverlappingInputs(v, level, lo, hi)
    BY Zenon DEF Overlapping
  <1> HIDE DEF lo, hi
  <1>3. InputsOf(GetOverlappingInputs(v, level, lo, hi), v[level], level, lo, hi)
    BY <1>1, InputsAre, Zenon
  <1> QED
    BY <1>2, <1>3, Zenon DEF OverlapOf, lo, hi

LEMMA CoveredReach ==
    ASSUME NEW F, FilesOK(F), NEW I, I \subseteq F, I # {}, NEW fs, NEW level, FilesOK(fs),
           NEW W, OverlapOf(W, fs, level, I), Covered(I)
    PROVE  Covered(I \cup W)
  <1> DEFINE lo == FirstOf(KeysOf(I)).key
             hi == LastOf(KeysOf(I)).key
  <1>1. /\ lo \in Nat /\ hi \in Nat
        /\ \E h \in I : Largest(h) = LastOf(KeysOf(I))
        /\ \E h \in I : Smallest(h).key = lo
        /\ \A h \in I : lo <= Smallest(h).key /\ Largest(h).key <= hi
    BY LastFile, Zenon
  <1>2. W \subseteq fs /\ Reached(W, lo, hi)
    BY Zenon DEF OverlapOf, InputsOf
  <1>3. PICK y \in I : Largest(y).key = hi
    BY <1>1, Zenon
  <1>4. PICK x \in I : Smallest(x).key = lo
    BY <1>1, Zenon
  <1> HIDE DEF lo, hi
  <1> SUFFICES ASSUME NEW a \in I \cup W, NEW b \in I \cup W, NEW k \in Nat,
                      Smallest(a).key <= k, k <= Largest(b).key
               PROVE  \E g \in I \cup W : Spans(g, k)
    BY Zenon DEF Covered
  <1>5. lo <= k \/ \E f \in W : Smallest(f).key <= k
    <2>1. CASE a \in I
      <3>1. lo <= Smallest(a).key /\ Smallest(a).key \in Nat
        BY <1>1, <2>1, Within1, Zenon
      <3> QED
        BY <1>1, <3>1
    <2> QED
      BY <2>1, Zenon
  <1>6. k <= hi \/ \E f \in W : k <= Largest(f).key
    <2>1. CASE b \in I
      <3>1. Largest(b).key <= hi /\ Largest(b).key \in Nat
        BY <1>1, <2>1, Within1, Zenon
      <3> QED
        BY <1>1, <3>1
    <2> QED
      BY <2>1, Zenon
  <1>7. (lo <= k /\ k <= hi) \/ \E f \in W : Spans(f, k)
    BY <1>2, <1>5, <1>6, Zenon DEF Reached
  <1>8. CASE lo <= k /\ k <= hi
    <2>1. \E h \in I : Spans(h, k)
      BY <1>3, <1>4, <1>8, Zenon DEF Covered
    <2> QED
      BY <2>1, Zenon
  <1> QED
    BY <1>7, <1>8, Zenon

\* The files of the next level that are not taken are before or after all that are.
LEMMA NextLevel ==
    ASSUME NEW F, FilesOK(F), NEW S, S \subseteq F, S # {}, NEW fs, NEW level, FilesOK(fs), level # 0,
           Apart(fs), NEW T, OverlapOf(T, fs, level, S)
    PROVE  \A g \in fs \ T : Ahead(g.data, KeysOf(S \cup T)) \/ Ahead(KeysOf(S \cup T), g.data)
  <1> DEFINE lo == FirstOf(KeysOf(S)).key
             hi == LastOf(KeysOf(S)).key
  <1>1. /\ lo \in Nat /\ hi \in Nat
        /\ \A h \in S : lo <= Smallest(h).key /\ Largest(h).key <= hi
    BY LastFile, Zenon
  <1>2. T \subseteq fs /\ (\A f \in fs : Overlaps(f, lo, hi) => f \in T) /\ \A f \in T : Overlaps(f, lo, hi)
    BY Zenon DEF OverlapOf, InputsOf
  <1> HIDE DEF lo, hi
  <1> SUFFICES ASSUME NEW g \in fs \ T
               PROVE  Ahead(g.data, KeysOf(S \cup T)) \/ Ahead(KeysOf(S \cup T), g.data)
    OBVIOUS
  <1>3. g \in fs /\ g \notin T /\ ~Overlaps(g, lo, hi)
    BY <1>2, Zenon
  <1>4. Smallest(g).key \in Nat /\ Largest(g).key \in Nat /\ Smallest(g).key <= Largest(g).key
    BY <1>3, Within1, Zenon
  <1>5. \A h \in S \cup T : /\ Smallest(h).key \in Nat /\ Largest(h).key \in Nat
                            /\ \A o \in h.data : Smallest(h).key <= o.key /\ o.key <= Largest(h).key /\ o.key \in Nat
    <2>1. \A h \in S \cup T : h \in F \/ h \in fs
      BY <1>2, Zenon
    <2> QED
      BY <2>1, FileEnds, Zenon
  <1>6. \A e \in g.data : Smallest(g).key <= e.key /\ e.key <= Largest(g).key /\ e.key \in Nat
    BY <1>3, FileEnds, Zenon
  <1>7. \A h \in T : Ahead(g.data, h.data) \/ Ahead(h.data, g.data)
    BY <1>2, <1>3, Zenon DEF Apart
  <1>8. CASE Largest(g).key < lo
    <2> SUFFICES ASSUME NEW e \in g.data, NEW h \in S \cup T, NEW o \in h.data PROVE Before(e, o)
      BY Zenon DEF Ahead, KeysOf
    <2>1. CASE h \in S
      <3>1. lo <= Smallest(h).key
        BY <1>1, <2>1, Zenon
      <3>2. e.key < o.key
        BY <1>1, <1>4, <1>5, <1>6, <1>8, <3>1
      <3> QED
        BY <3>2, Zenon DEF Before
    <2>2. CASE h \in T
      <3>1. ~Ahead(h.data, g.data)
        <4> SUFFICES ASSUME Ahead(h.data, g.data) PROVE FALSE
          OBVIOUS
        <4>1. Largest(h).key <= Smallest(g).key
          BY <1>2, <1>3, <2>2, AheadEnds, Zenon
        <4>2. lo <= Largest(h).key
          BY <1>2, <2>2, Zenon DEF Overlaps
        <4> QED
          BY <1>1, <1>4, <1>5, <1>8, <4>1, <4>2
      <3> QED
        BY <1>7, <2>2, <3>1, Zenon DEF Ahead
    <2> QED
      BY <2>1, <2>2
  <1>9. CASE hi < Smallest(g).key
    <2> SUFFICES ASSUME NEW e \in g.data, NEW h \in S \cup T, NEW o \in h.data PROVE Before(o, e)
      BY Zenon DEF Ahead, KeysOf
    <2>1. CASE h \in S
      <3>1. Largest(h).key <= hi
        BY <1>1, <2>1, Zenon
      <3>2. o.key < e.key
        BY <1>1, <1>4, <1>5, <1>6, <1>9, <3>1
      <3> QED
        BY <3>2, Zenon DEF Before
    <2>2. CASE h \in T
      <3>1. ~Ahead(g.data, h.data)
        <4> SUFFICES ASSUME Ahead(g.data, h.data) PROVE FALSE
          OBVIOUS
        <4>1. Largest(g).key <= Smallest(h).key
          BY <1>2, <1>3, <2>2, AheadEnds, Zenon
        <4>2. Smallest(h).key <= hi
          BY <1>2, <2>2, Zenon DEF Overlaps
        <4> QED
          BY <1>1, <1>4, <1>5, <1>9, <4>1, <4>2
      <3> QED
        BY <1>7, <2>2, <3>1, Zenon DEF Ahead
    <2> QED
      BY <2>1, <2>2
  <1> QED
    BY <1>1, <1>3, <1>4, <1>8, <1>9 DEF Overlaps

\* The inputs a compaction starts from: in level 0 with each file those that overlap it.
Good(v, level, I) ==
    /\ level = 0 => Whole(v[0], I)
    /\ level # 0 => Apart(v[level]) /\ Tidy(v[level], I)

Chosen(v, level, c) ==
    /\ c.level = level /\ c.in0 \in Seq(v[level]) /\ c.in0 # <<>>
    /\ c.in1 = Overlapping(v, level + 1, ToSet(c.in0))

\* What a compaction may take out of the levels, the inputs being S and T.
Replaceable(v, level, S, T) ==
    /\ Settled(v[level], S)
    /\ \A g \in v[level + 1] \ T : Ahead(g.data, KeysOf(S \cup T)) \/ Ahead(KeysOf(S \cup T), g.data)

LEMMA GoodSettled ==
    ASSUME NEW v, NEW level, FilesOK(v[level]), NEW C, NEW s, Good(v, level, ToSet(s)),
           NEW q, Bounded(v[level], C, s, q)
    PROVE  Settled(v[level], ToSet(q))
  <1> DEFINE fs == v[level]
             I == ToSet(s)
             Q == ToSet(q)
  <1>1. /\ Q \subseteq fs
        /\ Whole(fs, I) => Q = I
        /\ Apart(fs) /\ Tidy(fs, I) => \A h \in Q : Boundary(fs, Largest(h)) \subseteq Q
    BY Zenon DEF Bounded
  <1>2. CASE level = 0
    <2>1. Whole(fs, I)
      BY <1>2, Zenon DEF Good
    <2>2. Whole(fs, Q)
      BY <1>1, <2>1, Zenon
    <2> QED
      BY <1>1, <2>2, WholeSettled, Zenon
  <1>3. CASE level # 0
    <2>1. Apart(fs) /\ Tidy(fs, I)
      BY <1>3, Zenon DEF Good
    <2> QED
      BY <1>1, <2>1, TidySettled, Zenon
  <1> QED
    BY <1>2, <1>3

LEMMA Hull ==
    ASSUME NEW F, FilesOK(F), NEW I, I \subseteq F, NEW J, J \subseteq I, J # {}
    PROVE  /\ FirstOf(KeysOf(I)).key <= FirstOf(KeysOf(J)).key
           /\ LastOf(KeysOf(J)).key <= LastOf(KeysOf(I)).key
           /\ \A f \in J : Overlaps(f, FirstOf(KeysOf(I)).key, LastOf(KeysOf(I)).key)
  <1> DEFINE a == FirstOf(KeysOf(I)).key
             z == LastOf(KeysOf(I)).key
             b == FirstOf(KeysOf(J)).key
             y == LastOf(KeysOf(J)).key
  <1>1. a \in Nat /\ z \in Nat /\ \A h \in I : a <= Smallest(h).key /\ Largest(h).key <= z
    <2>1. I # {}
      BY Zenon
    <2> QED
      BY <2>1, LastFile, Zenon
  <1>2. (\E h \in J : Largest(h).key = y) /\ \E h \in J : Smallest(h).key = b
    <2>1. J \subseteq F
      BY Zenon
    <2> QED
      BY <2>1, LastFile, Zenon
  <1> HIDE DEF a, z, b, y
  <1>3. a <= b /\ y <= z
    BY <1>1, <1>2, Zenon
  <1>4. ASSUME NEW f \in J PROVE Overlaps(f, a, z)
    <2>1. f \in I /\ f \in F
      BY Zenon
    <2>2. /\ Smallest(f).key \in Nat /\ Largest(f).key \in Nat /\ Smallest(f).key <= Largest(f).key
          /\ a <= Smallest(f).key /\ Largest(f).key <= z
      BY <1>1, <2>1, Within1, Zenon
    <2> QED
      BY <1>1, <2>2 DEF Overlaps
  <1> QED
    BY <1>3, <1>4, Zenon DEF a, z, b, y

\* More inputs of a level overlap more of the next level.
LEMMA MoreNext ==
    ASSUME NEW v, NEW level \in Levels, VersionOK(v), level + 1 \in Levels, level + 1 # 0,
           NEW I, I \subseteq v[level], NEW J, J \subseteq I, J # {}
    PROVE  Overlapping(v, level + 1, J) \subseteq Overlapping(v, level + 1, I)
  <1> DEFINE a == FirstOf(KeysOf(I)).key
             z == LastOf(KeysOf(I)).key
             b == FirstOf(KeysOf(J)).key
             y == LastOf(KeysOf(J)).key
             m == level + 1
             F == v[level]
  <1>1. FilesOK(F) /\ FilesOK(v[m]) /\ m \in Nat
    BY LevelsAre, Zenon DEF VersionOK
  <1>2. J \subseteq F /\ I # {}
    BY Zenon
  <1>3. OverlapOf(Overlapping(v, m, J), v[m], m, J) /\ OverlapOf(Overlapping(v, m, I), v[m], m, I)
    <2> HIDE DEF m, F
    <2> QED
      BY <1>1, <1>2, OverlappingAre, Zenon DEF F
  <1>4. /\ \A f \in Overlapping(v, m, J) : f \in v[m] /\ Overlaps(f, b, y)
        /\ \A f \in v[m] : Overlaps(f, a, z) => f \in Overlapping(v, m, I)
    BY <1>3, Zenon DEF OverlapOf, InputsOf
  <1>5. a <= b /\ y <= z
    BY <1>1, Hull, Zenon
  <1>6. a \in Nat /\ b \in Nat /\ y \in Nat /\ z \in Nat
    BY <1>1, <1>2, LastFile, Zenon
  <1> HIDE DEF a, b, y, z
  <1>7. \A f \in v[m] : Overlaps(f, b, y) => Overlaps(f, a, z)
    <2>1. \A f \in v[m] : Smallest(f).key \in Nat /\ Largest(f).key \in Nat
      BY <1>1, Within1, Zenon
    <2> HIDE DEF m
    <2> QED
      BY <1>5, <1>6, <2>1 DEF Overlaps
  <1> QED
    BY <1>4, <1>7, Zenon

\* The outcome of SetupOtherInputs for the inputs s.
Outcome(v, level, s, c) ==
    /\ Chosen(v, level, c)
    /\ Good(v, level, ToSet(s)) /\ Covered(ToSet(s))
       => Settled(v[level], ToSet(c.in0)) /\ Covered(ToSet(c.in0) \cup c.in1)

LEMMA SetupIs ==
    ASSUME NEW v, NEW level \in Levels, VersionOK(v), level + 1 \in Levels, level + 1 # 0,
           NEW s \in Seq(v[level]), s # <<>>
    PROVE  Outcome(v, level, s, SetupOtherInputs(v, level, s))
  <1> DEFINE m == level + 1
             in0 == AddBoundaryInputs(v, level, s)
             S == ToSet(in0)
             in1 == Overlapping(v, m, S)
             X == Overlapping(v, level, S \cup in1)
             exp0 == AddBoundaryInputs(v, level, Sorted(X))
             E == ToSet(exp0)
             exp1 == Overlapping(v, m, E)
             grow == /\ in1 # {}
                     /\ Len(exp0) > Len(in0)
                     /\ TotalFileSize(in1) + TotalFileSize(ToSet(exp0))
                            < ExpandedCompactionByteSizeLimit
                     /\ Cardinality(exp1) = Cardinality(in1)
             c == SetupOtherInputs(v, level, s)
             fs == v[level]
             ok == Good(v, level, ToSet(s)) /\ Covered(ToSet(s))
  <1>1. c = CompactionOf(v, level, IF grow THEN exp0 ELSE in0, IF grow THEN exp1 ELSE in1)
    BY Zenon DEF SetupOtherInputs, WithNextLevel, Expand, Expand0, Larger
  <1>2. FilesOK(fs) /\ FilesOK(v[m]) /\ FilesOK(fs \cup v[m]) /\ level \in Nat /\ m \in Nat
    BY TwoLevels, LevelsAre, Zenon DEF VersionOK
  <1> HIDE DEF c, grow
  <1>3. Bounded(fs, {}, s, in0)
    <2> HIDE DEF in0, fs
    <2> QED
      BY <1>2, BoundaryInputs, Zenon DEF in0, fs
  <1>4. in0 \in Seq(fs) /\ in0 # <<>> /\ ToSet(s) \subseteq S /\ S \subseteq fs
        /\ (Covered({} \cup ToSet(s)) => Covered({} \cup S))
    BY <1>3, Zenon DEF Bounded
  <1> HIDE DEF in0
  <1>5. S # {} /\ (ok => Covered(S))
    <2>1. in0[1] \in S
      BY <1>4, SomeIn, Zenon
    <2>2. {} \cup ToSet(s) = ToSet(s) /\ {} \cup S = S
      BY Zenon
    <2> QED
      BY <1>4, <2>1, <2>2, Zenon
  <1> HIDE DEF S, m
  <1>6. OverlapOf(in1, v[m], m, S)
    BY <1>2, <1>4, <1>5, OverlappingAre, Zenon
  <1> HIDE DEF in1
  <1>7. ok => Covered(S \cup in1)
    BY <1>2, <1>4, <1>5, <1>6, CoveredReach, Zenon
  <1>8. ok => Settled(fs, S)
    BY <1>2, <1>3, GoodSettled, Zenon DEF S
  <1>9. in1 \subseteq v[m]
    BY <1>6, Zenon DEF OverlapOf, InputsOf
  <1>10. CASE ~grow
    <2>1. c = CompactionOf(v, level, in0, in1)
      BY <1>1, <1>10, Zenon
    <2>2. c.level = level /\ c.in0 = in0 /\ c.in1 = in1
      <3> HIDE DEF in1
      <3>1. /\ CompactionOf(v, level, in0, in1).level = level
            /\ CompactionOf(v, level, in0, in1).in0 = in0
            /\ CompactionOf(v, level, in0, in1).in1 = in1
        BY DEF CompactionOf
      <3> QED
        BY <2>1, <3>1, Zenon
    <2> QED
      BY <1>4, <1>7, <1>8, <2>2, Zenon DEF Outcome, Chosen, c, S, in1, m
  <1>11. CASE grow
    <2> DEFINE I == S \cup in1
    <2>1. I \subseteq fs \cup v[m] /\ I # {}
      BY <1>4, <1>5, <1>9, Zenon
    <2>2. OverlapOf(X, fs, level, I)
      <3> HIDE DEF I
      <3> QED
        BY <1>2, <2>1, OverlappingAre, Zenon DEF fs, I
    <2>3. \A f \in S : Overlaps(f, FirstOf(KeysOf(I)).key, LastOf(KeysOf(I)).key)
      <3> HIDE DEF I, fs
      <3>1. \A f \in I : Overlaps(f, FirstOf(KeysOf(I)).key, LastOf(KeysOf(I)).key)
        BY <1>2, <2>1, Hull, Zenon
      <3> QED
        BY <3>1, Zenon DEF I
    <2>4. FirstOf(KeysOf(I)).key \in Nat /\ LastOf(KeysOf(I)).key \in Nat
      <3> HIDE DEF I, fs
      <3> QED
        BY <1>2, <2>1, LastFile, Zenon
    <2> HIDE DEF X
    <2>5. /\ X \subseteq fs
          /\ \A f \in fs : Overlaps(f, FirstOf(KeysOf(I)).key, LastOf(KeysOf(I)).key) => f \in X
          /\ level # 0 => \A f \in X : Overlaps(f, FirstOf(KeysOf(I)).key, LastOf(KeysOf(I)).key)
          /\ level = 0 => Whole(fs, X)
      BY <2>2, Zenon DEF OverlapOf, InputsOf, Whole
    <2>6. S \subseteq X /\ X # {}
      BY <1>4, <1>5, <2>3, <2>5, Zenon
    <2>7. ok => Good(v, level, X)
      <3>1. CASE level = 0
        BY <2>5, <3>1, Zenon DEF Good
      <3>2. CASE level # 0
        <4>1. ok => Apart(fs)
          BY <3>2, Zenon DEF Good
        <4>2. ok => Tidy(fs, X)
          <5> HIDE DEF I
          <5> QED
            BY <1>2, <2>4, <2>5, <2>6, <3>2, <4>1, OverlapTidy, Zenon
        <4> QED
          BY <3>2, <4>1, <4>2, Zenon DEF Good
      <3> QED
        BY <3>1, <3>2
    <2>8. FilesOK(X)
      BY <1>2, <2>5, SomeFiles, Zenon
    <2>9. Sorted(X) \in Seq(fs) /\ ToSet(Sorted(X)) = X /\ Sorted(X) # <<>>
      <3>1. Sorted(X) \in Seq(X) /\ ToSet(Sorted(X)) = X
        BY <2>8, SortedIs, Zenon
      <3>2. Sorted(X) # <<>>
        BY <2>6, <3>1, SomeIn, Zenon
      <3>3. Sorted(X) \in Seq(fs)
        <4> HIDE DEF fs
        <4> QED
          BY <2>5, <3>1
      <3> QED
        BY <3>1, <3>2, <3>3, Zenon
    <2>10. Bounded(fs, I, Sorted(X), exp0)
      <3> HIDE DEF I, fs, exp0
      <3> QED
        BY <1>2, <2>9, BoundaryInputs, Zenon DEF fs, exp0
    <2> HIDE DEF exp0
    <2>11. exp0 \in Seq(fs) /\ exp0 # <<>> /\ X \subseteq E /\ E \subseteq fs
           /\ (Covered(I \cup X) => Covered(I \cup E))
      BY <2>9, <2>10, Zenon DEF Bounded
    <2>12. ok => Settled(fs, E)
      BY <1>2, <2>7, <2>9, <2>10, GoodSettled, Zenon
    <2> HIDE DEF E
    <2>13. in1 \subseteq exp1
      <3>1. S \subseteq E
        BY <2>6, <2>11, Zenon
      <3> QED
        BY <1>5, <2>11, <3>1, MoreNext, Zenon DEF in1, m
    <2>14. exp1 \subseteq v[m]
      <3>1. E # {}
        BY <2>6, <2>11, Zenon
      <3>2. OverlapOf(exp1, v[m], m, E)
        BY <1>2, <2>11, <3>1, OverlappingAre, Zenon
      <3> QED
        BY <3>2, Zenon DEF OverlapOf, InputsOf
    <2>15. Cardinality(exp1) = Cardinality(in1)
      BY <1>11, Zenon DEF grow
    <2>16. exp1 = in1
      <3>1. IsFiniteSet(exp1)
        BY <1>2, <2>14, FS_Subset, Zenon DEF FilesOK
      <3> HIDE DEF exp1
      <3>2. Cardinality(in1) \in Nat /\ (in1 # exp1 => Cardinality(in1) < Cardinality(exp1))
        BY <2>13, <3>1, SmallerPart, Zenon
      <3> QED
        BY <2>15, <3>2
    <2>17. ok => Covered(E \cup in1)
      <3>1. ok => Covered(I \cup X)
        <4> HIDE DEF I, fs
        <4> QED
          BY <1>2, <1>7, <2>1, <2>2, CoveredReach, Zenon DEF I
      <3>2. I \cup E = E \cup in1
        BY <2>6, <2>11, Zenon
      <3> QED
        BY <2>11, <3>1, <3>2, Zenon
    <2>18. c = CompactionOf(v, level, exp0, exp1)
      BY <1>1, <1>11, Zenon
    <2>19. c.level = level /\ c.in0 = exp0 /\ c.in1 = exp1
      <3> HIDE DEF exp1
      <3>1. /\ CompactionOf(v, level, exp0, exp1).level = level
            /\ CompactionOf(v, level, exp0, exp1).in0 = exp0
            /\ CompactionOf(v, level, exp0, exp1).in1 = exp1
        BY DEF CompactionOf
      <3> QED
        BY <2>18, <3>1, Zenon
    <2> HIDE DEF exp1
    <2>20. Chosen(v, level, c)
      BY <2>11, <2>19, Zenon DEF Chosen, exp1, E, m
    <2>21. ok => Settled(v[level], ToSet(c.in0)) /\ Covered(ToSet(c.in0) \cup c.in1)
      BY <2>12, <2>16, <2>17, <2>19, Zenon DEF E
    <2> QED
      BY <2>20, <2>21, Zenon DEF Outcome, c
  <1> QED
    BY <1>10, <1>11

LEMMA NothingToSize == TotalFileSize({}) = 0
  <1> DEFINE R(f) == f = [s \in SUBSET {} |-> IF s = {} THEN 0
                                              ELSE LET x == CHOOSE x \in s : TRUE
                                                   IN  Size(x) + f[s \ {x}]]
             it == CHOOSE f : R(f)
             z == [s \in SUBSET {} |-> 0]
  <1>1. TotalFileSize({}) = it[{}]
    BY Zenon DEF TotalFileSize, MapThenSumSet, MapThenFoldSet
  <1>2. \A s \in SUBSET {} : s = {}
    OBVIOUS
  <1>3. R(z)
    BY <1>2, Zenon
  <1>4. R(it)
    <2> HIDE DEF R, z
    <2> QED
      BY <1>3, Zenon
  <1> HIDE DEF it
  <1>5. it[{}] = 0
    <2>1. {} \in SUBSET {}
      OBVIOUS
    <2> QED
      BY <1>4, <2>1, Zenon
  <1> QED
    BY <1>1, <1>5, Zenon

LEMMA LevelHolds == ASSUME NEW l \in Nat PROVE MaxBytesForLevel(l) \in Nat \ {0}
  <1> DEFINE B(f) == f = [k \in 0 .. l |-> IF k <= 1 THEN LevelBase ELSE 10 * f[k - 1]]
             it == CHOOSE f : B(f)
             S == Nat \ {0}
             step == [k \in 1 .. l |-> [x \in S |-> IF k <= 1 THEN LevelBase ELSE 10 * x]]
  <1>1. MaxBytesForLevel(l) = it[l]
    BY Zenon DEF MaxBytesForLevel
  <1>2. LevelBase \in S /\ \A k \in 1 .. l : \A x \in S : step[k][x] \in S
    BY Constants
  <1>3. \A k \in 1 .. l : \A x \in S : step[k][x] = IF k <= 1 THEN LevelBase ELSE 10 * x
    BY Zenon
  <1> HIDE DEF S, step
  <1>4. PICK f \in [0 .. l -> S] : Follows(f, l, LevelBase, step)
    BY <1>2, RecursFacts, Zenon
  <1>5. B(f)
    <2>1. ASSUME NEW k \in 0 .. l PROVE f[k] = IF k <= 1 THEN LevelBase ELSE 10 * f[k - 1]
      <3>1. CASE k = 0
        <4>1. f[0] = LevelBase
          BY <1>4, Zenon DEF Follows
        <4> QED
          BY <3>1, <4>1
      <3>2. CASE k # 0
        <4>1. k \in 1 .. l /\ k - 1 \in 0 .. l
          BY <3>2
        <4>2. f[k] = step[k][f[k - 1]] /\ f[k - 1] \in S
          BY <1>4, <4>1, Zenon DEF Follows
        <4>3. PICK x \in S : x = f[k - 1]
          BY <4>2, Zenon
        <4>4. step[k][x] = IF k <= 1 THEN LevelBase ELSE 10 * x
          BY <1>3, <4>1, Zenon
        <4> QED
          BY <4>2, <4>3, <4>4
      <3> QED
        BY <3>1, <3>2
    <2>2. f = [k \in 0 .. l |-> f[k]]
      BY <1>4, Zenon DEF Follows
    <2> QED
      BY <2>1, <2>2
  <1>6. B(it)
    <2> HIDE DEF B
    <2> QED
      BY <1>5, Zenon
  <1> HIDE DEF it
  <1> DEFINE P == {k \in 0 .. l : it[k] \in S}
  <1>7. \A k \in 0 .. l : it[k] = IF k <= 1 THEN LevelBase ELSE 10 * it[k - 1]
    BY <1>6, Zenon
  <1>8. 0 \in P
    BY <1>2, <1>7
  <1>9. ASSUME NEW k \in 1 .. l, k - 1 \in P PROVE k \in P
    <2>1. it[k - 1] \in Nat \ {0} /\ it[k] = (IF k <= 1 THEN LevelBase ELSE 10 * it[k - 1]) /\ k \in 0 .. l
      BY <1>7, <1>9 DEF S
    <2>2. it[k] \in S
      BY <1>2, <2>1 DEF S
    <2> QED
      BY <2>1, <2>2, Zenon
  <1>10. \A k \in 0 .. l : k \in P
    <2> HIDE DEF P
    <2> QED
      BY <1>8, <1>9, Steps, Zenon
  <1> QED
    BY <1>1, <1>10 DEF S

\* The level of a size compaction has files, and a level below it.
LEMMA LevelToCompact ==
    ASSUME NEW v
    PROVE  /\ CompactionLevel(v) \in Levels /\ CompactionLevel(v) + 1 \in Levels
           /\ SizeCompaction(v) => v[CompactionLevel(v)] # {}
  <1> DEFINE n == NumLevels - 2
             S == 0 .. n
             B(f) == f = [l \in 0 .. n |-> IF l = 0 \/ Above(Score(v, l), Score(v, f[l - 1])) THEN l ELSE f[l - 1]]
             it == CHOOSE f : B(f)
             step == [k \in 1 .. n |-> [x \in S |-> IF Above(Score(v, k), Score(v, x)) THEN k ELSE x]]
             t == CompactionLevel(v)
  <1>1. t = it[n]
    BY Zenon DEF CompactionLevel
  <1>2. n \in Nat
    BY Constants
  <1>3. 0 \in S /\ \A k \in 1 .. n : k \in S
    BY <1>2
  <1> HIDE DEF n, S
  <1>4. \A k \in 1 .. n : \A x \in S : step[k][x] \in S
    BY <1>3, Zenon
  <1>5. \A k \in 1 .. n : \A x \in S : step[k][x] = IF Above(Score(v, k), Score(v, x)) THEN k ELSE x
    BY Zenon
  <1> HIDE DEF step
  <1>6. PICK f \in [0 .. n -> S] : Follows(f, n, 0, step)
    BY <1>2, <1>3, <1>4, RecursFacts, Zenon
  <1>7. B(f)
    <2>1. ASSUME NEW k \in 0 .. n
          PROVE  f[k] = IF k = 0 \/ Above(Score(v, k), Score(v, f[k - 1])) THEN k ELSE f[k - 1]
      <3>1. k # 0 => k \in 1 .. n /\ k - 1 \in 0 .. n
        BY <1>2
      <3> QED
        BY <1>5, <1>6, <3>1, Zenon DEF Follows
    <2>2. f = [k \in 0 .. n |-> f[k]]
      BY <1>6, Zenon DEF Follows
    <2> QED
      BY <2>1, <2>2
  <1>8. B(it)
    <2> HIDE DEF B
    <2> QED
      BY <1>7, Zenon
  <1> HIDE DEF it
  <1> DEFINE P == {k \in 0 .. n : it[k] \in S}
  <1>9. \A k \in 0 .. n : it[k] = IF k = 0 \/ Above(Score(v, k), Score(v, it[k - 1])) THEN k ELSE it[k - 1]
    BY <1>8, Zenon
  <1>10. 0 \in P
    <2>1. 0 \in 0 .. n
      BY <1>2
    <2> QED
      BY <1>3, <1>9, <2>1, Zenon
  <1>11. ASSUME NEW k \in 1 .. n, k - 1 \in P PROVE k \in P
    <2>1. k \in 0 .. n
      BY <1>2
    <2> QED
      BY <1>3, <1>9, <1>11, <2>1, Zenon
  <1>12. \A k \in 0 .. n : k \in P
    <2> HIDE DEF P
    <2> QED
      BY <1>2, <1>10, <1>11, Steps, Zenon
  <1>13. t \in S
    <2>1. n \in 0 .. n
      BY <1>2
    <2> QED
      BY <1>1, <1>12, <2>1, Zenon
  <1> HIDE DEF t
  <1>14. t \in Levels /\ t + 1 \in Levels /\ t \in Nat
    BY <1>13, Constants DEF S, n, Levels
  <1>15. ASSUME SizeCompaction(v), v[t] = {} PROVE FALSE
    <2>1. Score(v, t)[1] >= Score(v, t)[2]
      BY <1>15, Zenon DEF SizeCompaction, t
    <2>2. CASE t = 0
      <3>1. Score(v, t) = <<Cardinality(v[t]), L0Trigger>>
        BY <2>2, Zenon DEF Score
      <3>2. Cardinality(v[t]) = 0
        BY <1>15, FS_EmptySet, Zenon
      <3> QED
        BY <2>1, <3>1, <3>2, Constants
    <2>3. CASE t # 0
      <3>1. Score(v, t) = <<TotalFileSize(v[t]), MaxBytesForLevel(t)>>
        BY <2>3, Zenon DEF Score
      <3>2. TotalFileSize(v[t]) = 0
        BY <1>15, NothingToSize, Zenon
      <3>3. MaxBytesForLevel(t) \in Nat \ {0}
        BY <1>14, LevelHolds, Zenon
      <3> QED
        BY <2>1, <3>1, <3>2, <3>3
    <2> QED
      BY <2>2, <2>3
  <1> QED
    BY <1>14, <1>15, Zenon DEF t

\* The outcome of a choice: c takes files of some level that has a level below it.
ChosenWell(v, c) ==
    /\ c.level \in Levels /\ c.level + 1 \in Levels /\ c.level \in Nat
    /\ c.in0 \in Seq(v[c.level]) /\ c.in0 # <<>> /\ ToSet(c.in0) \subseteq v[c.level]
    /\ ToSet(c.in0) # {} /\ c.in1 \subseteq v[c.level + 1]

\* It may be carried out in the order of the tree.
InOrderWith(v, c) ==
    /\ Replaceable(v, c.level, ToSet(c.in0), c.in1)
    /\ Covered(ToSet(c.in0) \cup c.in1)

LEMMA ChosenIs ==
    ASSUME NEW v, VersionOK(v), NEW level \in Levels, level + 1 \in Levels, NEW s \in Seq(v[level]),
           s # <<>>, NEW c, c = SetupOtherInputs(v, level, s)
    PROVE  /\ ChosenWell(v, c) /\ c.level = level
           /\ Apart(v[level + 1]) /\ Good(v, level, ToSet(s)) /\ Covered(ToSet(s)) => InOrderWith(v, c)
  <1> DEFINE m == level + 1
             S == ToSet(c.in0)
             fs == v[level]
  <1>1. FilesOK(fs) /\ FilesOK(v[m]) /\ level \in Nat /\ m \in Nat
    BY LevelsAre, Zenon DEF VersionOK
  <1>2. level + 1 # 0
    BY <1>1
  <1>3. Outcome(v, level, s, c)
    BY <1>2, SetupIs, Zenon
  <1>4. c.level = level /\ c.in0 \in Seq(fs) /\ c.in0 # <<>> /\ c.in1 = Overlapping(v, m, S)
        /\ (Good(v, level, ToSet(s)) /\ Covered(ToSet(s)) => Settled(fs, S) /\ Covered(S \cup c.in1))
    BY <1>3, Zenon DEF Outcome, Chosen
  <1>5. S \subseteq fs /\ S # {}
    <2>1. c.in0[1] \in S /\ S \subseteq fs
      BY <1>4, SomeIn, Zenon
    <2> QED
      BY <2>1, Zenon
  <1>6. OverlapOf(c.in1, v[m], m, S)
    <2> HIDE DEF m, fs
    <2>1. OverlapOf(Overlapping(v, m, S), v[m], m, S)
      BY <1>1, <1>5, OverlappingAre, Zenon
    <2> QED
      BY <1>4, <2>1, Zenon
  <1>7. c.in1 \subseteq v[m]
    BY <1>6, Zenon DEF OverlapOf, InputsOf
  <1>8. ChosenWell(v, c)
    BY <1>1, <1>4, <1>5, <1>7, Zenon DEF ChosenWell
  <1>9. ASSUME Apart(v[level + 1]), Good(v, level, ToSet(s)), Covered(ToSet(s)) PROVE InOrderWith(v, c)
    <2>1. \A g \in v[m] \ c.in1 : Ahead(g.data, KeysOf(S \cup c.in1)) \/ Ahead(KeysOf(S \cup c.in1), g.data)
      <3>1. PICK T : T = c.in1
        BY Zenon
      <3>2. OverlapOf(T, v[m], m, S) /\ Apart(v[m]) /\ m # 0
        BY <1>2, <1>6, <1>9, <3>1, Zenon
      <3>3. \A g \in v[m] \ T : Ahead(g.data, KeysOf(S \cup T)) \/ Ahead(KeysOf(S \cup T), g.data)
        <4> HIDE DEF m, fs, S
        <4> QED
          BY <1>1, <1>5, <3>2, NextLevel, Zenon
      <3> QED
        BY <3>1, <3>3, Zenon
    <2> QED
      BY <1>4, <1>9, <2>1, Zenon DEF InOrderWith, Replaceable
  <1> QED
    BY <1>4, <1>8, <1>9, Zenon

LEMMA CutOffIs ==
    ASSUME NEW level, NEW S, NEW q \in Seq(S), q # <<>>
    PROVE  CutOff(level, q) \in Seq(S) /\ CutOff(level, q) # <<>>
  <1> DEFINE full == {i \in DOMAIN q : TotalFileSize({q[j] : j \in 1 .. i}) >= TargetFileSize}
             n == Len(q)
             m == Min(full)
  <1>1. n \in Nat /\ n # 0 /\ DOMAIN q = 1 .. n
    OBVIOUS
  <1>2. CASE level > 0 /\ full # {}
    <2>1. CutOff(level, q) = SubSeq(q, 1, m)
      BY <1>2, Zenon DEF CutOff
    <2>2. full \subseteq 1 .. n /\ full \subseteq Nat
      BY <1>1
    <2> HIDE DEF full
    <2>3. m \in full
      BY <1>2, <2>2, MinIn, Zenon
    <2> HIDE DEF m
    <2>4. m \in 1 .. Len(q)
      BY <2>2, <2>3
    <2>5. SubSeq(q, 1, m) \in Seq(S) /\ Len(SubSeq(q, 1, m)) = m
      BY <2>4
    <2>6. SubSeq(q, 1, m) # <<>>
      BY <2>4, <2>5
    <2> QED
      BY <2>1, <2>5, <2>6, Zenon
  <1>3. CASE ~(level > 0 /\ full # {})
    <2>1. CutOff(level, q) = q
      BY <1>3, Zenon DEF CutOff
    <2> QED
      BY <2>1, Zenon
  <1> QED
    BY <1>2, <1>3

LEMMA Single ==
    ASSUME NEW S, NEW x \in S PROVE <<x>> \in Seq(S) /\ <<x>> # <<>> /\ ToSet(<<x>>) = {x}
  <1>1. <<x>> \in Seq(S) /\ Len(<<x>>) = 1 /\ <<x>>[1] = x
    OBVIOUS
  <1>2. DOMAIN <<x>> = 1 .. Len(<<x>>) /\ 1 .. 1 = {1}
    BY <1>1
  <1>3. <<x>> # <<>>
    BY <1>1
  <1>4. PICK s \in Seq(S) : s = <<x>>
    BY <1>1, Zenon
  <1>5. DOMAIN s = {1} /\ s[1] = x
    BY <1>1, <1>2, <1>4
  <1>6. ToSet(s) = {s[1]}
    <2>1. ToSet(s) = {s[i] : i \in {1}}
      BY <1>5, Zenon DEF ToSet
    <2> QED
      BY <2>1, Zenon
  <1> QED
    BY <1>1, <1>3, <1>4, <1>5, <1>6, Zenon

LEMMA SortedSome ==
    ASSUME NEW fs, FilesOK(fs), NEW W, W \subseteq fs, W # {}
    PROVE  Sorted(W) \in Seq(fs) /\ ToSet(Sorted(W)) = W /\ Sorted(W) # <<>>
  <1>1. Sorted(W) \in Seq(W) /\ ToSet(Sorted(W)) = W
    BY SomeFiles, SortedIs, Zenon
  <1>2. Sorted(W) # <<>>
    BY <1>1, SomeIn, Zenon
  <1>3. Sorted(W) \in Seq(fs)
    BY <1>1
  <1> QED
    BY <1>1, <1>2, <1>3, Zenon

LEMMA RangeIs ==
    ASSUME NEW v, VersionOK(v), NEW level \in Levels, level + 1 \in Levels, NEW lo \in Nat, NEW hi \in Nat,
           GetOverlappingInputs(v, level, lo, hi) # {}, NEW c, c = CompactRange(v, level, lo, hi)
    PROVE  ChosenWell(v, c) /\ c.level = level
  <1> DEFINE W == GetOverlappingInputs(v, level, lo, hi)
             s == CutOff(level, Sorted(W))
  <1>1. FilesOK(v[level]) /\ level \in Nat
    BY LevelsAre, Zenon DEF VersionOK
  <1>2. W \subseteq v[level]
    BY <1>1, InputsAre, Zenon DEF InputsOf
  <1>3. c = SetupOtherInputs(v, level, s)
    BY Zenon DEF CompactRange
  <1> HIDE DEF W
  <1>4. Sorted(W) \in Seq(v[level]) /\ Sorted(W) # <<>>
    BY <1>1, <1>2, SortedSome, Zenon DEF W
  <1>5. s \in Seq(v[level]) /\ s # <<>>
    BY <1>4, CutOffIs, Zenon
  <1> HIDE DEF s
  <1> QED
    BY <1>3, <1>5, ChosenIs, Zenon

LEMMA FileAfterIs ==
    ASSUME NEW v, NEW level, FilesOK(v[level]), v[level] # {}, NEW pointer
    PROVE  FileAfter(v, level, pointer) \in v[level]
  <1> DEFINE after == {f \in v[level] : pointer = {} \/ \E p \in pointer : Before(p, Largest(f))}
             S == IF after = {} THEN v[level] ELSE after
  <1>1. S \subseteq v[level] /\ S # {}
    OBVIOUS
  <1>2. FileAfter(v, level, pointer) = Sorted(S)[1]
    BY Zenon DEF FileAfter
  <1> HIDE DEF S
  <1>3. Sorted(S)[1] \in S
    BY <1>1, SomeFiles, FirstFile, Zenon
  <1> QED
    BY <1>1, <1>2, <1>3, Zenon

LEMMA FromIs ==
    ASSUME NEW v, VersionOK(v), NEW level \in Levels, level + 1 \in Levels, NEW file \in v[level],
           NEW c, c = CompactionFrom(v, level, file)
    PROVE  /\ ChosenWell(v, c) /\ c.level = level
           /\ (\A l \in Levels \ {0} : Apart(v[l])) => InOrderWith(v, c)
  <1> DEFINE lo == Smallest(file).key
             hi == Largest(file).key
             W == GetOverlappingInputs(v, 0, lo, hi)
             s == IF level = 0 THEN Sorted(W) ELSE <<file>>
             ok == \A l \in Levels \ {0} : Apart(v[l])
  <1>1. FilesOK(v[level]) /\ level \in Nat /\ level + 1 # 0
    <2>1. level \in Nat /\ FilesOK(v[level])
      BY LevelsAre, Zenon DEF VersionOK
    <2> QED
      BY <2>1
  <1>2. c = SetupOtherInputs(v, level, s)
    BY Zenon DEF CompactionFrom
  <1>3. lo \in Nat /\ hi \in Nat /\ lo <= hi
    BY <1>1, Within1, Zenon
  <1>4. s \in Seq(v[level]) /\ s # <<>> /\ (ok => Good(v, level, ToSet(s)) /\ Covered(ToSet(s)))
    <2>1. CASE level = 0
      <3>1. /\ W \subseteq v[0] /\ Reached(W, lo, hi) /\ Whole(v[0], W)
            /\ \A f \in v[0] : Overlaps(f, lo, hi) => f \in W
        <4> HIDE DEF lo, hi
        <4>1. InputsOf(W, v[0], 0, lo, hi)
          BY <1>1, <1>3, <2>1, InputsAre, Zenon
        <4> QED
          BY <4>1, Zenon DEF InputsOf, Whole
      <3>2. file \in W
        <4>1. Overlaps(file, lo, hi)
          BY <1>3 DEF Overlaps
        <4> QED
          BY <2>1, <3>1, <4>1, Zenon
      <3> HIDE DEF W
      <3>3. Sorted(W) \in Seq(v[0]) /\ ToSet(Sorted(W)) = W /\ Sorted(W) # <<>>
        BY <1>1, <2>1, <3>1, <3>2, SortedSome, Zenon
      <3>4. Covered(W)
        <4> SUFFICES ASSUME NEW a \in W, NEW b \in W, NEW k \in Nat, Smallest(a).key <= k, k <= Largest(b).key
                     PROVE  \E g \in W : Spans(g, k)
          BY Zenon DEF Covered
        <4>1. (lo <= k /\ k <= hi) \/ \E f \in W : Spans(f, k)
          BY <3>1, Zenon DEF Reached
        <4> QED
          BY <3>2, <4>1, Zenon DEF Spans
      <3>5. s = Sorted(W)
        BY <2>1, Zenon
      <3> QED
        BY <2>1, <3>1, <3>3, <3>4, <3>5, Zenon DEF Good
    <2>2. CASE level # 0
      <3>1. s = <<file>>
        BY <2>2, Zenon
      <3>2. <<file>> \in Seq(v[level]) /\ <<file>> # <<>> /\ ToSet(<<file>>) = {file}
        BY Single, Zenon
      <3>3. Covered({file})
        BY <1>1, CoveredOne, Zenon
      <3>4. Tidy(v[level], {file})
        <4>1. \E h \in {file} : Largest(h) = LastOf(KeysOf({file}))
          <5>1. PICK I : I = {file}
            BY Zenon
          <5>2. I \subseteq v[level] /\ I # {}
            BY <5>1, Zenon
          <5>3. \E h \in I : Largest(h) = LastOf(KeysOf(I))
            BY <1>1, <5>2, LastFile, Zenon
          <5> QED
            BY <5>1, <5>3, Zenon
        <4> QED
          BY <4>1, Zenon DEF Tidy
      <3> QED
        BY <2>2, <3>1, <3>2, <3>3, <3>4, Zenon DEF Good
    <2> QED
      BY <2>1, <2>2
  <1> HIDE DEF s
  <1>5. ChosenWell(v, c) /\ c.level = level
        /\ (Apart(v[level + 1]) /\ Good(v, level, ToSet(s)) /\ Covered(ToSet(s)) => InOrderWith(v, c))
    BY <1>2, <1>4, ChosenIs, Zenon
  <1> QED
    BY <1>1, <1>4, <1>5, Zenon

\* A file chosen for its seeks.
SoughtFile(v, f) == f.level \in Levels /\ f.level + 1 \in Levels /\ f.file \in v[f.level]

LEMMA PickIs ==
    ASSUME NEW v, VersionOK(v), NEW pointer, NEW f, ~SizeCompaction(v) => SoughtFile(v, f),
           NEW c, c = PickCompaction(v, pointer, f)
    PROVE  /\ ChosenWell(v, c)
           /\ (\A l \in Levels \ {0} : Apart(v[l])) => InOrderWith(v, c)
  <1> DEFINE t == CompactionLevel(v)
             level == IF SizeCompaction(v) THEN t ELSE f.level
             file == IF SizeCompaction(v) THEN FileAfter(v, level, pointer[level]) ELSE f.file
  <1>1. c = CompactionFrom(v, level, file)
    BY Zenon DEF PickCompaction
  <1>2. level \in Levels /\ level + 1 \in Levels /\ file \in v[level]
    <2>1. CASE SizeCompaction(v)
      <3>1. t \in Levels /\ t + 1 \in Levels /\ v[t] # {}
        BY <2>1, LevelToCompact, Zenon
      <3>2. FilesOK(v[t])
        BY <3>1, Zenon DEF VersionOK
      <3> HIDE DEF t
      <3>3. FileAfter(v, t, pointer[t]) \in v[t]
        BY <3>1, <3>2, FileAfterIs, Zenon
      <3>4. level = t /\ file = FileAfter(v, t, pointer[t])
        BY <2>1, Zenon
      <3> QED
        BY <3>1, <3>3, <3>4, Zenon
    <2>2. CASE ~SizeCompaction(v)
      <3>1. level = f.level /\ file = f.file
        BY <2>2, Zenon
      <3> QED
        BY <2>2, <3>1, Zenon DEF SoughtFile
    <2> QED
      BY <2>1, <2>2
  <1> HIDE DEF level, file
  <1> QED
    BY <1>1, <1>2, FromIs, Zenon
-----------------------------------------------------------------------------
\* The outputs of a compaction follow one another.

\* Outputs made of the entries A.
Outs(s, A) ==
    /\ s \in Seq((SUBSET A) \ {{}})
    /\ \A x, y \in DOMAIN s : x < y => Ahead(s[x], s[y])

LEMMA OutsMore == ASSUME NEW A, NEW B, A \subseteq B, NEW s, Outs(s, A) PROVE Outs(s, B)
  <1>1. s \in Seq((SUBSET A) \ {{}}) /\ \A x, y \in DOMAIN s : x < y => Ahead(s[x], s[y])
    BY Zenon DEF Outs
  <1>2. (SUBSET A) \ {{}} \subseteq (SUBSET B) \ {{}}
    BY Zenon
  <1>3. s \in Seq((SUBSET B) \ {{}})
    BY <1>1, <1>2
  <1> QED
    BY <1>1, <1>3, Zenon DEF Outs

LEMMA OutsNext ==
    ASSUME NEW A, NEW s, Outs(s, A), NEW o, o \subseteq A, o # {}, \A x \in DOMAIN s : Ahead(s[x], o)
    PROVE  Outs(Append(s, o), A)
  <1> DEFINE T == (SUBSET A) \ {{}}
             t == Append(s, o)
             n == Len(s)
  <1>1. s \in Seq(T) /\ \A x, y \in DOMAIN s : x < y => Ahead(s[x], s[y])
    BY Zenon DEF Outs
  <1>2. o \in T
    BY Zenon
  <1> HIDE DEF T
  <1>3. t \in Seq(T) /\ n \in Nat /\ DOMAIN s = 1 .. n /\ DOMAIN t = 1 .. n + 1 /\ t[n + 1] = o
        /\ \A x \in 1 .. n : t[x] = s[x]
    BY <1>1, <1>2
  <1> HIDE DEF t, n
  <1>4. ASSUME NEW x \in DOMAIN t, NEW y \in DOMAIN t, x < y PROVE Ahead(t[x], t[y])
    <2>1. x \in 1 .. n /\ (y \in 1 .. n \/ y = n + 1)
      BY <1>3, <1>4
    <2> QED
      BY <1>1, <1>3, <1>4, <2>1, Zenon
  <1> QED
    BY <1>3, <1>4, Zenon DEF Outs, t, T

WorkFields == {"grandparent", "seen", "overlapped", "stop", "key", "seq", "open", "done"}

\* DoCompactionWork has gone through the entries A.
Working(A, st) ==
    /\ DOMAIN st = WorkFields
    /\ Outs(st.done, A) /\ st.open \subseteq A
    /\ \A x \in DOMAIN st.done : Ahead(st.done[x], st.open)

LEMMA FinishKeeps ==
    ASSUME NEW A, NEW st, Working(A, st) PROVE Working(A, FinishOutput(st))
  <1>1. CASE st.open = {}
    BY <1>1, Zenon DEF FinishOutput
  <1>2. CASE st.open # {}
    <2> DEFINE q == [st EXCEPT !.done = Append(@, st.open), !.open = {}]
    <2>1. FinishOutput(st) = q
      BY <1>2, Zenon DEF FinishOutput
    <2>2. DOMAIN st = WorkFields /\ Outs(st.done, A) /\ st.open \subseteq A
          /\ \A x \in DOMAIN st.done : Ahead(st.done[x], st.open)
      BY Zenon DEF Working
    <2>3. DOMAIN q = WorkFields /\ q.done = Append(st.done, st.open) /\ q.open = {}
      BY <2>2 DEF WorkFields
    <2> HIDE DEF q
    <2>4. Outs(q.done, A)
      <3>1. PICK s : s = st.done
        BY Zenon
      <3>2. PICK o : o = st.open
        BY Zenon
      <3>3. Outs(s, A) /\ o \subseteq A /\ o # {} /\ \A x \in DOMAIN s : Ahead(s[x], o)
        BY <1>2, <2>2, <3>1, <3>2, Zenon
      <3>4. Outs(Append(s, o), A)
        BY <3>3, OutsNext
      <3>5. q.done = Append(s, o)
        BY <2>3, <3>1, <3>2, Zenon
      <3> QED
        BY <3>4, <3>5, Zenon
    <2>5. \A x \in DOMAIN q.done : Ahead(q.done[x], q.open)
      BY <2>3, Zenon DEF Ahead
    <2> QED
      BY <2>1, <2>3, <2>4, <2>5, Zenon DEF Working
  <1> QED
    BY <1>1, <1>2

LEMMA StopKeeps ==
    ASSUME NEW A, NEW st, Working(A, st), NEW c, NEW e PROVE Working(A, ShouldStopBefore(c, st, e))
  <1> DEFINE passed == {i \in DOMAIN c.grandparents :
                           i > st.grandparent /\ Before(Largest(c.grandparents[i]), e)}
             bytes  == st.overlapped + IF st.seen
                       THEN TotalFileSize({c.grandparents[i] : i \in passed}) ELSE 0
             stop   == bytes > MaxGrandParentOverlapBytes
             over == IF stop THEN 0 ELSE bytes
             n == Cardinality(passed)
             q == [st EXCEPT !.grandparent = @ + n, !.seen = TRUE, !.overlapped = over, !.stop = stop]
  <1>1. ShouldStopBefore(c, st, e) = q
    BY Zenon DEF ShouldStopBefore
  <1> HIDE DEF n, over, stop
  <1>2. DOMAIN st = WorkFields
    BY Zenon DEF Working
  <1>3. DOMAIN q = WorkFields /\ q.done = st.done /\ q.open = st.open
    BY <1>2 DEF WorkFields
  <1> HIDE DEF q
  <1> QED
    BY <1>1, <1>3, Zenon DEF Working

LEMMA OutputKeeps ==
    ASSUME NEW A, NEW st, Working(A, st), NEW e, \A a \in A : Before(a, e), NEW drop
    PROVE  Working(A \cup {e}, Output(drop, st, e))
  <1> DEFINE open == IF drop THEN st.open ELSE st.open \cup {e}
             next == [st EXCEPT !.open = open, !.key = e.key, !.seq = e.seq]
             B == A \cup {e}
  <1>1. Output(drop, st, e) = IF Cardinality(open) >= TargetFileSize THEN FinishOutput(next) ELSE next
    BY Zenon DEF Output
  <1>2. DOMAIN st = WorkFields /\ Outs(st.done, A) /\ st.open \subseteq A
        /\ \A x \in DOMAIN st.done : Ahead(st.done[x], st.open)
    BY Zenon DEF Working
  <1>3. open \subseteq B /\ open \subseteq st.open \cup {e}
    BY <1>2, Zenon
  <1> HIDE DEF open
  <1>4. DOMAIN next = WorkFields /\ next.done = st.done /\ next.open = open
    BY <1>2 DEF WorkFields
  <1> HIDE DEF next
  <1>5. Outs(next.done, B)
    <2>1. A \subseteq B
      BY Zenon
    <2> HIDE DEF B
    <2> QED
      BY <1>2, <1>4, <2>1, OutsMore, Zenon
  <1>6. ASSUME NEW x \in DOMAIN next.done PROVE Ahead(next.done[x], next.open)
    <2>1. Ahead(st.done[x], st.open) /\ x \in DOMAIN st.done
      BY <1>2, <1>4, <1>6, Zenon
    <2>2. st.done[x] \subseteq A
      <3>1. st.done \in Seq((SUBSET A) \ {{}})
        BY <1>2, Zenon DEF Outs
      <3>2. st.done[x] \in (SUBSET A) \ {{}}
        BY <2>1, <3>1
      <3> QED
        BY <3>2, Zenon
    <2>3. Ahead(st.done[x], st.open \cup {e})
      BY <2>1, <2>2, Zenon DEF Ahead
    <2> QED
      BY <1>3, <1>4, <2>3, Zenon DEF Ahead
  <1>7. Working(B, next)
    BY <1>3, <1>4, <1>5, <1>6, Zenon DEF Working
  <1>8. Working(B, FinishOutput(next))
    <2> HIDE DEF B
    <2> QED
      BY <1>7, FinishKeeps, Zenon
  <1> QED
    BY <1>1, <1>7, <1>8, Zenon

WorkStart == [grandparent |-> 0, seen |-> FALSE, overlapped |-> 0, stop |-> FALSE,
              key |-> -1, seq |-> 0, open |-> {}, done |-> <<>>]
WorkStep(v, c, smallest, e, st) == WorkOn(v, c, smallest, ShouldStopBefore(c, st, e), e)

Works(f, v, c, smallest, input, m) ==
    f = [i \in 0 .. m |-> IF i = 0 THEN WorkStart ELSE WorkStep(v, c, smallest, input[i], f[i - 1])]

LEMMA WorksNext ==
    ASSUME NEW v, NEW c, NEW smallest, NEW input, NEW m \in Nat, NEW f,
           Works(f, v, c, smallest, input, m)
    PROVE  \E g : Works(g, v, c, smallest, input, m + 1)
  <1> DEFINE g == [i \in 0 .. m + 1 |-> IF i = m + 1 THEN WorkStep(v, c, smallest, input[i], f[m]) ELSE f[i]]
  <1>1. \A i \in 0 .. m + 1 :
            g[i] = IF i = 0 THEN WorkStart ELSE WorkStep(v, c, smallest, input[i], g[i - 1])
    <2> TAKE i \in 0 .. m + 1
    <2>1. CASE i = m + 1
      <3>1. m \in 0 .. m + 1 /\ m # m + 1 /\ m + 1 # 0 /\ (m + 1) - 1 = m /\ m + 1 \in 0 .. m + 1
        OBVIOUS
      <3>2. g[m + 1] = WorkStep(v, c, smallest, input[m + 1], f[m]) /\ g[m] = f[m]
        BY <3>1, Zenon
      <3> HIDE DEF g
      <3> QED
        BY <2>1, <3>1, <3>2, Zenon
    <2>2. CASE i # m + 1
      <3>1. i \in 0 .. m /\ (i # 0 => i - 1 \in 0 .. m /\ i - 1 \in 0 .. m + 1 /\ i - 1 # m + 1)
        BY <2>2
      <3>2. f[i] = IF i = 0 THEN WorkStart ELSE WorkStep(v, c, smallest, input[i], f[i - 1])
        BY <3>1, Zenon DEF Works
      <3>3. g[i] = f[i] /\ (i # 0 => g[i - 1] = f[i - 1])
        BY <2>2, <3>1, Zenon
      <3> HIDE DEF g
      <3> QED
        BY <3>2, <3>3, Zenon
    <2> QED
      BY <2>1, <2>2
  <1>2. g = [i \in 0 .. m + 1 |-> g[i]]
    OBVIOUS
  <1> HIDE DEF g
  <1>3. Works(g, v, c, smallest, input, m + 1)
    BY <1>1, <1>2 DEF Works
  <1> QED
    BY <1>3, Zenon

LEMMA WorksSome ==
    ASSUME NEW v, NEW c, NEW smallest, NEW input, NEW n \in Nat
    PROVE  \E f : Works(f, v, c, smallest, input, n)
  <1> DEFINE P == {m \in 0 .. n : \E f : Works(f, v, c, smallest, input, m)}
  <1>1. 0 \in P
    <2>1. Works([i \in 0 .. 0 |-> WorkStart], v, c, smallest, input, 0)
      <3>1. \A i \in 0 .. 0 : i = 0
        OBVIOUS
      <3> QED
        BY <3>1, Zenon DEF Works
    <2>2. 0 \in 0 .. n
      OBVIOUS
    <2> QED
      BY <2>1, <2>2, Zenon
  <1>2. ASSUME NEW k \in 1 .. n, k - 1 \in P PROVE k \in P
    <2>1. k - 1 \in Nat /\ (k - 1) + 1 = k /\ k \in 0 .. n
      OBVIOUS
    <2>2. \E f : Works(f, v, c, smallest, input, k - 1)
      BY <1>2, Zenon
    <2>3. \E f : Works(f, v, c, smallest, input, (k - 1) + 1)
      BY <2>1, <2>2, WorksNext, Zenon
    <2> QED
      BY <2>1, <2>3, Zenon
  <1>3. \A k \in 0 .. n : k \in P
    <2> HIDE DEF P
    <2> QED
      BY <1>1, <1>2, Steps, Zenon
  <1>4. n \in 0 .. n
    OBVIOUS
  <1> QED
    BY <1>3, <1>4, Zenon

\* DoCompactionWork keeps entries of its inputs, in tables that follow one another.
LEMMA OutputsAre ==
    ASSUME NEW v, NEW c, NEW smallest, NEW K, K = KeysOf(ToSet(c.in0) \cup c.in1),
           K \subseteq Entry, Unique(K)
    PROVE  Outs(DoCompactionWork(v, c, smallest), K)
  <1> DEFINE input == InOrder(K)
             n == Len(input)
             w == CHOOSE f : Works(f, v, c, smallest, input, n)
             passed(i) == {input[j] : j \in 1 .. i}
             P == {i \in 0 .. n : Working(passed(i), w[i])}
  <1>1. DoCompactionWork(v, c, smallest) = FinishOutput(w[n]).done
    BY Zenon DEF DoCompactionWork, Works, WorkStep, WorkStart
  <1>2. n \in Nat /\ \A i \in 1 .. n : input[i] \in K
    <2>1. InOrder(K) \in Seq(K) /\ Len(InOrder(K)) = Cardinality(K) /\ Cardinality(K) \in Nat
      BY InOrderLists, Zenon
    <2> HIDE DEF input
    <2>2. input \in Seq(K) /\ n \in Nat
      BY <2>1, Zenon DEF input
    <2> QED
      BY <2>2
  <1>3. \A i, j \in 1 .. n : i < j => Before(input[i], input[j])
    BY InOrderLists, Zenon
  <1> HIDE DEF input, n
  <1>4. Works(w, v, c, smallest, input, n)
    BY <1>2, WorksSome, Zenon
  <1> HIDE DEF w
  <1>5. \A i \in 0 .. n : w[i] = IF i = 0 THEN WorkStart ELSE WorkStep(v, c, smallest, input[i], w[i - 1])
    BY <1>4, Zenon DEF Works
  <1>6. 0 \in P
    <2>1. 0 \in 0 .. n
      BY <1>2
    <2>2. w[0] = WorkStart
      BY <1>5, <2>1, Zenon
    <2>3. /\ DOMAIN WorkStart = WorkFields
          /\ WorkStart.open = {} /\ WorkStart.done = <<>>
      BY DEF WorkStart, WorkFields
    <2>4. Outs(<<>>, passed(0)) /\ DOMAIN <<>> = {}
      <3> HIDE DEF passed
      <3> QED
        BY DEF Outs
    <2>5. Working(passed(0), WorkStart)
      <3> HIDE DEF passed
      <3> QED
        BY <2>3, <2>4, Zenon DEF Working
    <2> QED
      BY <2>1, <2>2, <2>5, Zenon
  <1>7. ASSUME NEW k \in 1 .. n, k - 1 \in P PROVE k \in P
    <2> DEFINE e == input[k]
               A == passed(k - 1)
               s1 == ShouldStopBefore(c, w[k - 1], e)
               s2 == IF s1.stop THEN FinishOutput(s1) ELSE s1
    <2>1. k \in 0 .. n /\ k # 0
      BY <1>2
    <2>2. w[k] = Output(Drop(v, c, smallest, s1, e), s2, e)
      BY <1>5, <2>1, Zenon DEF WorkStep, WorkOn
    <2>3. \A a \in A : Before(a, e)
      <3>1. \A j \in 1 .. k - 1 : j \in 1 .. n /\ j < k
        BY <1>2
      <3> QED
        BY <1>3, <3>1, Zenon
    <2>4. A \cup {e} = passed(k)
      <3>1. \A j : j \in 1 .. k <=> (j \in 1 .. k - 1 \/ j = k)
        BY <1>2
      <3> QED
        BY <3>1, Zenon
    <2>5. Working(A, w[k - 1])
      BY <1>7, Zenon
    <2> HIDE DEF A, e
    <2>6. Working(A, s1)
      BY <2>5, StopKeeps, Zenon
    <2> HIDE DEF s1
    <2>7. Working(A, s2)
      BY <2>6, FinishKeeps, Zenon
    <2> HIDE DEF s2
    <2>8. PICK drop : drop = Drop(v, c, smallest, s1, e)
      BY Zenon
    <2>9. Working(A \cup {e}, Output(drop, s2, e))
      BY <2>3, <2>7, OutputKeeps, Zenon
    <2>10. Working(passed(k), w[k])
      <3> HIDE DEF passed
      <3> QED
        BY <2>2, <2>4, <2>8, <2>9, Zenon
    <2> QED
      BY <2>1, <2>10, Zenon
  <1>8. Working(passed(n), w[n])
    <2>1. \A k \in 0 .. n : k \in P
      <3> HIDE DEF P
      <3> QED
        BY <1>2, <1>6, <1>7, Steps, Zenon
    <2>2. n \in 0 .. n
      BY <1>2
    <2> QED
      BY <2>1, <2>2, Zenon
  <1>9. passed(n) \subseteq K
    BY <1>2, Zenon
  <1> HIDE DEF passed
  <1>10. Working(passed(n), FinishOutput(w[n]))
    BY <1>8, FinishKeeps, Zenon
  <1>11. Outs(FinishOutput(w[n]).done, passed(n))
    BY <1>10, Zenon DEF Working
  <1> QED
    BY <1>1, <1>9, <1>11, OutsMore, Zenon
-----------------------------------------------------------------------------
\* The file a seek is charged to.

\* FlattenSeq, step by step.
Flattens(f, B, m) ==
    f = [i \in 1 .. m |-> IF i = 1 THEN B[i] ELSE f[i - 1] \o B[i]]

LEMMA FlattensNext ==
    ASSUME NEW B, NEW m \in Nat, m # 0, NEW f, Flattens(f, B, m) PROVE \E g : Flattens(g, B, m + 1)
  <1> DEFINE g == [i \in 1 .. m + 1 |-> IF i = m + 1 THEN f[m] \o B[m + 1] ELSE f[i]]
  <1>1. \A i \in 1 .. m + 1 : g[i] = IF i = 1 THEN B[i] ELSE g[i - 1] \o B[i]
    <2> TAKE i \in 1 .. m + 1
    <2>1. CASE i = m + 1
      <3>1. m \in 1 .. m + 1 /\ m # m + 1 /\ m + 1 # 1 /\ (m + 1) - 1 = m /\ m + 1 \in 1 .. m + 1
        OBVIOUS
      <3>2. g[m + 1] = f[m] \o B[m + 1] /\ g[m] = f[m]
        BY <3>1, Zenon
      <3> HIDE DEF g
      <3> QED
        BY <2>1, <3>1, <3>2, Zenon
    <2>2. CASE i \in 1 .. m
      <3>1. f[i] = IF i = 1 THEN B[i] ELSE f[i - 1] \o B[i]
        BY <2>2, Zenon DEF Flattens
      <3>2. g[i] = f[i] /\ (i # 1 => g[i - 1] = f[i - 1])
        BY <2>2
      <3> HIDE DEF g
      <3> QED
        BY <3>1, <3>2, Zenon
    <2> QED
      BY <2>1, <2>2
  <1>2. g = [i \in 1 .. m + 1 |-> g[i]]
    OBVIOUS
  <1> HIDE DEF g
  <1>3. Flattens(g, B, m + 1)
    BY <1>1, <1>2 DEF Flattens
  <1> QED
    BY <1>3, Zenon

LEMMA FlattensSome ==
    ASSUME NEW B, NEW n \in Nat, n # 0 PROVE \E f : Flattens(f, B, n)
  <1> DEFINE bad == {m \in Nat : m # 0 /\ ~\E f : Flattens(f, B, m)}
  <1> SUFFICES ASSUME bad # {} PROVE FALSE
    BY Zenon
  <1>1. PICK m \in bad : \A x \in bad : m <= x
    <2>1. bad \subseteq Nat
      OBVIOUS
    <2> HIDE DEF bad
    <2> QED
      BY <2>1, LeastOf
  <1>2. CASE m = 1
    <2>1. Flattens([i \in 1 .. 1 |-> B[i]], B, 1)
      BY DEF Flattens
    <2> QED
      BY <1>2, <2>1, Zenon
  <1>3. CASE m # 1
    <2>1. m - 1 \in Nat /\ m - 1 # 0 /\ ~(m <= m - 1) /\ (m - 1) + 1 = m
      BY <1>3
    <2>2. (m - 1) \notin bad
      BY <1>1, <2>1, Zenon
    <2>3. \E f : Flattens(f, B, m - 1)
      BY <2>1, <2>2, Zenon
    <2>4. \E f : Flattens(f, B, m)
      BY <2>1, <2>3, FlattensNext, Zenon
    <2> QED
      BY <2>4, Zenon
  <1> QED
    BY <1>2, <1>3


\* A table that was looked at, in its level.
Look(v) == [level : Levels, file : UNION {v[l] : l \in Levels}]

\* The tables looked at in the levels from 1 to m: the first is the highest up.
Down(v, q, m) ==
    /\ q \in Seq(Look(v))
    /\ q # <<>> => q[1].level \in 1 .. m /\ q[1].file \in v[q[1].level]
    /\ Len(q) >= 2 => q[1].level <= m - 1

LEMMA DownNext ==
    ASSUME NEW v, NEW m \in Nat, NEW q, Down(v, q, m), NEW b,
           b = <<>> \/ \E f \in v[m + 1] : b = <<[level |-> m + 1, file |-> f]>>,
           m + 1 \in Levels
    PROVE  Down(v, q \o b, m + 1)
  <1>1. q \in Seq(Look(v)) /\ (q # <<>> => q[1].level \in 1 .. m /\ q[1].file \in v[q[1].level])
        /\ (Len(q) >= 2 => q[1].level <= m - 1)
    BY Zenon DEF Down
  <1>2. CASE b = <<>>
    <2>1. q \o b = q
      BY <1>1, <1>2
    <2>2. (q # <<>> => q[1].level \in 1 .. m + 1) /\ (Len(q) >= 2 => q[1].level <= (m + 1) - 1)
      <3>1. Len(q) >= 2 => q # <<>>
        BY <1>1
      <3> HIDE DEF Look
      <3> QED
        BY <1>1, <3>1
    <2> QED
      BY <1>1, <2>1, <2>2, Zenon DEF Down
  <1>3. CASE \E f \in v[m + 1] : b = <<[level |-> m + 1, file |-> f]>>
    <2>1. PICK f \in v[m + 1] : b = <<[level |-> m + 1, file |-> f]>>
      BY <1>3, Zenon
    <2> DEFINE x == [level |-> m + 1, file |-> f]
    <2>2. x \in Look(v) /\ x.level = m + 1 /\ x.file = f
      BY DEF Look
    <2>3. b = <<x>>
      BY <2>1, Zenon
    <2> HIDE DEF x
    <2>4. PICK T : T = Look(v)
      BY Zenon
    <2>5. q \in Seq(T) /\ x \in T
      BY <1>1, <2>2, <2>4, Zenon
    <2>6. q \o b \in Seq(T) /\ q \o b # <<>> /\ Len(q \o b) = Len(q) + 1
          /\ (q = <<>> => (q \o b)[1] = x) /\ (q # <<>> => (q \o b)[1] = q[1])
      BY <2>3, <2>5
    <2>7. CASE q = <<>>
      <3>1. Len(q \o b) = 1
        BY <2>6, <2>7
      <3>2. (q \o b)[1].level = m + 1 /\ (q \o b)[1].file \in v[m + 1]
        BY <2>2, <2>6, <2>7, Zenon
      <3> DEFINE r == q \o b
      <3> HIDE DEF r
      <3>3. Len(r) = 1 /\ r[1].level = m + 1 /\ r[1].file \in v[m + 1] /\ r \in Seq(Look(v))
        BY <2>4, <2>6, <3>1, <3>2, Zenon DEF r
      <3>4. r[1].level \in 1 .. m + 1 /\ ~(Len(r) >= 2)
        BY <3>3
      <3> QED
        BY <3>3, <3>4, Zenon DEF Down, r
    <2>8. CASE q # <<>>
      <3> DEFINE r == q \o b
                 l == q[1].level
      <3>1. r \in Seq(Look(v)) /\ r[1] = q[1]
        BY <2>4, <2>6, <2>8, Zenon
      <3>2. l \in 1 .. m /\ q[1].file \in v[l]
        BY <1>1, <2>8, Zenon
      <3>3. r[1].level = l /\ r[1].file \in v[l]
        BY <3>1, <3>2, Zenon
      <3> HIDE DEF r, l
      <3>4. l \in 1 .. m + 1 /\ l <= (m + 1) - 1
        BY <3>2
      <3> QED
        BY <3>1, <3>3, <3>4, Zenon DEF Down, r
    <2> QED
      BY <2>7, <2>8
  <1> QED
    BY <1>2, <1>3

LEMMA FlattenDown ==
    ASSUME NEW v, NEW t, NEW n \in Nat, n # 0, Len(t) = n, n \in Levels,
           \A i \in 1 .. n : t[i] = <<>> \/ \E f \in v[i] : t[i] = <<[level |-> i, file |-> f]>>
    PROVE  Down(v, FlattenSeq(t), n)
  <1> DEFINE f == CHOOSE g : Flattens(g, t, n)
             P == {m \in 0 .. n : m = 0 \/ Down(v, f[m], m)}
  <1>1. FlattenSeq(t) = f[n]
    <2>1. Len(t) # 0
      BY Zenon
    <2> QED
      BY <2>1, Zenon DEF FlattenSeq, Flattens
  <1>2. Flattens(f, t, n)
    BY FlattensSome, Zenon
  <1> HIDE DEF f
  <1>3. \A i \in 1 .. n : f[i] = IF i = 1 THEN t[i] ELSE f[i - 1] \o t[i]
    BY <1>2, Zenon DEF Flattens
  <1>4. ASSUME NEW k \in 1 .. n, k - 1 \in P PROVE k \in P
    <2>1. k \in 0 .. n /\ k \in Levels /\ k - 1 \in Nat /\ (k - 1) + 1 = k
      BY Constants DEF Levels
    <2>2. PICK q : /\ Down(v, q, k - 1)
                   /\ q \o t[k] = f[k]
      <3>1. CASE k = 1
        <4>1. Down(v, <<>>, 0)
          <5>1. ~(Len(<<>>) >= 2) /\ <<>> \in Seq(Look(v))
            OBVIOUS
          <5> QED
            BY <5>1, Zenon DEF Down
        <4>2. f[k] = t[k] /\ k - 1 = 0
          BY <1>3, <3>1
        <4>3. <<>> \o t[k] = t[k]
          <5>1. t[k] = <<>> \/ \E g \in v[k] : t[k] = <<[level |-> k, file |-> g]>>
            BY Zenon
          <5>2. CASE t[k] = <<>>
            BY <5>2
          <5>3. CASE \E g \in v[k] : t[k] = <<[level |-> k, file |-> g]>>
            <6>1. PICK x : t[k] = <<x>>
              BY <5>3, Zenon
            <6> QED
              BY <6>1
          <5> QED
            BY <5>1, <5>2, <5>3
        <4> QED
          BY <4>1, <4>2, <4>3, Zenon
      <3>2. CASE k # 1
        <4>1. k - 1 # 0
          BY <3>2
        <4> QED
          BY <1>3, <1>4, <3>2, <4>1, Zenon
      <3> QED
        BY <3>1, <3>2
    <2>3. PICK m \in Nat : m = k - 1
      BY <2>1, Zenon
    <2>4. m + 1 = k
      BY <2>1, <2>3, Zenon
    <2>5. t[m + 1] = <<>> \/ \E g \in v[m + 1] : t[m + 1] = <<[level |-> m + 1, file |-> g]>>
      BY <2>4, Zenon
    <2>6. Down(v, q, m) /\ m + 1 \in Levels
      BY <2>1, <2>2, <2>3, <2>4, Zenon
    <2>7. PICK b : b = t[m + 1]
      BY Zenon
    <2>8. Down(v, q \o b, m + 1)
      BY <2>5, <2>6, <2>7, DownNext
    <2> QED
      BY <2>1, <2>2, <2>4, <2>7, <2>8, Zenon
  <1>5. \A k \in 0 .. n : k \in P
    <2>1. 0 \in P
      OBVIOUS
    <2> HIDE DEF P
    <2> QED
      BY <1>4, <2>1, Steps, Zenon
  <1>6. n \in 0 .. n
    OBVIOUS
  <1> QED
    BY <1>1, <1>5, <1>6, Zenon

\* The files of level 0 that may hold the key, the newest first.
NewestFirst(fs) ==
    [i \in 1 .. Cardinality(fs) |->
        [level |-> 0, file |-> CHOOSE f \in fs : Cardinality({g \in fs : g.number > f.number}) = i - 1]]

LEMMA NewestIs ==
    ASSUME NEW v, NEW fs, fs \subseteq v[0], FilesOK(fs)
    PROVE  NewestFirst(fs) \in Seq(Look(v)) /\ \A i \in DOMAIN NewestFirst(fs) :
               NewestFirst(fs)[i].level = 0 /\ NewestFirst(fs)[i].file \in v[0]
  <1> DEFINE R == {p \in fs \X fs : p[1].number > p[2].number}
             n == Cardinality(fs)
             has(f, i) == Cardinality({g \in fs : g.number > f.number}) = i - 1
             pick(i) == CHOOSE f \in fs : has(f, i)
  <1>1. \A f, g \in fs : <<f, g>> \in R <=> f.number > g.number
    OBVIOUS
  <1>2. \A f \in fs : f.number \in Nat
    BY FileData, Zenon
  <1>3. StrictOrder(fs, R) /\ IsFiniteSet(fs)
    <2>1. \A f, g \in fs : f.number = g.number => f = g
      BY Zenon DEF FilesOK
    <2> HIDE DEF R
    <2>2. \A x \in fs : <<x, x>> \notin R
      BY <1>1, <1>2
    <2>3. \A x, y, z \in fs : <<x, y>> \in R /\ <<y, z>> \in R => <<x, z>> \in R
      BY <1>1, <1>2
    <2>4. \A x, y \in fs : x # y => <<x, y>> \in R \/ <<y, x>> \in R
      BY <1>1, <1>2, <2>1
    <2> QED
      BY <2>2, <2>3, <2>4, Zenon DEF StrictOrder, FilesOK
  <1>4. \A f \in fs : Below(fs, R, f) = {g \in fs : g.number > f.number}
    BY <1>1 DEF Below
  <1> HIDE DEF R
  <1>5. n \in Nat /\ \A i \in 0 .. n - 1 : \E f \in fs : Cardinality(Below(fs, R, f)) = i
    <2>1. PICK m : m = n /\ m = Cardinality(fs)
      BY Zenon
    <2>2. m \in Nat /\ \A i \in 0 .. m - 1 : \E f \in fs : Cardinality(Below(fs, R, f)) = i
      <3> HIDE DEF n
      <3> QED
        BY <1>3, <2>1, Ranks
    <2> QED
      BY <2>1, <2>2, Zenon
  <1>6. ASSUME NEW i \in 1 .. n PROVE pick(i) \in fs
    <2>1. i - 1 \in 0 .. n - 1
      BY <1>5
    <2>2. \E f \in fs : has(f, i)
      BY <1>4, <1>5, <2>1, Zenon
    <2> HIDE DEF has
    <2> QED
      BY <2>2, Zenon
  <1>7. NewestFirst(fs) = [i \in 1 .. n |-> [level |-> 0, file |-> pick(i)]]
    BY Zenon DEF NewestFirst
  <1> HIDE DEF pick
  <1>8. \A i \in 1 .. n : [level |-> 0, file |-> pick(i)] \in Look(v)
    <2>1. \A f \in fs : f \in UNION {v[l] : l \in Levels}
      BY LevelsAre
    <2> QED
      BY <1>6, <2>1, LevelsAre DEF Look
  <1> DEFINE q == NewestFirst(fs)
  <1>9. DOMAIN q = 1 .. n /\ \A i \in 1 .. n : q[i] = [level |-> 0, file |-> pick(i)]
    BY <1>7, Zenon
  <1>10. q \in Seq(Look(v))
    <2>1. PICK T : T = Look(v)
      BY Zenon
    <2>2. q = [i \in 1 .. n |-> [level |-> 0, file |-> pick(i)]]
          /\ \A i \in 1 .. n : [level |-> 0, file |-> pick(i)] \in T
      BY <1>7, <1>8, <2>1, Zenon
    <2> DEFINE x(i) == [level |-> 0, file |-> pick(i)]
    <2>3. q = [i \in 1 .. n |-> x(i)] /\ \A i \in 1 .. n : x(i) \in T
      BY <2>2, Zenon
    <2> HIDE DEF x, q
    <2>4. q \in [1 .. n -> T]
      BY <2>3, Zenon
    <2>5. q \in Seq(T)
      BY <1>5, <2>4
    <2> QED
      BY <2>1, <2>5, Zenon
  <1>11. ASSUME NEW i \in DOMAIN q PROVE q[i].level = 0 /\ q[i].file \in v[0]
    <2>1. i \in 1 .. n /\ q[i] = [level |-> 0, file |-> pick(i)]
      BY <1>9, Zenon
    <2>2. q[i].level = 0 /\ q[i].file = pick(i)
      BY <2>1
    <2>3. pick(i) \in v[0]
      BY <1>6, <2>1, Zenon
    <2> QED
      BY <2>2, <2>3, Zenon
  <1> QED
    BY <1>10, <1>11, Zenon

LEMMA LookedIs ==
    ASSUME NEW v, VersionOK(v), NEW k, NEW s, NEW q, q = FilesFor(v, k, s)
    PROVE  q \in Seq(Look(v)) /\ (Len(q) >= 2 => SoughtFile(v, q[1]))
  <1> DEFINE top == {f \in v[0] : ~AfterFile(k, f) /\ ~BeforeFile(k, f)}
             found(l) == FindFile(Sorted(v[l]), LookupKey(k, s))
             below(l) == IF found(l) < Len(Sorted(v[l])) /\ ~BeforeFile(k, Sorted(v[l])[found(l) + 1])
                         THEN <<[level |-> l, file |-> Sorted(v[l])[found(l) + 1]]>> ELSE <<>>
             n == NumLevels - 1
             t == [l \in 1 .. n |-> below(l)]
             a == NewestFirst(top)
             b == FlattenSeq(t)
  <1>1. q = a \o b
    BY Zenon DEF FilesFor, NewestFirst
  <1>2. n \in Nat /\ n # 0 /\ n \in Levels /\ \A i \in 1 .. n : i \in Levels
    BY Constants DEF Levels
  <1>3. FilesOK(top) /\ top \subseteq v[0]
    <2>1. FilesOK(v[0])
      BY LevelsAre, Zenon DEF VersionOK
    <2>2. top \subseteq v[0]
      BY Zenon
    <2> QED
      BY <2>1, <2>2, SomeFiles, Zenon
  <1>4. a \in Seq(Look(v)) /\ \A i \in DOMAIN a : a[i].level = 0 /\ a[i].file \in v[0]
    <2> HIDE DEF top
    <2> QED
      BY <1>3, NewestIs, Zenon
  <1>5. ASSUME NEW l \in 1 .. n PROVE below(l) = <<>> \/ \E f \in v[l] : below(l) = <<[level |-> l, file |-> f]>>
    <2> DEFINE sorted == Sorted(v[l])
               x == found(l)
    <2>1. FilesOK(v[l])
      BY <1>2, Zenon DEF VersionOK
    <2>2. Len(sorted) = Cardinality(v[l]) /\ Cardinality(v[l]) \in Nat
          /\ \A i \in 1 .. Cardinality(v[l]) : sorted[i] \in v[l]
      BY <2>1, SortedIs, Zenon
    <2>3. x \in 0 .. Len(sorted)
      <3>1. Len(sorted) \in Nat
        BY <2>2, Zenon
      <3> QED
        BY <3>1, FindFileIs, Zenon
    <2> HIDE DEF x, sorted
    <2>4. x < Len(sorted) => sorted[x + 1] \in v[l]
      <3> SUFFICES ASSUME x < Len(sorted) PROVE sorted[x + 1] \in v[l]
        OBVIOUS
      <3>1. x + 1 \in 1 .. Cardinality(v[l])
        BY <2>2, <2>3
      <3> QED
        BY <2>2, <3>1, Zenon
    <2> QED
      BY <2>4, Zenon DEF x, sorted
  <1> HIDE DEF a
  <1>6. Down(v, b, n)
    <2>1. Len(t) = n
      BY <1>2
    <2>2. \A i \in 1 .. n : t[i] = <<>> \/ \E f \in v[i] : t[i] = <<[level |-> i, file |-> f]>>
      BY <1>5, Zenon
    <2> HIDE DEF t, n
    <2> QED
      BY <1>2, <2>1, <2>2, FlattenDown, Zenon
  <1> HIDE DEF b, n
  <1>7. b \in Seq(Look(v)) /\ (b # <<>> => b[1].level \in 1 .. n /\ b[1].file \in v[b[1].level])
        /\ (Len(b) >= 2 => b[1].level <= n - 1)
    BY <1>6, Zenon DEF Down
  <1>8. PICK T : T = Look(v)
    BY Zenon
  <1>9. a \in Seq(T) /\ b \in Seq(T)
    BY <1>4, <1>7, <1>8, Zenon
  <1>10. a \o b \in Seq(T) /\ (a = <<>> => a \o b = b) /\ (a # <<>> => (a \o b)[1] = a[1] /\ 1 \in DOMAIN a)
    BY <1>9
  <1>11. CASE a = <<>>
    <2>1. q = b
      BY <1>1, <1>10, <1>11, Zenon
    <2>2. ASSUME Len(b) >= 2 PROVE SoughtFile(v, b[1])
      <3>1. b # <<>>
        BY <1>9, <2>2
      <3> DEFINE l == b[1].level
      <3>2. l \in 1 .. n /\ b[1].file \in v[l] /\ l <= n - 1
        BY <1>7, <2>2, <3>1, Zenon
      <3> HIDE DEF l
      <3>3. l \in Levels /\ l + 1 \in Levels
        BY <3>2, Constants DEF n, Levels
      <3> QED
        BY <3>2, <3>3, Zenon DEF SoughtFile, l
    <2> QED
      BY <1>7, <2>1, <2>2, Zenon
  <1>12. CASE a # <<>>
    <2>1. q[1] = a[1] /\ a[1].level = 0 /\ a[1].file \in v[0] /\ q \in Seq(Look(v))
      BY <1>1, <1>4, <1>8, <1>10, <1>12, Zenon
    <2>2. 0 \in Levels /\ 0 + 1 \in Levels
      BY Constants DEF Levels
    <2> QED
      BY <2>1, <2>2, Zenon DEF SoughtFile
  <1> QED
    BY <1>11, <1>12

LEMMA ChargedIs ==
    ASSUME NEW v, VersionOK(v), NEW k, NEW s
    PROVE  /\ \A c \in GetIn(v, k, s).charged : SoughtFile(v, c)
           /\ \A c \in ReadSample(v, k, s) : SoughtFile(v, c)
  <1> DEFINE q == FilesFor(v, k, s)
             hits == {i \in DOMAIN q : Seek(q[i].file.data, k, s) # {}}
             reads == IF hits = {} THEN Len(q) ELSE Min(hits)
  <1>1. q \in Seq(Look(v)) /\ (Len(q) >= 2 => SoughtFile(v, q[1]))
    BY LookedIs, Zenon
  <1>2. GetIn(v, k, s).charged = IF reads >= 2 THEN {q[1]} ELSE {}
    BY DEF GetIn, SearchIn
  <1>3. ReadSample(v, k, s) = IF Len(q) >= 2 THEN {q[1]} ELSE {}
    BY Zenon DEF ReadSample
  <1> HIDE DEF q
  <1>4. Len(q) \in Nat /\ DOMAIN q = 1 .. Len(q)
    BY <1>1
  <1>5. reads >= 2 => Len(q) >= 2
    <2>1. CASE hits = {}
      BY <2>1
    <2>2. CASE hits # {}
      <3>1. hits \subseteq 1 .. Len(q) /\ hits \subseteq Nat
        BY <1>4
      <3> HIDE DEF hits
      <3>2. Min(hits) \in hits
        BY <2>2, <3>1, MinIn, Zenon
      <3>3. reads = Min(hits)
        BY <2>2, Zenon
      <3> HIDE DEF reads
      <3>4. PICK m \in 1 .. Len(q) : m = reads
        BY <3>1, <3>2, <3>3, Zenon
      <3> QED
        BY <1>4, <3>4
    <2> QED
      BY <2>1, <2>2
  <1> HIDE DEF reads
  <1> QED
    BY <1>1, <1>2, <1>3, <1>5, Zenon
-----------------------------------------------------------------------------
\* The steps of the tree.

\* The files S of a level and T of the next are replaced by the files N in the next.
Moved(v, q, level, S, T, N) ==
    /\ q \in [Levels -> SUBSET File]
    /\ q[level] = v[level] \ S /\ q[level + 1] = (v[level + 1] \ T) \cup N
    /\ \A l \in Levels \ {level, level + 1} : q[l] = v[l]

\* The files N are new, or files of S.
NumbersFree(v, level, S, N) ==
    \A f \in N : \A l \in Levels : \A g \in v[l] : f.number = g.number => l = level /\ g \in S

LEMMA KeysOfMore ==
    /\ \A A, B : KeysOf(A \cup B) = KeysOf(A) \cup KeysOf(B)
    /\ \A A, B : A \subseteq B => KeysOf(A) \subseteq KeysOf(B)
  <1>1. ASSUME NEW A, NEW B PROVE KeysOf(A \cup B) = KeysOf(A) \cup KeysOf(B)
    BY DEF KeysOf
  <1>2. ASSUME NEW A, NEW B, A \subseteq B PROVE KeysOf(A) \subseteq KeysOf(B)
    BY <1>2 DEF KeysOf
  <1> QED
    BY <1>1, <1>2, Zenon

LEMMA InAll == ASSUME NEW v, NEW l \in Levels PROVE KeysOf(v[l]) \subseteq AllOf(v)
  BY Zenon DEF AllOf

LEMMA MovedOK ==
    ASSUME NEW v, VersionOK(v), NEW level \in Levels, level \in Nat, level + 1 \in Levels,
           NEW S, S \subseteq v[level], NEW T, T \subseteq v[level + 1], NEW N, FilesOK(N),
           KeysOf(N) \subseteq KeysOf(S \cup T), NumbersFree(v, level, S, N),
           NEW q, Moved(v, q, level, S, T, N)
    PROVE  VersionOK(q) /\ AllOf(q) \subseteq AllOf(v)
  <1> DEFINE m == level + 1
  <1>1. level # m
    OBVIOUS
  <1>2. \A l \in Levels : FilesOK(v[l])
    BY Zenon DEF VersionOK
  <1>3. /\ q \in [Levels -> SUBSET File] /\ q[level] = v[level] \ S /\ q[m] = (v[m] \ T) \cup N
        /\ \A l \in Levels : l # level /\ l # m => q[l] = v[l]
    BY Zenon DEF Moved
  <1> HIDE DEF m
  <1>4. m \in Levels
    BY Zenon DEF m
  <1>5. KeysOf(S) \subseteq AllOf(v) /\ KeysOf(T) \subseteq AllOf(v) /\ KeysOf(N) \subseteq AllOf(v)
    <2>1. T \subseteq v[m]
      BY Zenon DEF m
    <2>2. KeysOf(S) \subseteq KeysOf(v[level]) /\ KeysOf(T) \subseteq KeysOf(v[m])
      BY <2>1, KeysOfMore, Zenon
    <2>3. KeysOf(v[level]) \subseteq AllOf(v)
      BY InAll, Zenon
    <2>4. KeysOf(v[m]) \subseteq AllOf(v)
      BY <1>4, InAll, Zenon
    <2>5. KeysOf(S \cup T) = KeysOf(S) \cup KeysOf(T)
      BY KeysOfMore, Zenon
    <2> QED
      BY <2>2, <2>3, <2>4, <2>5, Zenon
  <1>6. \A l \in Levels : \A f \in q[l] : f \in v[l] \/ (l = m /\ f \in N)
    BY <1>3, Zenon
  <1>7. AllOf(q) \subseteq AllOf(v)
    <2> SUFFICES ASSUME NEW e \in AllOf(q) PROVE e \in AllOf(v)
      OBVIOUS
    <2>0. PICK l \in Levels : e \in KeysOf(q[l])
      BY Zenon DEF AllOf
    <2>3. PICK f \in q[l] : e \in f.data
      BY <2>0, Zenon DEF KeysOf
    <2>1. CASE f \in v[l]
      <3>1. e \in KeysOf(v[l])
        BY <2>1, <2>3, Zenon DEF KeysOf
      <3> QED
        BY <3>1, InAll, Zenon
    <2>2. CASE f \in N
      <3>1. e \in KeysOf(N)
        BY <2>2, <2>3, Zenon DEF KeysOf
      <3> QED
        BY <1>5, <3>1, Zenon
    <2> QED
      BY <1>6, <2>1, <2>2, Zenon
  <1>8. Unique(AllOf(q))
    BY <1>7, UniquePart, Zenon DEF VersionOK
  <1>9. ASSUME NEW l \in Levels, NEW k \in Levels, NEW f \in q[l], NEW g \in q[k], f.number = g.number
        PROVE  l = k /\ f = g
    <2>1. CASE f \in v[l] /\ g \in v[k]
      <3>1. l = k
        BY <1>9, <2>1, Zenon DEF VersionOK
      <3> QED
        BY <1>2, <1>9, <2>1, <3>1, Zenon DEF FilesOK
    <2>2. CASE f \in N /\ g \in v[k] /\ l = m
      <3>1. k = level /\ g \in S
        BY <1>9, <2>2, Zenon DEF NumbersFree
      <3> QED
        BY <1>3, <3>1, Zenon
    <2>3. CASE g \in N /\ f \in v[l] /\ k = m
      <3>1. l = level /\ f \in S
        BY <1>9, <2>3, Zenon DEF NumbersFree
      <3> QED
        BY <1>3, <3>1, Zenon
    <2>4. CASE f \in N /\ g \in N /\ l = m /\ k = m
      BY <1>9, <2>4, Zenon DEF FilesOK
    <2> QED
      BY <1>6, <2>1, <2>2, <2>3, <2>4, Zenon
  <1>10. ASSUME NEW l \in Levels PROVE FilesOK(q[l])
    <2>1. q[l] \subseteq File
      BY <1>3
    <2>2. IsFiniteSet(q[l])
      <3>1. q[l] \subseteq v[l] \cup N
        BY <1>6, Zenon
      <3>2. IsFiniteSet(v[l]) /\ IsFiniteSet(N)
        BY <1>2, Zenon DEF FilesOK
      <3>3. IsFiniteSet(v[l] \cup N)
        BY <3>2, FS_Union, Zenon
      <3> QED
        BY <3>1, <3>3, FS_Subset, Zenon
    <2>3. Unique(KeysOf(q[l]))
      <3>1. KeysOf(q[l]) \subseteq AllOf(q)
        BY InAll, Zenon
      <3> QED
        BY <1>8, <3>1, UniquePart, Zenon
    <2> QED
      BY <1>9, <2>1, <2>2, <2>3, Zenon DEF FilesOK
  <1> QED
    BY <1>3, <1>7, <1>8, <1>9, <1>10, Zenon DEF VersionOK

\* Below level 0 files follow one another, and what is above is newer.
Ordered(v) ==
    /\ \A l \in Levels \ {0} : Apart(v[l])
    /\ \A l, m \in Levels : l < m => Newer(KeysOf(v[l]), KeysOf(v[m]))
    /\ \A f, g \in v[0] : f.number > g.number => Newer(f.data, g.data)

LEMMA NewerParts ==
    ASSUME NEW A, NEW B, Newer(A, B), NEW C, C \subseteq A, NEW D, D \subseteq B PROVE Newer(C, D)
  BY Zenon DEF Newer

LEMMA NewerBoth ==
    ASSUME NEW A, NEW B, NEW C, NEW D, Newer(A, C), Newer(A, D), Newer(B, C), Newer(B, D)
    PROVE  Newer(A \cup B, C \cup D)
  BY Zenon DEF Newer

LEMMA MovedOrdered ==
    ASSUME NEW v, VersionOK(v), Ordered(v), NEW level \in Levels, level \in Nat, level + 1 \in Levels,
           NEW S, S \subseteq v[level], NEW T, T \subseteq v[level + 1], NEW N, Apart(N),
           KeysOf(N) \subseteq KeysOf(S \cup T), Replaceable(v, level, S, T),
           NEW q, Moved(v, q, level, S, T, N)
    PROVE  Ordered(q)
  <1> DEFINE m == level + 1
             K == KeysOf(S \cup T)
  <1>1. level < m /\ m # 0 /\ level # m /\ m \in Nat /\ \A l \in Levels : l \in Nat
    BY LevelsAre
  <1>2. \A l \in Levels : l # level /\ l # m => (l < m <=> l < level) /\ (m < l <=> level < l)
    BY <1>1
  <1>3. /\ q[level] = v[level] \ S /\ q[m] = (v[m] \ T) \cup N
        /\ \A l \in Levels : l # level /\ l # m => q[l] = v[l]
    BY Zenon DEF Moved
  <1>4. /\ \A l \in Levels \ {0} : Apart(v[l])
        /\ \A l, k \in Levels : l < k => Newer(KeysOf(v[l]), KeysOf(v[k]))
        /\ \A f, g \in v[0] : f.number > g.number => Newer(f.data, g.data)
    BY Zenon DEF Ordered
  <1>5. /\ Settled(v[level], S)
        /\ \A g \in v[m] \ T : Ahead(g.data, K) \/ Ahead(K, g.data)
    BY Zenon DEF Replaceable
  <1>6. T \subseteq v[m]
    OBVIOUS
  <1> HIDE DEF m
  <1>7. m \in Levels
    BY Zenon DEF m
  <1>8. K = KeysOf(S) \cup KeysOf(T) /\ KeysOf(S) \subseteq KeysOf(v[level]) /\ KeysOf(T) \subseteq KeysOf(v[m])
    BY <1>6, KeysOfMore, Zenon
  <1>9. KeysOf(q[level]) \subseteq KeysOf(v[level]) /\ KeysOf(q[m]) \subseteq KeysOf(v[m]) \cup K
    <2>1. q[level] \subseteq v[level] /\ q[m] \subseteq v[m] \cup N
      BY <1>3, Zenon
    <2>2. KeysOf(q[m]) \subseteq KeysOf(v[m]) \cup KeysOf(N)
      <3>1. KeysOf(q[m]) \subseteq KeysOf(v[m] \cup N)
        BY <2>1, KeysOfMore, Zenon
      <3>2. KeysOf(v[m] \cup N) = KeysOf(v[m]) \cup KeysOf(N)
        BY KeysOfMore, Zenon
      <3> QED
        BY <3>1, <3>2, Zenon
    <2> QED
      BY <2>1, <2>2, KeysOfMore, Zenon
  <1>10. ASSUME NEW l \in Levels \ {0} PROVE Apart(q[l])
    <2>1. CASE l = level
      BY <1>3, <1>4, <2>1, Zenon DEF Apart
    <2>2. CASE l = m
      <3> SUFFICES ASSUME NEW f \in q[m], NEW g \in q[m], f # g
                   PROVE  Ahead(f.data, g.data) \/ Ahead(g.data, f.data)
        BY <2>2, Zenon DEF Apart
      <3>1. \A h \in N : h.data \subseteq K
        BY Zenon DEF KeysOf
      <3>2. CASE f \in v[m] /\ g \in v[m]
        BY <1>4, <2>2, <3>2, Zenon DEF Apart
      <3>3. CASE f \in N /\ g \in N
        BY <3>3, Zenon DEF Apart
      <3>4. CASE f \in v[m] \ T /\ g \in N
        BY <1>5, <3>1, <3>4, Zenon DEF Ahead
      <3>5. CASE f \in N /\ g \in v[m] \ T
        BY <1>5, <3>1, <3>5, Zenon DEF Ahead
      <3> QED
        BY <1>3, <3>2, <3>3, <3>4, <3>5, Zenon
    <2>3. CASE l # level /\ l # m
      BY <1>3, <1>4, <2>3, Zenon
    <2> QED
      BY <2>1, <2>2, <2>3, Zenon
  <1>11. ASSUME NEW l \in Levels, NEW k \in Levels, l < k PROVE Newer(KeysOf(q[l]), KeysOf(q[k]))
    <2>1. \A i \in Levels : i < level => Newer(KeysOf(v[i]), KeysOf(v[m]) \cup K)
      <3> SUFFICES ASSUME NEW i \in Levels, i < level PROVE Newer(KeysOf(v[i]), KeysOf(v[m]) \cup K)
        OBVIOUS
      <3>1. i < m
        BY <1>1
      <3>2. Newer(KeysOf(v[i]), KeysOf(v[m])) /\ Newer(KeysOf(v[i]), KeysOf(v[level]))
        BY <1>4, <1>7, <3>1, Zenon
      <3> QED
        BY <1>8, <3>2, Zenon DEF Newer
    <2>2. \A i \in Levels : m < i => Newer(KeysOf(v[m]) \cup K, KeysOf(v[i]))
      <3> SUFFICES ASSUME NEW i \in Levels, m < i PROVE Newer(KeysOf(v[m]) \cup K, KeysOf(v[i]))
        OBVIOUS
      <3>1. level < i
        BY <1>1
      <3>2. Newer(KeysOf(v[m]), KeysOf(v[i])) /\ Newer(KeysOf(v[level]), KeysOf(v[i]))
        BY <1>4, <1>7, <3>1, Zenon
      <3> QED
        BY <1>8, <3>2, Zenon DEF Newer
    <2>3. CASE l = level /\ k = m
      <3> SUFFICES ASSUME NEW g \in v[level] \ S, NEW e \in g.data, NEW o \in KeysOf(v[m]) \cup K, e.key = o.key
                   PROVE  e.seq > o.seq
        <4>1. q[level] = v[level] \ S
          BY <1>3, Zenon
        <4> QED
          BY <1>9, <2>3, <4>1, Zenon DEF Newer, KeysOf
      <3>1. e \in KeysOf(v[level])
        BY Zenon DEF KeysOf
      <3>2. CASE o \in KeysOf(v[m])
        BY <1>1, <1>4, <1>7, <3>1, <3>2, Zenon DEF Newer
      <3>3. CASE o \in KeysOf(S)
        BY <1>5, <3>3, Zenon DEF Settled, Newer
      <3> QED
        BY <1>8, <3>2, <3>3, Zenon
    <2>4. CASE l = level /\ k # m
      <3>1. level < k /\ k # level
        BY <1>1, <1>11, <2>4
      <3>2. q[k] = v[k] /\ Newer(KeysOf(v[level]), KeysOf(v[k]))
        BY <1>3, <1>4, <2>4, <3>1, Zenon
      <3> QED
        BY <1>9, <2>4, <3>2, NewerParts, Zenon
    <2>5. CASE l = m
      <3>1. m < k /\ k # m /\ k # level
        BY <1>1, <1>11, <2>5
      <3>2. q[k] = v[k] /\ Newer(KeysOf(v[m]) \cup K, KeysOf(v[k]))
        BY <1>3, <2>2, <3>1, Zenon
      <3> QED
        BY <1>9, <2>5, <3>2, NewerParts, Zenon
    <2>6. CASE l # level /\ l # m /\ k = level
      <3>1. q[l] = v[l] /\ Newer(KeysOf(v[l]), KeysOf(v[level]))
        BY <1>3, <1>4, <1>11, <2>6, Zenon
      <3> QED
        BY <1>9, <2>6, <3>1, NewerParts, Zenon
    <2>7. CASE l # level /\ l # m /\ k = m
      <3>1. l < level
        BY <1>2, <1>11, <2>7, Zenon
      <3>2. q[l] = v[l] /\ Newer(KeysOf(v[l]), KeysOf(v[m]) \cup K)
        BY <1>3, <2>1, <2>7, <3>1, Zenon
      <3> QED
        BY <1>9, <2>7, <3>2, NewerParts, Zenon
    <2>8. CASE l # level /\ l # m /\ k # level /\ k # m
      BY <1>3, <1>4, <1>11, <2>8, Zenon
    <2> QED
      BY <2>3, <2>4, <2>5, <2>6, <2>7, <2>8, Zenon
  <1>12. q[0] \subseteq v[0]
    BY <1>1, <1>3, LevelsAre, Zenon
  <1> QED
    BY <1>4, <1>10, <1>11, <1>12, Zenon DEF Ordered
-----------------------------------------------------------------------------
\* What Install makes of a version.

\* The file F is added to level t.
Grown(v, q, t, F) ==
    /\ q \in [Levels -> SUBSET File]
    /\ q[t] = v[t] \cup {F} /\ \A l \in Levels \ {t} : q[l] = v[l]

LEMMA AtIs ==
    ASSUME NEW t \in Levels, NEW fs
    PROVE  /\ At(t, fs)[t] = fs /\ \A l \in Levels : l # t => At(t, fs)[l] = {}
  BY DEF At, NoFiles

LEMMA AtBothIs ==
    ASSUME NEW t \in Levels, t \in Nat, t + 1 \in Levels, NEW fs, NEW gs
    PROVE  /\ AtBoth(t, fs, gs)[t] = fs /\ AtBoth(t, fs, gs)[t + 1] = gs
           /\ \A l \in Levels : l # t /\ l # t + 1 => AtBoth(t, fs, gs)[l] = {}
  BY DEF AtBoth, NoFiles

LEMMA ApplyIs ==
    ASSUME NEW v \in [Levels -> SUBSET File], NEW d, NEW a, NEW q, q = Apply(v, d, a),
           \A l \in Levels : a[l] \subseteq File
    PROVE  /\ q \in [Levels -> SUBSET File]
           /\ \A l \in Levels : q[l] = (v[l] \ d[l]) \cup a[l]
  BY DEF Apply

LEMMA ApplyGrown ==
    ASSUME NEW v \in [Levels -> SUBSET File], NEW t \in Levels, NEW F \in File,
           NEW q, q = Apply(v, NoFiles, At(t, {F}))
    PROVE  Grown(v, q, t, F)
  <1> DEFINE a == At(t, {F})
             d == NoFiles
  <1>1. a[t] = {F} /\ \A l \in Levels : l # t => a[l] = {}
    BY AtIs
  <1>2. \A l \in Levels : d[l] = {}
    BY DEF NoFiles
  <1>3. q = Apply(v, d, a)
    OBVIOUS
  <1> HIDE DEF a, d
  <1>4. \A l \in Levels : a[l] \subseteq File
    BY <1>1
  <1>5. q \in [Levels -> SUBSET File] /\ \A l \in Levels : q[l] = (v[l] \ d[l]) \cup a[l]
    BY <1>3, <1>4 DEF Apply
  <1>6. q[t] = v[t] \cup {F} /\ \A l \in Levels : l # t => q[l] = v[l]
    BY <1>1, <1>2, <1>5
  <1> QED
    BY <1>5, <1>6, Zenon DEF Grown

LEMMA ApplyMoved ==
    ASSUME NEW v \in [Levels -> SUBSET File], NEW level \in Levels, level \in Nat, level + 1 \in Levels,
           NEW S, NEW T, NEW N, N \subseteq File, NEW q,
           \/ q = Apply(v, AtBoth(level, S, T), At(level + 1, N))
           \/ q = Apply(v, At(level, S), At(level + 1, N)) /\ T = {}
    PROVE  Moved(v, q, level, S, T, N)
  <1> DEFINE m == level + 1
             a == At(m, N)
  <1>1. level # m /\ m \in Levels
    OBVIOUS
  <1>2. PICK d : /\ q = Apply(v, d, a)
                 /\ d[level] = S /\ d[m] = T /\ \A l \in Levels : l # level /\ l # m => d[l] = {}
    <2>1. CASE q = Apply(v, AtBoth(level, S, T), At(level + 1, N))
      BY <2>1, AtBothIs
    <2>2. CASE q = Apply(v, At(level, S), At(level + 1, N)) /\ T = {}
      <3>1. At(level, S)[level] = S /\ \A l \in Levels : l # level => At(level, S)[l] = {}
        BY AtIs
      <3> QED
        BY <1>1, <2>2, <3>1
    <2> QED
      BY <2>1, <2>2
  <1>3. a[m] = N /\ \A l \in Levels : l # m => a[l] = {}
    BY <1>1, AtIs
  <1>4. m = level + 1
    OBVIOUS
  <1> HIDE DEF a, m
  <1>5. \A l \in Levels : a[l] \subseteq File
    BY <1>3
  <1>6. q \in [Levels -> SUBSET File] /\ \A l \in Levels : q[l] = (v[l] \ d[l]) \cup a[l]
    BY <1>2, <1>5, ApplyIs
  <1>7. q[level] = v[level] \ S /\ q[m] = (v[m] \ T) \cup N
    BY <1>1, <1>2, <1>3, <1>6
  <1>8. \A l \in Levels \ {level, m} : q[l] = v[l]
    BY <1>2, <1>3, <1>6
  <1> QED
    BY <1>4, <1>6, <1>7, <1>8, Zenon DEF Moved

LEMMA GrownOK ==
    ASSUME NEW v, VersionOK(v), NEW t \in Levels, NEW F \in File,
           \A l \in Levels : \A f \in v[l] : f.number # F.number,
           Unique(F.data \cup AllOf(v)), NEW q, Grown(v, q, t, F)
    PROVE  VersionOK(q) /\ AllOf(q) \subseteq F.data \cup AllOf(v)
  <1>1. \A l \in Levels : FilesOK(v[l])
    BY Zenon DEF VersionOK
  <1>2. /\ q \in [Levels -> SUBSET File] /\ q[t] = v[t] \cup {F}
        /\ \A l \in Levels : l # t => q[l] = v[l]
    BY Zenon DEF Grown
  <1>3. \A l \in Levels : \A f \in q[l] : f \in v[l] \/ (l = t /\ f = F)
    BY <1>2, Zenon
  <1>4. AllOf(q) \subseteq F.data \cup AllOf(v)
    <2> SUFFICES ASSUME NEW e \in AllOf(q), e \notin F.data PROVE e \in AllOf(v)
      OBVIOUS
    <2>1. PICK l \in Levels : e \in KeysOf(q[l])
      BY Zenon DEF AllOf
    <2>2. PICK f \in q[l] : e \in f.data
      BY <2>1, Zenon DEF KeysOf
    <2>3. f \in v[l]
      BY <1>3, <2>2, Zenon
    <2>4. e \in KeysOf(v[l])
      BY <2>2, <2>3, Zenon DEF KeysOf
    <2> QED
      BY <2>4, InAll, Zenon
  <1>5. Unique(AllOf(q))
    BY <1>4, UniquePart, Zenon
  <1>6. ASSUME NEW l \in Levels, NEW k \in Levels, NEW f \in q[l], NEW g \in q[k], f.number = g.number
        PROVE  l = k /\ f = g
    <2>1. CASE f \in v[l] /\ g \in v[k]
      <3>1. l = k
        BY <1>6, <2>1, Zenon DEF VersionOK
      <3> QED
        BY <1>1, <1>6, <2>1, <3>1, Zenon DEF FilesOK
    <2> QED
      BY <1>3, <1>6, <2>1, Zenon
  <1>7. ASSUME NEW l \in Levels PROVE FilesOK(q[l])
    <2>1. q[l] \subseteq File
      BY <1>2
    <2>2. IsFiniteSet(q[l])
      <3>1. q[l] \subseteq v[l] \cup {F}
        BY <1>3, Zenon
      <3>2. IsFiniteSet(v[l]) /\ IsFiniteSet({F})
        BY <1>1, FS_Singleton, Zenon DEF FilesOK
      <3>3. IsFiniteSet(v[l] \cup {F})
        BY <3>2, FS_Union, Zenon
      <3> QED
        BY <3>1, <3>3, FS_Subset, Zenon
    <2>3. Unique(KeysOf(q[l]))
      <3>1. KeysOf(q[l]) \subseteq AllOf(q)
        BY InAll, Zenon
      <3> QED
        BY <1>5, <3>1, UniquePart, Zenon
    <2> QED
      BY <1>6, <2>1, <2>2, <2>3, Zenon DEF FilesOK
  <1> QED
    BY <1>2, <1>4, <1>5, <1>6, <1>7, Zenon DEF VersionOK

\* Files whose ranges do not meet.
LEMMA KeysAhead ==
    ASSUME NEW A, A \subseteq Entry, NEW B, B \subseteq Entry, NEW x, NEW y, x < y,
           x \in Nat, y \in Nat, \A a \in A : a.key <= x, \A b \in B : y <= b.key
    PROVE  Ahead(A, B)
  <1> SUFFICES ASSUME NEW a \in A, NEW b \in B PROVE Before(a, b)
    BY Zenon DEF Ahead
  <1>1. a.key \in Nat /\ b.key \in Nat
    BY EntryFields, Zenon
  <1>2. a.key < b.key
    BY <1>1
  <1> QED
    BY <1>2 DEF Before

\* The entries F, between the keys lo and hi, meet no file of fs.
Misses(F, lo, hi, fs) ==
    /\ F \subseteq Entry /\ lo \in Nat /\ hi \in Nat /\ lo <= hi
    /\ \A e \in F : lo <= e.key /\ e.key <= hi
    /\ \A f \in fs : ~Overlaps(f, lo, hi)

LEMMA MissedAhead ==
    ASSUME NEW fs, FilesOK(fs), NEW F, NEW lo, NEW hi, Misses(F, lo, hi, fs), NEW f \in fs
    PROVE  /\ Ahead(f.data, F) \/ Ahead(F, f.data)
           /\ \A e \in F, o \in f.data : e.key # o.key
  <1> DEFINE a == Smallest(f).key
             b == Largest(f).key
  <1>1. /\ a \in Nat /\ b \in Nat /\ \A e \in f.data : a <= e.key /\ e.key <= b /\ e.key \in Nat
        /\ lo \in Nat /\ hi \in Nat /\ lo <= hi /\ f.data \subseteq Entry /\ F \subseteq Entry
        /\ \A e \in F : lo <= e.key /\ e.key <= hi
    BY FileEnds, FileData, Zenon DEF Misses
  <1>2. ~(a <= hi /\ lo <= b)
    BY Zenon DEF Misses, Overlaps
  <1>3. \A e \in F : e.key \in Nat
    BY <1>1, EntryFields, Zenon
  <1> HIDE DEF a, b
  <1>4. hi < a \/ b < lo
    BY <1>1, <1>2
  <1>5. Ahead(f.data, F) \/ Ahead(F, f.data)
    BY <1>1, <1>4, KeysAhead, Zenon
  <1>6. \A e \in F, o \in f.data : e.key # o.key
    BY <1>1, <1>3, <1>4
  <1> QED
    BY <1>5, <1>6

\* Entries that meet no file of I, which leave no gap, come before or after all of them.
LEMMA MissedCovered ==
    ASSUME NEW I, Covered(I), NEW F, NEW lo, NEW hi, Misses(F, lo, hi, I),
           NEW A, A \subseteq I, NEW B, B \subseteq I, FilesOK(A), FilesOK(B), I = A \cup B
    PROVE  Ahead(F, KeysOf(I)) \/ Ahead(KeysOf(I), F)
  <1>1. ASSUME NEW f \in I
        PROVE  /\ Smallest(f).key \in Nat /\ Largest(f).key \in Nat /\ Smallest(f).key <= Largest(f).key
               /\ \A e \in f.data : Smallest(f).key <= e.key /\ e.key <= Largest(f).key
               /\ f.data \subseteq Entry
    BY FileEnds, FileData, Within1, Zenon
  <1>2. /\ lo \in Nat /\ hi \in Nat /\ lo <= hi /\ F \subseteq Entry
        /\ \A e \in F : lo <= e.key /\ e.key <= hi
        /\ \A f \in I : ~Overlaps(f, lo, hi)
    BY Zenon DEF Misses
  <1>3. \A f, g \in I : ~(Smallest(f).key <= lo /\ lo <= Largest(g).key)
    <2> SUFFICES ASSUME NEW f \in I, NEW g \in I, Smallest(f).key <= lo, lo <= Largest(g).key PROVE FALSE
      OBVIOUS
    <2>1. PICK h \in I : Spans(h, lo)
      BY <1>2, Zenon DEF Covered
    <2>2. Smallest(h).key <= hi /\ lo <= Largest(h).key
      BY <1>1, <1>2, <2>1 DEF Spans
    <2> QED
      BY <1>2, <2>2, Zenon DEF Overlaps
  <1>4. CASE \A f \in I : lo < Smallest(f).key
    <2> SUFFICES ASSUME NEW f \in I PROVE Ahead(F, f.data)
      BY DEF Ahead, KeysOf
    <2>1. hi < Smallest(f).key
      <3>1. ~(Smallest(f).key <= hi /\ lo <= Largest(f).key)
        BY <1>2, Zenon DEF Overlaps
      <3> QED
        BY <1>1, <1>2, <1>4, <3>1
    <2> QED
      BY <1>1, <1>2, <2>1, KeysAhead, Zenon
  <1>5. CASE ~ \A f \in I : lo < Smallest(f).key
    <2>1. PICK f \in I : ~(lo < Smallest(f).key)
      BY <1>5, Zenon
    <2>2. Smallest(f).key <= lo
      BY <1>1, <1>2, <2>1
    <2> SUFFICES ASSUME NEW g \in I PROVE Ahead(g.data, F)
      BY DEF Ahead, KeysOf
    <2>3. Largest(g).key < lo
      <3>1. ~(lo <= Largest(g).key)
        BY <1>3, <2>2, Zenon
      <3> QED
        BY <1>1, <1>2, <3>1
    <2> QED
      BY <1>1, <1>2, <2>3, KeysAhead, Zenon
  <1> QED
    BY <1>4, <1>5, Zenon
-----------------------------------------------------------------------------
\* The table made of a memtable.

\* Level t may take the file F: its entries are newer than all, in level 0 its number is, and
\* where it goes below level 0 no level down to t has a file in its range.
Fits(v, t, F, lo, hi) ==
    /\ \A l \in Levels : Newer(F.data, KeysOf(v[l])) /\ \A f \in v[l] : f.number < F.number
    /\ Misses(F.data, lo, hi, {})
    /\ t # 0 => \A l \in 0 .. t : l \in Levels /\ \A f \in v[l] : ~Overlaps(f, lo, hi)

LEMMA FitMisses ==
    ASSUME NEW v, NEW t \in Levels, NEW F, NEW lo, NEW hi, Fits(v, t, F, lo, hi), t # 0,
           NEW l \in Levels, l <= t
    PROVE  Misses(F.data, lo, hi, v[l])
  <1>1. l \in 0 .. t
    BY LevelsAre
  <1>2. \A f \in v[l] : ~Overlaps(f, lo, hi)
    BY <1>1, Zenon DEF Fits
  <1> QED
    BY <1>2, Zenon DEF Fits, Misses

LEMMA GrownOrdered ==
    ASSUME NEW v, VersionOK(v), Ordered(v), NEW t \in Levels, NEW F \in File, NEW lo, NEW hi,
           Fits(v, t, F, lo, hi), NEW q, Grown(v, q, t, F)
    PROVE  Ordered(q)
  <1>1. /\ q[t] = v[t] \cup {F} /\ \A l \in Levels : l # t => q[l] = v[l]
    BY Zenon DEF Grown
  <1>2. /\ \A l \in Levels \ {0} : Apart(v[l])
        /\ \A l, k \in Levels : l < k => Newer(KeysOf(v[l]), KeysOf(v[k]))
        /\ \A f, g \in v[0] : f.number > g.number => Newer(f.data, g.data)
    BY Zenon DEF Ordered
  <1>3. /\ \A l \in Levels : Newer(F.data, KeysOf(v[l]))
        /\ \A l \in Levels : \A f \in v[l] : f.number < F.number
    BY Zenon DEF Fits
  <1>4. \A l \in Levels : FilesOK(v[l])
    BY Zenon DEF VersionOK
  <1>5. KeysOf(q[t]) = KeysOf(v[t]) \cup F.data
    BY <1>1 DEF KeysOf
  <1>6. ASSUME NEW l \in Levels \ {0} PROVE Apart(q[l])
    <2>1. CASE l # t
      BY <1>1, <1>2, <2>1, Zenon
    <2>2. CASE l = t
      <3>1. t <= t /\ t # 0
        BY <2>2, LevelsAre
      <3>2. Misses(F.data, lo, hi, v[t])
        BY <3>1, FitMisses, Zenon
      <3>3. \A f \in v[t] : Ahead(f.data, F.data) \/ Ahead(F.data, f.data)
        BY <1>4, <3>2, MissedAhead, Zenon
      <3> SUFFICES ASSUME NEW f \in q[t], NEW g \in q[t], f # g
                   PROVE  Ahead(f.data, g.data) \/ Ahead(g.data, f.data)
        BY <2>2, Zenon DEF Apart
      <3>4. CASE f \in v[t] /\ g \in v[t]
        BY <1>2, <2>2, <3>4, Zenon DEF Apart
      <3> QED
        BY <1>1, <3>3, <3>4, Zenon
    <2> QED
      BY <2>1, <2>2, Zenon
  <1>7. ASSUME NEW l \in Levels, NEW k \in Levels, l < k PROVE Newer(KeysOf(q[l]), KeysOf(q[k]))
    <2>1. Newer(KeysOf(v[l]), KeysOf(v[k])) /\ l # k
      BY <1>2, <1>7, LevelsAre
    <2>2. CASE l = t
      <3>1. Newer(F.data, KeysOf(v[k])) /\ q[k] = v[k]
        BY <1>1, <1>3, <2>1, <2>2, Zenon
      <3> QED
        BY <1>5, <2>1, <2>2, <3>1, Zenon DEF Newer
    <2>3. CASE k = t
      <3>1. l <= t /\ t # 0
        BY <1>7, <2>3, LevelsAre
      <3>2. Misses(F.data, lo, hi, v[l])
        BY <3>1, FitMisses, Zenon
      <3>3. \A f \in v[l] : \A e \in F.data, o \in f.data : e.key # o.key
        BY <1>4, <3>2, MissedAhead, Zenon
      <3>4. \A e \in F.data, o \in KeysOf(v[l]) : e.key # o.key
        BY <3>3 DEF KeysOf
      <3>5. q[l] = v[l]
        BY <1>1, <2>1, <2>3, Zenon
      <3> QED
        BY <1>5, <2>1, <2>3, <3>4, <3>5, Zenon DEF Newer
    <2>4. CASE l # t /\ k # t
      BY <1>1, <2>1, <2>4, Zenon
    <2> QED
      BY <2>2, <2>3, <2>4, Zenon
  <1>8. ASSUME NEW f \in q[0], NEW g \in q[0], f.number > g.number PROVE Newer(f.data, g.data)
    <2>1. CASE f \in v[0] /\ g \in v[0]
      BY <1>2, <1>8, <2>1, Zenon
    <2>2. CASE f = F /\ g \in v[0]
      <3>1. Newer(F.data, KeysOf(v[0])) /\ g.data \subseteq KeysOf(v[0])
        BY <1>3, <2>2, LevelsAre, Zenon DEF KeysOf
      <3> QED
        BY <2>2, <3>1, Zenon DEF Newer
    <2>3. CASE f \in v[0] /\ g = F
      <3>1. f.number < F.number /\ f.number \in Nat /\ F.number \in Nat
        BY <1>3, <1>4, <2>3, LevelsAre, FileData DEF File, FileMetaData
      <3> QED
        BY <1>8, <2>3, <3>1
    <2>4. f \in v[0] \cup {F} /\ g \in v[0] \cup {F}
      BY <1>1, LevelsAre, Zenon
    <2>5. ~(f = F /\ g = F)
      BY <1>8 DEF File, FileMetaData
    <2> QED
      BY <2>1, <2>2, <2>3, <2>4, <2>5, Zenon
  <1> QED
    BY <1>6, <1>7, <1>8, Zenon DEF Ordered

\* A compaction under way keeps its inputs, and may still be carried out.
LEMMA GrownChosen ==
    ASSUME NEW v, NEW t \in Levels, NEW F \in File, NEW q, Grown(v, q, t, F),
           NEW c, ChosenWell(v, c)
    PROVE  ChosenWell(q, c)
  <1> DEFINE n == c.level + 1
  <1>1. \A l \in Levels : v[l] \subseteq q[l]
    BY Zenon DEF Grown
  <1>2. /\ c.level \in Levels /\ c.level + 1 \in Levels /\ c.level \in Nat
        /\ c.in0 \in Seq(v[c.level]) /\ c.in0 # <<>> /\ ToSet(c.in0) \subseteq v[c.level]
        /\ ToSet(c.in0) # {} /\ c.in1 \subseteq v[c.level + 1]
    BY Zenon DEF ChosenWell
  <1>3. v[c.level] \subseteq q[c.level] /\ v[c.level + 1] \subseteq q[c.level + 1]
    BY <1>1, <1>2
  <1>4. c.in0 \in Seq(q[c.level])
    BY <1>2, <1>3
  <1>5. ToSet(c.in0) \subseteq q[c.level] /\ c.in1 \subseteq q[c.level + 1]
    BY <1>2, <1>3, Zenon
  <1> QED
    BY <1>2, <1>4, <1>5, Zenon DEF ChosenWell

LEMMA GrownInOrder ==
    ASSUME NEW v, VersionOK(v), NEW t \in Levels, NEW F \in File, NEW lo, NEW hi,
           Fits(v, t, F, lo, hi), NEW q, Grown(v, q, t, F),
           NEW c, ChosenWell(v, c), InOrderWith(v, c)
    PROVE  InOrderWith(q, c)
  <1> DEFINE L == c.level
             m == c.level + 1
             S == ToSet(c.in0)
             T == c.in1
             K == KeysOf(S \cup T)
  <1>1. /\ L \in Levels /\ m \in Levels /\ S \subseteq v[L] /\ T \subseteq v[m]
        /\ Settled(v[L], S) /\ Covered(S \cup T)
        /\ \A g \in v[m] \ T : Ahead(g.data, K) \/ Ahead(K, g.data)
    BY Zenon DEF ChosenWell, InOrderWith, Replaceable
  <1>2. L <= m /\ m # 0
    BY <1>1, LevelsAre DEF ChosenWell
  <1>3. /\ q[t] = v[t] \cup {F} /\ \A l \in Levels : l # t => q[l] = v[l]
    BY Zenon DEF Grown
  <1>4. Settled(q[L], S)
    <2> SUFFICES ASSUME NEW g \in q[L] \ S PROVE Newer(g.data, KeysOf(S))
      BY Zenon DEF Settled
    <2>1. CASE g \in v[L]
      BY <1>1, <2>1, Zenon DEF Settled
    <2>2. CASE g \notin v[L]
      <3>1. g = F
        BY <1>1, <1>3, <2>2, Zenon
      <3>2. Newer(F.data, KeysOf(v[L])) /\ KeysOf(S) \subseteq KeysOf(v[L])
        BY <1>1, KeysOfMore, Zenon DEF Fits
      <3> QED
        BY <3>1, <3>2, Zenon DEF Newer
    <2> QED
      BY <2>1, <2>2, Zenon
  <1>5. ASSUME NEW g \in q[m] \ T PROVE Ahead(g.data, K) \/ Ahead(K, g.data)
    <2>1. CASE g \in v[m]
      BY <1>1, <2>1, Zenon
    <2>2. CASE g \notin v[m]
      <3>1. g = F /\ t = m
        BY <1>1, <1>3, <2>2, Zenon
      <3>2. L <= t /\ t <= t /\ t # 0
        BY <1>2, <3>1, LevelsAre
      <3>3. Misses(F.data, lo, hi, v[L]) /\ Misses(F.data, lo, hi, v[m])
        BY <1>1, <3>1, <3>2, FitMisses, Zenon
      <3>4. Misses(F.data, lo, hi, S \cup T)
        BY <1>1, <3>3, Zenon DEF Misses
      <3>5. FilesOK(S) /\ FilesOK(T)
        BY <1>1, SomeFiles, Zenon DEF VersionOK
      <3>6. S \subseteq S \cup T /\ T \subseteq S \cup T
        OBVIOUS
      <3> HIDE DEF S, T
      <3>7. Ahead(F.data, K) \/ Ahead(K, F.data)
        BY <1>1, <3>4, <3>5, <3>6, MissedCovered, Zenon
      <3> QED
        BY <3>1, <3>7, Zenon
    <2> QED
      BY <2>1, <2>2, Zenon
  <1> QED
    BY <1>1, <1>4, <1>5, Zenon DEF InOrderWith, Replaceable
-----------------------------------------------------------------------------
\* Flushes and compactions as steps of the version.

\* The files of a version are numbered below n.
Numbered(v, n) == n \in Nat \ {0} /\ \A l \in Levels : \A f \in v[l] : f.number < n

\* The memtable's entries d become a file of version q, with number n.
Flushed(v, q, n, d) ==
    /\ VersionOK(q) /\ AllOf(q) \subseteq d \cup AllOf(v) /\ Numbered(q, n + 1)
    /\ \A c : ChosenWell(v, c) => ChosenWell(q, c)
    /\ Ordered(v) /\ Newer(d, AllOf(v)) =>
           /\ Ordered(q)
           /\ \A c : ChosenWell(v, c) /\ InOrderWith(v, c) => InOrderWith(q, c)

LEMMA FlushedIs ==
    ASSUME NEW v, VersionOK(v), NEW n, Numbered(v, n), NEW d, d \subseteq Entry, d # {},
           Unique(d \cup AllOf(v)),
           NEW t, t = PickLevelForMemTableOutput(v, FirstOf(d).key, LastOf(d).key),
           NEW q, q = Apply(v, NoFiles, At(t, {[number |-> n, data |-> d]}))
    PROVE  Flushed(v, q, n, d)
  <1> DEFINE F == [number |-> n, data |-> d]
             lo == FirstOf(d).key
             hi == LastOf(d).key
  <1>1. F \in File /\ F.data = d /\ F.number = n
    BY DEF File, FileMetaData, Numbered
  <1>2. Unique(d)
    <2>1. d \subseteq d \cup AllOf(v)
      OBVIOUS
    <2> QED
      BY <2>1, UniquePart, Zenon
  <1>3. lo \in Nat /\ hi \in Nat /\ lo <= hi /\ \A e \in d : lo <= e.key /\ e.key <= hi
    <2>1. /\ FirstOf(d) \in d /\ FirstOf(d).key \in Nat /\ LastOf(d).key \in Nat
          /\ \A o \in d : FirstOf(d).key <= o.key /\ o.key <= LastOf(d).key /\ o.key \in Nat
      BY <1>2, EndKeys, Zenon
    <2> QED
      BY <2>1
  <1>4. v \in [Levels -> SUBSET File] /\ \A l \in Levels : \A f \in v[l] : f.number < n /\ f.number \in Nat
    BY FileData, Zenon DEF VersionOK, Numbered
  <1>5. t = PickLevelForMemTableOutput(v, lo, hi)
    OBVIOUS
  <1> HIDE DEF lo, hi
  <1>6. /\ t \in Levels
        /\ (\A l \in Levels \ {0} : Apart(v[l])) /\ t # 0 =>
               \A l \in 0 .. t : l \in Levels /\ \A f \in v[l] : ~Overlaps(f, lo, hi)
    BY <1>3, <1>5, PickedLevel, Zenon
  <1>7. q = Apply(v, NoFiles, At(t, {F}))
    OBVIOUS
  <1> HIDE DEF F
  <1>8. Grown(v, q, t, F)
    BY <1>1, <1>4, <1>6, <1>7, ApplyGrown, Zenon
  <1>9. VersionOK(q) /\ AllOf(q) \subseteq d \cup AllOf(v)
    <2>1. \A l \in Levels : \A f \in v[l] : f.number # F.number
      BY <1>1, <1>4
    <2>2. Unique(F.data \cup AllOf(v))
      BY <1>1
    <2>3. VersionOK(q) /\ AllOf(q) \subseteq F.data \cup AllOf(v)
      BY <1>1, <1>6, <1>8, <2>1, <2>2, GrownOK, Zenon
    <2> QED
      BY <1>1, <2>3
  <1>10. Numbered(q, n + 1)
    <2>1. \A l \in Levels : \A f \in q[l] : f \in v[l] \/ f = F
      BY <1>8, Zenon DEF Grown
    <2>2. n \in Nat \ {0}
      BY DEF Numbered
    <2>3. ASSUME NEW l \in Levels, NEW f \in q[l] PROVE f.number < n + 1
      <3>1. CASE f = F
        BY <1>1, <2>2, <3>1
      <3>2. CASE f \in v[l]
        <4>1. f.number < n /\ f.number \in Nat
          BY <1>4, <3>2, Zenon
        <4> QED
          BY <2>2, <4>1
      <3> QED
        BY <2>1, <3>1, <3>2, Zenon
    <2>4. n + 1 \in Nat \ {0}
      BY <2>2
    <2> QED
      BY <2>3, <2>4, Zenon DEF Numbered
  <1>11. ASSUME NEW c, ChosenWell(v, c) PROVE ChosenWell(q, c)
    BY <1>1, <1>6, <1>8, <1>11, GrownChosen
  <1>12. ASSUME Ordered(v), Newer(d, AllOf(v))
         PROVE  Ordered(q) /\ \A c : ChosenWell(v, c) /\ InOrderWith(v, c) => InOrderWith(q, c)
    <2>1. Fits(v, t, F, lo, hi)
      <3>1. ASSUME NEW l \in Levels PROVE Newer(F.data, KeysOf(v[l]))
        <4>1. KeysOf(v[l]) \subseteq AllOf(v)
          BY InAll, Zenon
        <4> QED
          BY <1>1, <1>12, <4>1, Zenon DEF Newer
      <3>2. Misses(F.data, lo, hi, {})
        BY <1>1, <1>3, Zenon DEF Misses
      <3>3. \A l \in Levels : \A f \in v[l] : f.number < F.number
        BY <1>1, <1>4, Zenon
      <3>4. \A l \in Levels \ {0} : Apart(v[l])
        BY <1>12, Zenon DEF Ordered
      <3> QED
        BY <1>6, <3>1, <3>2, <3>3, <3>4, Zenon DEF Fits
    <2>2. Ordered(q)
      BY <1>1, <1>6, <1>8, <1>12, <2>1, GrownOrdered, Zenon
    <2>3. ASSUME NEW c, ChosenWell(v, c), InOrderWith(v, c) PROVE InOrderWith(q, c)
      BY <1>1, <1>6, <1>8, <2>1, <2>3, GrownInOrder
    <2> QED
      BY <2>2, <2>3, Zenon
  <1> QED
    BY <1>9, <1>10, <1>11, <1>12, Zenon DEF Flushed

\* A compaction turns version v into q, whose files are numbered below n.
Compacted(v, q, n, c) ==
    /\ VersionOK(q) /\ AllOf(q) \subseteq AllOf(v) /\ Numbered(q, n)
    /\ Ordered(v) /\ InOrderWith(v, c) => Ordered(q)

\* What a compaction takes.
LEMMA Taken ==
    ASSUME NEW v, VersionOK(v), NEW c, ChosenWell(v, c),
           NEW S, S = ToSet(c.in0), NEW T, T = c.in1, NEW K, K = KeysOf(S \cup T)
    PROVE  /\ S \subseteq v[c.level] /\ T \subseteq v[c.level + 1]
           /\ c.level \in Levels /\ c.level \in Nat /\ c.level + 1 \in Levels
           /\ FilesOK(S) /\ FilesOK(T) /\ K \subseteq AllOf(v) /\ K \subseteq Entry /\ Unique(K)
  <1> DEFINE L == c.level
             m == c.level + 1
  <1>1. S \subseteq v[L] /\ T \subseteq v[m] /\ L \in Levels /\ L \in Nat /\ m \in Levels
    BY Zenon DEF ChosenWell
  <1>2. FilesOK(v[L]) /\ FilesOK(v[m])
    BY <1>1, Zenon DEF VersionOK
  <1>3. FilesOK(S) /\ FilesOK(T)
    BY <1>1, <1>2, SomeFiles, Zenon
  <1> HIDE DEF L, m
  <1>4. KeysOf(S) \subseteq KeysOf(v[L]) /\ KeysOf(T) \subseteq KeysOf(v[m])
    BY <1>1, KeysOfMore, Zenon
  <1>5. KeysOf(v[L]) \subseteq AllOf(v)
    BY <1>1, InAll, Zenon
  <1>6. KeysOf(v[m]) \subseteq AllOf(v)
    BY <1>1, InAll, Zenon
  <1>7. K = KeysOf(S) \cup KeysOf(T)
    BY KeysOfMore, Zenon
  <1>8. K \subseteq AllOf(v)
    BY <1>4, <1>5, <1>6, <1>7, Zenon
  <1>9. Unique(K)
    BY <1>8, UniquePart, Zenon DEF VersionOK
  <1>10. K \subseteq Entry
    <2>1. \A f \in S \cup T : f.data \subseteq Entry
      BY <1>3, FileData, Zenon
    <2> QED
      BY <2>1 DEF KeysOf
  <1> QED
    BY <1>1, <1>3, <1>8, <1>9, <1>10, Zenon DEF L, m

\* The outputs o as files, numbered from n on.
OutFiles(o, n) == {[number |-> n + i - 1, data |-> o[i]] : i \in DOMAIN o}

LEMMA OutFilesAre ==
    ASSUME NEW K, K \subseteq Entry, Unique(K), NEW o, Outs(o, K), NEW n \in Nat \ {0}
    PROVE  /\ FilesOK(OutFiles(o, n)) /\ Apart(OutFiles(o, n)) /\ KeysOf(OutFiles(o, n)) \subseteq K
           /\ Len(o) \in Nat /\ \A f \in OutFiles(o, n) : n <= f.number /\ f.number < n + Len(o)
  <1> DEFINE m == Len(o)
             N == OutFiles(o, n)
             file(i) == [number |-> n + i - 1, data |-> o[i]]
  <1>1. /\ m \in Nat /\ DOMAIN o = 1 .. m
        /\ \A i \in 1 .. m : o[i] \subseteq K /\ o[i] # {}
        /\ \A i, j \in 1 .. m : i < j => Ahead(o[i], o[j])
    <2>1. o \in Seq((SUBSET K) \ {{}})
      BY Zenon DEF Outs
    <2>2. m \in Nat /\ DOMAIN o = 1 .. m /\ \A i \in 1 .. m : o[i] \in (SUBSET K) \ {{}}
      BY <2>1
    <2>3. \A i, j \in DOMAIN o : i < j => Ahead(o[i], o[j])
      BY Zenon DEF Outs
    <2> QED
      BY <2>2, <2>3
  <1>2. N = {file(i) : i \in 1 .. m}
    BY <1>1, Zenon DEF OutFiles
  <1>3. \A i \in 1 .. m : /\ file(i) \in File /\ file(i).data = o[i] /\ file(i).number = n + i - 1
                          /\ n <= file(i).number /\ file(i).number < n + m
    BY <1>1 DEF File, FileMetaData
  <1> HIDE DEF file, N, m
  <1>4. \A f \in N : \E i \in 1 .. m : f = file(i)
    BY <1>2, Zenon
  <1>5. N \subseteq File
    BY <1>3, <1>4, Zenon
  <1>6. IsFiniteSet(N)
    <2>1. IsFiniteSet(1 .. m)
      BY <1>1, FS_Interval
    <2> DEFINE tables == [i \in 1 .. m |-> file(i)]
    <2>2. tables \in [1 .. m -> N] /\ \A f \in N : \E i \in 1 .. m : tables[i] = f
      BY <1>2
    <2>3. tables \in Surjection(1 .. m, N)
      BY <2>2, Zenon DEF Surjection
    <2> QED
      BY <2>1, <2>3, FS_Surjection, Zenon
  <1>7. KeysOf(N) \subseteq K
    <2> SUFFICES ASSUME NEW f \in N PROVE f.data \subseteq K
      BY Zenon DEF KeysOf
    <2> QED
      BY <1>1, <1>3, <1>4, Zenon
  <1>8. Unique(KeysOf(N))
    BY <1>7, UniquePart, Zenon
  <1>9. ASSUME NEW f \in N, NEW g \in N, f.number = g.number PROVE f = g
    <2>1. PICK i \in 1 .. m : f = file(i)
      BY <1>4, Zenon
    <2>2. PICK j \in 1 .. m : g = file(j)
      BY <1>4, Zenon
    <2>3. n + i - 1 = n + j - 1
      BY <1>3, <1>9, <2>1, <2>2, Zenon
    <2>4. i = j
      BY <1>1, <2>3
    <2> QED
      BY <2>1, <2>2, <2>4, Zenon
  <1>10. ASSUME NEW f \in N, NEW g \in N, f # g PROVE Ahead(f.data, g.data) \/ Ahead(g.data, f.data)
    <2>1. PICK i \in 1 .. m : f = file(i)
      BY <1>4, Zenon
    <2>2. PICK j \in 1 .. m : g = file(j)
      BY <1>4, Zenon
    <2>3. i # j
      BY <1>10, <2>1, <2>2, Zenon
    <2>4. i < j \/ j < i
      BY <1>1, <2>3
    <2> QED
      BY <1>1, <1>3, <2>1, <2>2, <2>4, Zenon
  <1>11. FilesOK(N)
    BY <1>5, <1>6, <1>8, <1>9, Zenon DEF FilesOK
  <1>12. Apart(N)
    BY <1>10, Zenon DEF Apart
  <1>13. \A f \in N : n <= f.number /\ f.number < n + m
    BY <1>3, <1>4, Zenon
  <1> QED
    BY <1>1, <1>7, <1>11, <1>12, <1>13, Zenon DEF N, m

LEMMA FinishedIs ==
    ASSUME NEW v, VersionOK(v), NEW n, Numbered(v, n), NEW c, ChosenWell(v, c),
           NEW K, K = KeysOf(ToSet(c.in0) \cup c.in1), NEW o, Outs(o, K),
           NEW q, q = Apply(v, AtBoth(c.level, ToSet(c.in0), c.in1), At(c.level + 1, OutFiles(o, n)))
    PROVE  Compacted(v, q, n + Len(o), c)
  <1> DEFINE S == ToSet(c.in0)
             N == OutFiles(o, n)
             m == Len(o)
  <1>1. PICK T : T = c.in1
    OBVIOUS
  <1>2. PICK L : L = c.level
    OBVIOUS
  <1>3. /\ S \subseteq v[L] /\ T \subseteq v[L + 1] /\ L \in Levels /\ L \in Nat /\ L + 1 \in Levels
        /\ K \subseteq Entry /\ Unique(K)
    BY <1>1, <1>2, Taken
  <1>4. n \in Nat \ {0} /\ \A l \in Levels : \A f \in v[l] : f.number < n /\ f.number \in Nat
    BY FileData, Zenon DEF VersionOK, Numbered
  <1>5. /\ FilesOK(N) /\ Apart(N) /\ KeysOf(N) \subseteq K /\ m \in Nat
        /\ \A f \in N : n <= f.number /\ f.number < n + m
    BY <1>3, <1>4, OutFilesAre, Zenon
  <1>6. v \in [Levels -> SUBSET File]
    BY Zenon DEF VersionOK
  <1>7. q = Apply(v, AtBoth(L, S, T), At(L + 1, N)) /\ K = KeysOf(S \cup T)
    BY <1>1, <1>2, Zenon
  <1> HIDE DEF S, N, m
  <1>8. Moved(v, q, L, S, T, N)
    <2>1. N \subseteq File
      BY <1>5, Zenon DEF FilesOK
    <2> QED
      BY <1>3, <1>6, <1>7, <2>1, ApplyMoved
  <1>9. \A f \in N : f.number \in Nat
    BY <1>5, FileData, Zenon
  <1>10. NumbersFree(v, L, S, N)
    <2> SUFFICES ASSUME NEW f \in N, NEW l \in Levels, NEW g \in v[l], f.number = g.number PROVE FALSE
      BY Zenon DEF NumbersFree
    <2>1. n <= f.number /\ f.number < n
      BY <1>4, <1>5, Zenon
    <2> QED
      BY <1>4, <1>9, <2>1
  <1>11. KeysOf(N) \subseteq KeysOf(S \cup T)
    BY <1>5, <1>7, Zenon
  <1>12. VersionOK(q) /\ AllOf(q) \subseteq AllOf(v)
    BY <1>3, <1>5, <1>8, <1>10, <1>11, MovedOK
  <1>13. Numbered(q, n + m)
    <2>1. \A l \in Levels : \A f \in q[l] : f \in v[l] \/ f \in N
      BY <1>3, <1>8, Zenon DEF Moved
    <2>2. ASSUME NEW l \in Levels, NEW f \in q[l] PROVE f.number < n + m
      <3>1. CASE f \in N
        BY <1>5, <3>1, Zenon
      <3>2. CASE f \in v[l]
        <4>1. f.number < n /\ f.number \in Nat
          BY <1>4, <3>2, Zenon
        <4> QED
          BY <1>4, <1>5, <4>1
      <3> QED
        BY <2>1, <3>1, <3>2, Zenon
    <2>3. n + m \in Nat \ {0}
      BY <1>4, <1>5
    <2> QED
      BY <2>2, <2>3, Zenon DEF Numbered
  <1>14. ASSUME Ordered(v), InOrderWith(v, c) PROVE Ordered(q)
    <2>1. Replaceable(v, L, S, T)
      BY <1>1, <1>2, <1>14, Zenon DEF InOrderWith, S
    <2> QED
      BY <1>3, <1>5, <1>8, <1>11, <1>14, <2>1, MovedOrdered
  <1> QED
    BY <1>12, <1>13, <1>14, Zenon DEF Compacted, m

\* The move of one file to the next level.
LEMMA TrivialIs ==
    ASSUME NEW v, VersionOK(v), NEW n, Numbered(v, n), NEW c, ChosenWell(v, c), IsTrivialMove(c),
           NEW q, q = Apply(v, At(c.level, ToSet(c.in0)), At(c.level + 1, ToSet(c.in0)))
    PROVE  Compacted(v, q, n, c)
  <1> DEFINE S == ToSet(c.in0)
  <1>0. PICK K : K = KeysOf(ToSet(c.in0) \cup c.in1)
    OBVIOUS
  <1>1. PICK T : T = c.in1
    OBVIOUS
  <1>2. PICK L : L = c.level
    OBVIOUS
  <1>3. /\ S \subseteq v[L] /\ T \subseteq v[L + 1] /\ L \in Levels /\ L \in Nat /\ L + 1 \in Levels
        /\ FilesOK(S) /\ K \subseteq AllOf(v)
    BY <1>0, <1>1, <1>2, Taken
  <1>4. T = {}
    BY <1>1, Zenon DEF IsTrivialMove
  <1>5. Apart(S)
    <2>1. Len(c.in0) = 1 /\ c.in0 \in Seq(v[c.level])
      BY Zenon DEF IsTrivialMove, ChosenWell
    <2>2. \A f, g \in S : f = g
      BY <2>1 DEF ToSet
    <2> QED
      BY <2>2, Zenon DEF Apart
  <1>6. v \in [Levels -> SUBSET File]
    BY Zenon DEF VersionOK
  <1>7. q = Apply(v, At(L, S), At(L + 1, S))
    BY <1>2, Zenon
  <1> HIDE DEF S
  <1>8. Moved(v, q, L, S, T, S)
    <2>1. S \subseteq File
      BY <1>3, Zenon DEF FilesOK
    <2> QED
      BY <1>3, <1>4, <1>6, <1>7, <2>1, ApplyMoved
  <1>9. \A l \in Levels : FilesOK(v[l])
    BY Zenon DEF VersionOK
  <1>10. NumbersFree(v, L, S, S)
    <2> SUFFICES ASSUME NEW f \in S, NEW l \in Levels, NEW g \in v[l], f.number = g.number
                 PROVE  l = L /\ g \in S
      BY Zenon DEF NumbersFree
    <2>1. l = L
      BY <1>3, Zenon DEF VersionOK
    <2>2. f = g
      BY <1>3, <1>9, <2>1, Zenon DEF FilesOK
    <2> QED
      BY <2>1, <2>2
  <1>11. KeysOf(S) \subseteq KeysOf(S \cup T)
    BY KeysOfMore, Zenon
  <1>12. VersionOK(q) /\ AllOf(q) \subseteq AllOf(v)
    BY <1>3, <1>8, <1>10, <1>11, MovedOK
  <1>13. Numbered(q, n)
    <2>1. \A l \in Levels : \A f \in q[l] : f \in v[l] \/ f \in v[L]
      BY <1>3, <1>8, Zenon DEF Moved
    <2> QED
      BY <1>3, <2>1, Zenon DEF Numbered
  <1>14. ASSUME Ordered(v), InOrderWith(v, c) PROVE Ordered(q)
    <2>1. Replaceable(v, L, S, T)
      BY <1>1, <1>2, <1>14, Zenon DEF InOrderWith, S
    <2> QED
      BY <1>3, <1>5, <1>8, <1>11, <1>14, <2>1, MovedOrdered
  <1> QED
    BY <1>12, <1>13, <1>14, Zenon DEF Compacted
-----------------------------------------------------------------------------
\* The inductive invariant.

\* The updates there are, in the memtables and the files.
EntriesOK ==
    /\ workload \in Workloads /\ last_sequence \in Nat /\ last_sequence <= workload.updates
    /\ mem \subseteq Entry /\ imm \subseteq Entry
    /\ \A e \in mem \cup imm \cup AllOf(files) : e.seq <= last_sequence
    /\ Unique(mem \cup imm \cup AllOf(files))
    /\ has_imm => imm # {}

FilesHeld == VersionOK(files) /\ Numbered(files, next_file)

\* The inputs of the compaction under way are in the current version, and so is the file
\* chosen for its seeks.
ChoicesOK ==
    /\ \A w \in compaction : ChosenWell(files, w.c)
    /\ \A c \in file_to_compact : SoughtFile(files, c)

ManualCalls ==
    {m \in [at : {"none", "waiting", "armed"}, level : Levels, begin : Nat, end : Nat, calls : Nat] :
        m.level + 1 \in Levels}

Shape == EntriesOK /\ FilesHeld /\ ChoicesOK /\ manual \in ManualCalls

\* Nothing in the repository calls CompactRange.
NoManualCompactions == workload.compactions = 0

\* What a read meets first is the newest: from the memtables down.
Order ==
    /\ Ordered(files) /\ Newer(mem, imm) /\ Newer(mem \cup imm, AllOf(files))
    /\ \A w \in compaction : InOrderWith(files, w.c) /\ w.manual = FALSE
    /\ manual.at = "none"

TreeInv == Shape /\ (NoManualCompactions => Order)

LEMMA WorkloadIs ==
    ASSUME NEW w \in Workloads
    PROVE  /\ w.updates \in Nat /\ w.updates <= MaxSequenceNumber - 1 /\ w.types \subseteq Types
           /\ w.ranges \subseteq Nat \X Nat /\ w.compactions \in Nat
  <1>1. w \in Workload
    BY BoundsAssumption, Zenon
  <1>2. w.updates \in 0 .. MaxSequenceNumber - 1
    BY <1>1 DEF Workload
  <1> QED
    BY <1>1, <1>2, Constants DEF Workload

LEMMA NoFilesOK ==
    /\ VersionOK(NoFiles) /\ AllOf(NoFiles) = {} /\ Ordered(NoFiles)
    /\ \A n \in Nat \ {0} : Numbered(NoFiles, n)
  <1>1. NoFiles \in [Levels -> SUBSET File] /\ \A l \in Levels : NoFiles[l] = {}
    BY DEF NoFiles
  <1>2. KeysOf({}) = {}
    BY DEF KeysOf
  <1>3. AllOf(NoFiles) = {}
    <2> SUFFICES ASSUME NEW e \in AllOf(NoFiles) PROVE FALSE
      BY Zenon
    <2>1. PICK l \in Levels : e \in KeysOf(NoFiles[l])
      BY Zenon DEF AllOf
    <2> QED
      BY <1>1, <1>2, <2>1, Zenon
  <1>4. IsFiniteSet({})
    BY FS_EmptySet, Zenon
  <1>5. FilesOK({})
    <2>1. Unique({})
      BY Zenon DEF Unique
    <2> QED
      BY <1>2, <1>4, <2>1 DEF FilesOK
  <1>6. Unique(AllOf(NoFiles))
    BY <1>3 DEF Unique
  <1>7. VersionOK(NoFiles)
    BY <1>1, <1>5, <1>6, Zenon DEF VersionOK
  <1>8. Ordered(NoFiles)
    <2>1. Apart({}) /\ Newer({}, {})
      BY Zenon DEF Apart, Newer
    <2> QED
      BY <1>1, <1>2, <2>1, LevelsAre, Zenon DEF Ordered
  <1>9. \A n \in Nat \ {0} : Numbered(NoFiles, n)
    BY <1>1, Zenon DEF Numbered
  <1> QED
    BY <1>3, <1>7, <1>8, <1>9, Zenon

LEMMA FirstInv == ASSUME Init PROVE TreeInv
  <1>1. /\ mem = {} /\ imm = {} /\ has_imm = FALSE /\ last_sequence = 0
        /\ files = NoFiles /\ next_file = 1 /\ file_to_compact = {}
        /\ compaction = {} /\ manual = NoManual /\ workload \in Workloads
    BY Zenon DEF Init
  <1>2. EntriesOK
    <2>1. mem \cup imm \cup AllOf(files) = {}
      BY <1>1, NoFilesOK, Zenon
    <2>2. Unique({})
      BY Zenon DEF Unique
    <2>3. last_sequence \in Nat /\ last_sequence <= workload.updates
      BY <1>1, WorkloadIs
    <2> QED
      BY <1>1, <2>1, <2>2, <2>3, Zenon DEF EntriesOK
  <1>3. FilesHeld
    <2>1. next_file \in Nat \ {0}
      BY <1>1
    <2> QED
      BY <1>1, <2>1, NoFilesOK, Zenon DEF FilesHeld
  <1>4. ChoicesOK
    BY <1>1, Zenon DEF ChoicesOK
  <1>5. manual \in ManualCalls /\ manual.at = "none"
    <2>1. 0 \in Levels /\ 0 + 1 \in Levels
      BY LevelsAre, Constants DEF Levels
    <2>2. EndKey \in Nat
      BY Constants DEF EndKey
    <2> QED
      BY <1>1, <2>1, <2>2 DEF ManualCalls, NoManual, BeginKey
  <1>6. Order
    <2>1. Newer({}, {}) /\ mem \cup imm = {}
      BY <1>1 DEF Newer
    <2> QED
      BY <1>1, <1>5, <2>1, NoFilesOK, Zenon DEF Order
  <1> QED
    BY <1>2, <1>3, <1>4, <1>5, <1>6, Zenon DEF TreeInv, Shape
-----------------------------------------------------------------------------
\* The application's steps.

LEMMA OthersKeep ==
    ASSUME TreeInv,
           UNCHANGED <<mem, imm, has_imm, last_sequence, files, next_file, file_to_compact,
                       compaction, manual, workload>>
    PROVE  TreeInv'
  <1>1. /\ mem' = mem /\ imm' = imm /\ has_imm' = has_imm /\ last_sequence' = last_sequence
        /\ files' = files /\ next_file' = next_file /\ file_to_compact' = file_to_compact
        /\ compaction' = compaction /\ manual' = manual /\ workload' = workload
    OBVIOUS
  <1>2. Shape'
    <2>1. EntriesOK'
      BY <1>1 DEF TreeInv, Shape, EntriesOK
    <2>2. FilesHeld'
      BY <1>1, Zenon DEF TreeInv, Shape, FilesHeld
    <2>3. ChoicesOK'
      BY <1>1, Zenon DEF TreeInv, Shape, ChoicesOK
    <2> QED
      BY <1>1, <2>1, <2>2, <2>3, Zenon DEF TreeInv, Shape
  <1>3. NoManualCompactions' => Order'
    BY <1>1, Zenon DEF TreeInv, NoManualCompactions, Order
  <1> QED
    BY <1>2, <1>3, Zenon DEF TreeInv

LEMMA WriteKeeps ==
    ASSUME TreeInv, NEW k \in Keys, NEW t \in workload.types, Write(k, t)
    PROVE  TreeInv'
  <1> DEFINE x == [key |-> k, seq |-> last_sequence + 1, type |-> t]
  <1>1. /\ last_sequence < workload.updates /\ last_sequence' = last_sequence + 1
        /\ mem' = mem \cup {x}
        /\ imm' = imm /\ has_imm' = has_imm /\ files' = files /\ next_file' = next_file
        /\ file_to_compact' = file_to_compact /\ compaction' = compaction
        /\ manual' = manual /\ workload' = workload
    BY Zenon DEF Write, MemTableAdd, treeVars
  <1>2. /\ workload \in Workloads /\ last_sequence \in Nat /\ last_sequence <= workload.updates
        /\ mem \subseteq Entry /\ imm \subseteq Entry
        /\ \A e \in mem \cup imm \cup AllOf(files) : e.seq <= last_sequence
        /\ Unique(mem \cup imm \cup AllOf(files))
        /\ has_imm => imm # {}
    BY Zenon DEF TreeInv, Shape, EntriesOK
  <1>3. VersionOK(files)
    BY Zenon DEF TreeInv, Shape, FilesHeld
  <1>4. AllOf(files) \subseteq Entry
    <2> SUFFICES ASSUME NEW e \in AllOf(files) PROVE e \in Entry
      OBVIOUS
    <2>1. PICK l \in Levels : e \in KeysOf(files[l])
      BY Zenon DEF AllOf
    <2>2. PICK f \in files[l] : e \in f.data
      BY <2>1, Zenon DEF KeysOf
    <2>3. f.data \subseteq Entry
      BY <1>3, FileData, Zenon DEF VersionOK
    <2> QED
      BY <2>2, <2>3, Zenon
  <1>5. workload.updates \in Nat /\ workload.updates <= MaxSequenceNumber - 1 /\ t \in Types
    BY <1>2, WorkloadIs, Zenon
  <1>6. x \in Entry /\ x.seq = last_sequence + 1
    <2>1. last_sequence + 1 \in 1 .. MaxSequenceNumber - 1
      BY <1>1, <1>2, <1>5, Constants
    <2> QED
      BY <1>5, <2>1 DEF Entry, InternalKeys
  <1> HIDE DEF x
  <1>7. \A e \in mem \cup imm \cup AllOf(files) : e.seq \in Nat /\ e.seq < x.seq /\ e.seq <= last_sequence + 1
    <2>1. \A e \in mem \cup imm \cup AllOf(files) : e.seq \in Nat
      BY <1>2, <1>4, EntryFields, Zenon
    <2> QED
      BY <1>2, <1>6, <2>1
  <1>8. EntriesOK'
    <2>1. mem' \subseteq Entry /\ imm' \subseteq Entry
      BY <1>1, <1>2, <1>6, Zenon
    <2>2. last_sequence' \in Nat /\ last_sequence' <= workload'.updates
      BY <1>1, <1>2, <1>5
    <2>3. mem' \cup imm' \cup AllOf(files') = (mem \cup imm \cup AllOf(files)) \cup {x}
      BY <1>1
    <2>4. \A e \in mem' \cup imm' \cup AllOf(files') : e.seq <= last_sequence'
      BY <1>1, <1>2, <1>6, <1>7, <2>3
    <2>5. Unique(mem' \cup imm' \cup AllOf(files'))
      <3> SUFFICES ASSUME NEW e \in mem' \cup imm' \cup AllOf(files'),
                          NEW o \in mem' \cup imm' \cup AllOf(files'), e.seq = o.seq
                   PROVE  e = o
        BY Zenon DEF Unique
      <3>1. CASE e = x /\ o # x
        BY <1>7, <2>3, <3>1
      <3>2. CASE e # x /\ o = x
        BY <1>7, <2>3, <3>2
      <3>3. CASE e # x /\ o # x
        BY <1>2, <2>3, <3>3, Zenon DEF Unique
      <3> QED
        BY <3>1, <3>2, <3>3, Zenon
    <2> QED
      BY <1>1, <1>2, <2>1, <2>2, <2>4, <2>5, Zenon DEF EntriesOK
  <1>9. FilesHeld' /\ ChoicesOK' /\ manual' \in ManualCalls
    BY <1>1, Zenon DEF TreeInv, Shape, FilesHeld, ChoicesOK
  <1>10. ASSUME NoManualCompactions' PROVE Order'
    <2>1. Order
      BY <1>1, <1>10, Zenon DEF TreeInv, NoManualCompactions
    <2>2. Newer(mem', imm')
      <3> SUFFICES ASSUME NEW e \in mem \cup {x}, NEW o \in imm, e.key = o.key PROVE e.seq > o.seq
        BY <1>1, Zenon DEF Newer
      <3>1. CASE e = x
        BY <1>2, <1>6, <1>7, <3>1
      <3>2. CASE e \in mem
        BY <2>1, <3>2, Zenon DEF Order, Newer
      <3> QED
        BY <3>1, <3>2, Zenon
    <2>3. Newer(mem' \cup imm', AllOf(files'))
      <3> SUFFICES ASSUME NEW e \in mem \cup {x} \cup imm, NEW o \in AllOf(files), e.key = o.key
                   PROVE  e.seq > o.seq
        BY <1>1, Zenon DEF Newer
      <3>1. CASE e = x
        BY <1>2, <1>6, <1>7, <3>1
      <3>2. CASE e \in mem \cup imm
        BY <2>1, <3>2, Zenon DEF Order, Newer
      <3> QED
        BY <3>1, <3>2, Zenon
    <2> QED
      BY <1>1, <2>1, <2>2, <2>3, Zenon DEF Order
  <1> QED
    BY <1>8, <1>9, <1>10, Zenon DEF TreeInv, Shape

LEMMA SwitchKeeps ==
    ASSUME TreeInv, SwitchMemTable PROVE TreeInv'
  <1>1. /\ ~has_imm /\ mem # {} /\ imm' = mem /\ mem' = {} /\ has_imm' = TRUE
        /\ last_sequence' = last_sequence /\ files' = files /\ next_file' = next_file
        /\ file_to_compact' = file_to_compact /\ compaction' = compaction
        /\ manual' = manual /\ workload' = workload
    BY Zenon DEF SwitchMemTable, treeVars, history
  <1>2. mem' \cup imm' \cup AllOf(files') \subseteq mem \cup imm \cup AllOf(files)
    BY <1>1
  <1>3. EntriesOK'
    <2>1. Unique(mem \cup imm \cup AllOf(files))
      BY Zenon DEF TreeInv, Shape, EntriesOK
    <2>2. Unique(mem' \cup imm' \cup AllOf(files'))
      BY <1>2, <2>1, UniquePart, Zenon
    <2>3. \A e \in mem' \cup imm' \cup AllOf(files') : e.seq <= last_sequence'
      BY <1>1, <1>2, Zenon DEF TreeInv, Shape, EntriesOK
    <2> QED
      BY <1>1, <2>2, <2>3 DEF TreeInv, Shape, EntriesOK
  <1>4. FilesHeld' /\ ChoicesOK' /\ manual' \in ManualCalls
    BY <1>1, Zenon DEF TreeInv, Shape, FilesHeld, ChoicesOK
  <1>5. ASSUME NoManualCompactions' PROVE Order'
    <2>1. Order
      BY <1>1, <1>5, Zenon DEF TreeInv, NoManualCompactions
    <2>2. Newer(mem', imm') /\ Newer(mem' \cup imm', AllOf(files'))
      BY <1>1, <2>1, Zenon DEF Order, Newer
    <2> QED
      BY <1>1, <2>1, <2>2, Zenon DEF Order
  <1> QED
    BY <1>3, <1>4, <1>5, Zenon DEF TreeInv, Shape

LEMMA SeeksKeep ==
    ASSUME TreeInv, NEW charged, \A c \in charged : SoughtFile(files, c), UpdateStats(charged)
    PROVE  TreeInv'
  <1>1. /\ mem' = mem /\ imm' = imm /\ has_imm' = has_imm /\ last_sequence' = last_sequence
        /\ files' = files /\ next_file' = next_file /\ compaction' = compaction
        /\ manual' = manual /\ workload' = workload
        /\ \A c \in file_to_compact' : c \in charged \/ c \in file_to_compact
    BY Zenon DEF UpdateStats, history
  <1>2. ChoicesOK'
    BY <1>1, Zenon DEF TreeInv, Shape, ChoicesOK
  <1>3. Shape'
    BY <1>1, <1>2, Zenon DEF TreeInv, Shape, EntriesOK, FilesHeld
  <1>4. NoManualCompactions' => Order'
    BY <1>1, Zenon DEF TreeInv, NoManualCompactions, Order
  <1> QED
    BY <1>3, <1>4, Zenon DEF TreeInv

LEMMA ManualKeeps ==
    ASSUME TreeInv, ArmManual \/ \E l \in Levels, r \in workload.ranges : ManualCompaction(l, r[1], r[2])
    PROVE  TreeInv'
  <1>1. /\ mem' = mem /\ imm' = imm /\ has_imm' = has_imm /\ last_sequence' = last_sequence
        /\ files' = files /\ next_file' = next_file /\ file_to_compact' = file_to_compact
        /\ compaction' = compaction /\ workload' = workload
    BY Zenon DEF ArmManual, ManualCompaction, treeVars, history
  <1>2. workload \in Workloads /\ manual \in ManualCalls
    BY Zenon DEF TreeInv, Shape, EntriesOK
  <1>3. workload.ranges \subseteq Nat \X Nat /\ workload.compactions \in Nat
    BY <1>2, WorkloadIs, Zenon
  <1>4. manual' \in ManualCalls
    <2>1. CASE ArmManual
      BY <1>2, <2>1 DEF ArmManual, ManualCalls
    <2>2. ASSUME NEW l \in Levels, NEW r \in workload.ranges, ManualCompaction(l, r[1], r[2])
          PROVE  manual' \in ManualCalls
      <3>1. r[1] \in Nat /\ r[2] \in Nat
        BY <1>3
      <3>2. l + 1 \in Levels
        <4>1. l + 1 < NumLevels
          BY <2>2, Zenon DEF ManualCompaction
        <4> QED
          BY <4>1, Constants DEF Levels
      <3>3. manual.calls + 1 \in Nat
        BY <1>2 DEF ManualCalls
      <3>4. manual' = [at |-> "waiting", level |-> l, begin |-> r[1], end |-> r[2],
                       calls |-> manual.calls + 1]
        BY <2>2, Zenon DEF ManualCompaction
      <3> QED
        BY <3>1, <3>2, <3>3, <3>4 DEF ManualCalls
    <2> QED
      BY <2>1, <2>2, Zenon
  <1>5. Shape'
    BY <1>1, <1>4, Zenon DEF TreeInv, Shape, EntriesOK, FilesHeld, ChoicesOK
  <1>6. ~NoManualCompactions'
    <2>1. CASE ArmManual
      <3>1. manual.at # "none"
        BY <2>1 DEF ArmManual
      <3> QED
        BY <1>1, <3>1, Zenon DEF TreeInv, Order, NoManualCompactions
    <2>2. ASSUME NEW l \in Levels, NEW r \in workload.ranges, ManualCompaction(l, r[1], r[2])
          PROVE  ~NoManualCompactions'
      <3>1. manual.calls < workload.compactions /\ manual.calls \in Nat
        BY <1>2, <2>2 DEF ManualCompaction, ManualCalls
      <3> QED
        BY <1>1, <1>3, <3>1 DEF NoManualCompactions
    <2> QED
      BY <2>1, <2>2, Zenon
  <1> QED
    BY <1>5, <1>6, Zenon DEF TreeInv
-----------------------------------------------------------------------------
\* The background thread's steps.

LEMMA InstallIs ==
    ASSUME NEW deleted, NEW added, Install(deleted, added)
    PROVE  files' = Apply(files, deleted, added) /\ file_to_compact' = {}
  BY Zenon DEF Install

LEMMA FlushKeeps == ASSUME TreeInv, CompactMemTable PROVE TreeInv'
  <1> DEFINE l == PickLevelForMemTableOutput(files, FirstOf(imm).key, LastOf(imm).key)
             a == At(l, {[number |-> next_file, data |-> imm]})
  <1>1. /\ has_imm /\ next_file' = next_file + 1 /\ has_imm' = FALSE /\ imm' = {}
        /\ mem' = mem /\ last_sequence' = last_sequence /\ compaction' = compaction
        /\ manual' = manual /\ workload' = workload /\ Install(NoFiles, a)
    BY Zenon DEF CompactMemTable, history
  <1>2. files' = Apply(files, NoFiles, a) /\ file_to_compact' = {}
    BY <1>1, InstallIs, Zenon
  <1>3. /\ imm \subseteq Entry /\ imm # {} /\ Unique(mem \cup imm \cup AllOf(files))
        /\ VersionOK(files) /\ Numbered(files, next_file)
    BY <1>1, Zenon DEF TreeInv, Shape, EntriesOK, FilesHeld
  <1>4. Unique(imm \cup AllOf(files))
    <2>1. imm \cup AllOf(files) \subseteq mem \cup imm \cup AllOf(files)
      OBVIOUS
    <2> QED
      BY <1>3, <2>1, UniquePart, Zenon
  <1>5. Flushed(files, files', next_file, imm)
    BY <1>2, <1>3, <1>4, FlushedIs
  <1> HIDE DEF l, a
  <1>6. /\ VersionOK(files') /\ AllOf(files') \subseteq imm \cup AllOf(files)
        /\ Numbered(files', next_file + 1)
        /\ \A c : ChosenWell(files, c) => ChosenWell(files', c)
        /\ Ordered(files) /\ Newer(imm, AllOf(files)) =>
               /\ Ordered(files')
               /\ \A c : ChosenWell(files, c) /\ InOrderWith(files, c) => InOrderWith(files', c)
    BY <1>5, Zenon DEF Flushed
  <1>7. mem' \cup imm' \cup AllOf(files') \subseteq mem \cup imm \cup AllOf(files)
    BY <1>1, <1>6
  <1>8. EntriesOK'
    <2>1. Unique(mem' \cup imm' \cup AllOf(files'))
      BY <1>3, <1>7, UniquePart, Zenon
    <2>2. \A e \in mem' \cup imm' \cup AllOf(files') : e.seq <= last_sequence'
      BY <1>1, <1>7, Zenon DEF TreeInv, Shape, EntriesOK
    <2> QED
      BY <1>1, <2>1, <2>2 DEF TreeInv, Shape, EntriesOK
  <1>9. FilesHeld'
    BY <1>1, <1>6, Zenon DEF FilesHeld
  <1>10. ChoicesOK'
    BY <1>1, <1>2, <1>6, Zenon DEF ChoicesOK, TreeInv, Shape
  <1>11. ASSUME NoManualCompactions' PROVE Order'
    <2>1. Order
      BY <1>1, <1>11, Zenon DEF TreeInv, NoManualCompactions
    <2>2. Ordered(files) /\ Newer(mem, imm) /\ Newer(mem \cup imm, AllOf(files))
      BY <2>1, Zenon DEF Order
    <2>3. Newer(imm, AllOf(files))
      BY <2>2, Zenon DEF Newer
    <2>4. Newer(mem', imm')
      BY <1>1, Zenon DEF Newer
    <2>5. Newer(mem' \cup imm', AllOf(files'))
      BY <1>1, <1>6, <2>2, Zenon DEF Newer
    <2>6. \A w \in compaction' : InOrderWith(files', w.c) /\ w.manual = FALSE
      <3>1. \A w \in compaction : ChosenWell(files, w.c) /\ InOrderWith(files, w.c) /\ w.manual = FALSE
        BY <2>1, Zenon DEF Order, ChoicesOK, TreeInv, Shape
      <3> QED
        BY <1>1, <1>6, <2>2, <2>3, <3>1, Zenon
    <2> QED
      BY <1>1, <1>6, <2>1, <2>2, <2>3, <2>4, <2>5, <2>6, Zenon DEF Order
  <1> QED
    BY <1>1, <1>8, <1>9, <1>10, <1>11, Zenon DEF TreeInv, Shape

\* A compaction is installed.
LEMMA CompactionKeeps ==
    ASSUME TreeInv, NEW c, Compacted(files, files', next_file', c),
           UNCHANGED <<mem, imm, has_imm, last_sequence, workload>>,
           file_to_compact' = {}, compaction' = {}, manual' \in ManualCalls,
           NoManualCompactions => InOrderWith(files, c) /\ manual' = manual
    PROVE  TreeInv'
  <1>1. /\ mem' = mem /\ imm' = imm /\ has_imm' = has_imm /\ last_sequence' = last_sequence
        /\ workload' = workload
    OBVIOUS
  <1>2. /\ VersionOK(files') /\ AllOf(files') \subseteq AllOf(files) /\ Numbered(files', next_file')
        /\ Ordered(files) /\ InOrderWith(files, c) => Ordered(files')
    BY Zenon DEF Compacted
  <1>3. mem' \cup imm' \cup AllOf(files') \subseteq mem \cup imm \cup AllOf(files)
    BY <1>1, <1>2
  <1>4. EntriesOK'
    <2>1. Unique(mem \cup imm \cup AllOf(files))
      BY Zenon DEF TreeInv, Shape, EntriesOK
    <2>2. Unique(mem' \cup imm' \cup AllOf(files'))
      BY <1>3, <2>1, UniquePart, Zenon
    <2>3. \A e \in mem' \cup imm' \cup AllOf(files') : e.seq <= last_sequence'
      BY <1>1, <1>3, Zenon DEF TreeInv, Shape, EntriesOK
    <2> QED
      BY <1>1, <2>2, <2>3 DEF TreeInv, Shape, EntriesOK
  <1>5. FilesHeld' /\ ChoicesOK'
    BY <1>2, Zenon DEF FilesHeld, ChoicesOK
  <1>6. ASSUME NoManualCompactions' PROVE Order'
    <2>1. Order /\ InOrderWith(files, c) /\ manual' = manual
      BY <1>1, <1>6, Zenon DEF TreeInv, NoManualCompactions
    <2>2. Newer(mem', imm') /\ Newer(mem' \cup imm', AllOf(files'))
      BY <1>1, <1>2, <2>1, Zenon DEF Order, Newer
    <2> QED
      BY <1>2, <2>1, <2>2, Zenon DEF Order
  <1> QED
    BY <1>4, <1>5, <1>6, Zenon DEF TreeInv, Shape

LEMMA BackgroundKeeps ==
    ASSUME TreeInv, NEW isManual, NEW c, ChosenWell(files, c), Background(isManual, c), compaction = {},
           NoManualCompactions => InOrderWith(files, c) /\ isManual = FALSE
    PROVE  TreeInv'
  <1>1. /\ mem' = mem /\ imm' = imm /\ has_imm' = has_imm /\ last_sequence' = last_sequence
        /\ manual' = manual /\ workload' = workload
    BY Zenon DEF Background, history
  <1>2. VersionOK(files) /\ Numbered(files, next_file) /\ manual \in ManualCalls
    BY Zenon DEF TreeInv, Shape, FilesHeld
  <1>3. CASE ~isManual /\ IsTrivialMove(c)
    <2>1. /\ next_file' = next_file /\ compaction' = compaction
          /\ Install(At(c.level, ToSet(c.in0)), At(c.level + 1, ToSet(c.in0)))
      BY <1>3, Zenon DEF Background
    <2>2. /\ files' = Apply(files, At(c.level, ToSet(c.in0)), At(c.level + 1, ToSet(c.in0)))
          /\ file_to_compact' = {}
      BY <2>1, InstallIs, Zenon
    <2>3. Compacted(files, files', next_file, c)
      BY <1>2, <1>3, <2>2, TrivialIs
    <2> QED
      BY <1>1, <1>2, <2>1, <2>2, <2>3, CompactionKeeps
  <1>4. CASE ~(~isManual /\ IsTrivialMove(c))
    <2>1. PICK i, s : compaction' = {[c |-> c, input |-> i, manual |-> isManual, smallest_snapshot |-> s]}
      BY <1>4, Zenon DEF Background
    <2>2. files' = files /\ next_file' = next_file /\ file_to_compact' = file_to_compact
      BY <1>4, Zenon DEF Background, treeVars
    <2>3. \A w \in compaction' : w.c = c /\ w.manual = isManual
      BY <2>1
    <2>4. ChoicesOK'
      BY <2>2, <2>3, Zenon DEF ChoicesOK, TreeInv, Shape
    <2>5. EntriesOK'
      BY <1>1, <2>2 DEF TreeInv, Shape, EntriesOK
    <2>6. FilesHeld'
      BY <2>2, Zenon DEF TreeInv, Shape, FilesHeld
    <2>7. NoManualCompactions' => Order'
      BY <1>1, <2>2, <2>3, Zenon DEF TreeInv, NoManualCompactions, Order
    <2> QED
      BY <1>1, <1>2, <2>4, <2>5, <2>6, <2>7, Zenon DEF TreeInv, Shape
  <1> QED
    BY <1>3, <1>4, Zenon

LEMMA StartKeeps == ASSUME TreeInv, BackgroundCompaction PROVE TreeInv'
  <1>1. compaction = {}
    BY Zenon DEF BackgroundCompaction
  <1>2. /\ VersionOK(files) /\ manual \in ManualCalls /\ \A f \in file_to_compact : SoughtFile(files, f)
        /\ NoManualCompactions => Ordered(files) /\ manual.at = "none"
    BY Zenon DEF TreeInv, Shape, FilesHeld, ChoicesOK, Order
  <1>3. /\ manual.level \in Levels /\ manual.level + 1 \in Levels
        /\ manual.begin \in Nat /\ manual.end \in Nat /\ manual.calls \in Nat
    BY <1>2 DEF ManualCalls
  <1>4. CASE /\ manual.at = "armed" /\ manual' = ManualDone
             /\ UNCHANGED <<mem, imm, has_imm, last_sequence, snapshots, treeVars,
                            compact_pointer, compaction, history>>
    <2>1. /\ mem' = mem /\ imm' = imm /\ has_imm' = has_imm /\ last_sequence' = last_sequence
          /\ files' = files /\ next_file' = next_file /\ file_to_compact' = file_to_compact
          /\ compaction' = compaction /\ workload' = workload
      BY <1>4, Zenon DEF treeVars, history
    <2>2. manual' \in ManualCalls
      <3>1. manual' = [at |-> "none", level |-> 0, begin |-> BeginKey, end |-> EndKey,
                       calls |-> manual.calls]
        BY <1>4 DEF ManualDone, NoManual
      <3>2. 0 \in Levels /\ 0 + 1 \in Levels /\ EndKey \in Nat
        BY LevelsAre, Constants DEF Levels, EndKey
      <3> QED
        BY <1>3, <3>1, <3>2 DEF ManualCalls, BeginKey
    <2>3. ~NoManualCompactions
      BY <1>2, <1>4
    <2>4. EntriesOK'
      BY <2>1 DEF TreeInv, Shape, EntriesOK
    <2>5. FilesHeld' /\ ChoicesOK'
      BY <2>1, Zenon DEF TreeInv, Shape, FilesHeld, ChoicesOK
    <2>6. ~NoManualCompactions'
      BY <2>1, <2>3, Zenon DEF NoManualCompactions
    <2> QED
      BY <2>2, <2>4, <2>5, <2>6, Zenon DEF TreeInv, Shape
  <1>5. ASSUME manual.at = "armed",
               GetOverlappingInputs(files, manual.level, manual.begin, manual.end) # {},
               NEW c, c = CompactRange(files, manual.level, manual.begin, manual.end),
               Background(TRUE, c)
        PROVE  TreeInv'
    <2>1. ChosenWell(files, c)
      BY <1>2, <1>3, <1>5, RangeIs
    <2>2. ~NoManualCompactions
      BY <1>2, <1>5
    <2> QED
      BY <1>1, <1>5, <2>1, <2>2, BackgroundKeeps
  <1>6. ASSUME SizeCompaction(files) \/ file_to_compact # {}, NEW c,
               c = PickCompaction(files, compact_pointer,
                       IF file_to_compact = {} THEN {} ELSE CHOOSE f \in file_to_compact : TRUE),
               Background(FALSE, c)
        PROVE  TreeInv'
    <2>1. PICK g : g = IF file_to_compact = {} THEN {} ELSE CHOOSE f \in file_to_compact : TRUE
      OBVIOUS
    <2>2. c = PickCompaction(files, compact_pointer, g)
      BY <1>6, <2>1, Zenon
    <2>3. ~SizeCompaction(files) => SoughtFile(files, g)
      <3>1. file_to_compact # {} => g \in file_to_compact
        BY <2>1
      <3> QED
        BY <1>2, <1>6, <3>1, Zenon
    <2>4. /\ ChosenWell(files, c)
          /\ (\A l \in Levels \ {0} : Apart(files[l])) => InOrderWith(files, c)
      BY <1>2, <2>2, <2>3, PickIs
    <2>5. NoManualCompactions => InOrderWith(files, c)
      BY <1>2, <2>4, Zenon DEF Ordered
    <2> QED
      BY <1>1, <1>6, <2>4, <2>5, BackgroundKeeps
  <1> QED
    BY <1>4, <1>5, <1>6, Zenon DEF BackgroundCompaction

LEMMA FinishKeepsAll == ASSUME TreeInv, FinishCompaction PROVE TreeInv'
  <1>1. PICK w \in compaction :
            \E outputs \in {DoCompactionWork(w.input, w.c, w.smallest_snapshot)} :
                /\ next_file' = next_file + Len(outputs)
                /\ Install(AtBoth(w.c.level, ToSet(w.c.in0), w.c.in1),
                           At(w.c.level + 1, OutFiles(outputs, next_file)))
                /\ compaction' = {}
                /\ manual' = AfterManual(w.manual, w.c)
                /\ UNCHANGED <<mem, imm, has_imm, last_sequence, snapshots, compact_pointer, history>>
    BY Zenon DEF FinishCompaction, OutFiles
  <1>2. PICK c : c = w.c
    OBVIOUS
  <1>3. PICK o : o = DoCompactionWork(w.input, c, w.smallest_snapshot)
    OBVIOUS
  <1>4. /\ next_file' = next_file + Len(o)
        /\ Install(AtBoth(c.level, ToSet(c.in0), c.in1), At(c.level + 1, OutFiles(o, next_file)))
        /\ compaction' = {} /\ manual' = AfterManual(w.manual, c)
        /\ mem' = mem /\ imm' = imm /\ has_imm' = has_imm /\ last_sequence' = last_sequence
        /\ workload' = workload
    BY <1>1, <1>2, <1>3, Zenon DEF history
  <1>5. /\ VersionOK(files) /\ Numbered(files, next_file) /\ manual \in ManualCalls
        /\ ChosenWell(files, c)
    BY <1>2, Zenon DEF TreeInv, Shape, FilesHeld, ChoicesOK
  <1>6. PICK K : K = KeysOf(ToSet(c.in0) \cup c.in1)
    OBVIOUS
  <1>7. K \subseteq Entry /\ Unique(K) /\ FilesOK(ToSet(c.in0)) /\ ToSet(c.in0) \subseteq files[c.level]
    BY <1>5, <1>6, Taken
  <1>8. Outs(o, K)
    <2>1. PICK v, s : v = w.input /\ s = w.smallest_snapshot
      OBVIOUS
    <2>2. Outs(DoCompactionWork(v, c, s), K)
      BY <1>6, <1>7, OutputsAre
    <2> QED
      BY <1>3, <2>1, <2>2, Zenon
  <1>9. /\ files' = Apply(files, AtBoth(c.level, ToSet(c.in0), c.in1),
                         At(c.level + 1, OutFiles(o, next_file)))
        /\ file_to_compact' = {}
    BY <1>4, InstallIs, Zenon
  <1>10. Compacted(files, files', next_file', c)
    <2>1. PICK n : n = next_file
      OBVIOUS
    <2>2. Compacted(files, files', n + Len(o), c)
      BY <1>5, <1>6, <1>8, <1>9, <2>1, FinishedIs
    <2> QED
      BY <1>4, <2>1, <2>2, Zenon
  <1>11. manual' \in ManualCalls
    <2>1. CASE w.manual
      <3>1. c.in0 \in Seq(files[c.level]) /\ c.in0 # <<>>
        BY <1>5, Zenon DEF ChosenWell
      <3>2. PICK f : f = Last(c.in0)
        OBVIOUS
      <3>3. f \in files[c.level]
        BY <3>1, <3>2 DEF Last
      <3>4. FilesOK(files[c.level])
        BY <1>5, Zenon DEF ChosenWell, VersionOK
      <3>5. Largest(f).key \in Nat
        BY <3>3, <3>4, FileEnds
      <3>6. manual' = [manual EXCEPT !.at = "waiting", !.begin = Largest(f).key]
        BY <1>4, <2>1, <3>2 DEF AfterManual
      <3> HIDE DEF Largest
      <3> QED
        BY <1>5, <3>5, <3>6 DEF ManualCalls
    <2>2. CASE ~w.manual
      BY <1>4, <1>5, <2>2 DEF AfterManual
    <2> QED
      BY <2>1, <2>2
  <1>12. NoManualCompactions => InOrderWith(files, c) /\ manual' = manual
    <2>1. NoManualCompactions => InOrderWith(files, c) /\ w.manual = FALSE
      BY <1>2, Zenon DEF TreeInv, Order
    <2> QED
      BY <1>4, <2>1 DEF AfterManual
  <1> QED
    BY <1>4, <1>9, <1>10, <1>11, <1>12, CompactionKeeps

LEMMA NextKeeps == ASSUME TreeInv, [Next]_vars PROVE TreeInv'
  <1>1. VersionOK(files)
    BY Zenon DEF TreeInv, Shape, FilesHeld
  <1>2. CASE \E k \in Keys, t \in workload.types : Write(k, t)
    BY <1>2, WriteKeeps, Zenon
  <1>3. CASE SwitchMemTable
    BY <1>3, SwitchKeeps, Zenon
  <1>4. CASE GetSnapshot
    BY <1>4, OthersKeep, Zenon DEF GetSnapshot, treeVars
  <1>5. CASE \E i \in DOMAIN snapshots : ReleaseSnapshot(i)
    BY <1>5, OthersKeep, Zenon DEF ReleaseSnapshot, treeVars
  <1>6. CASE \E k \in Keys, s \in {last_sequence} \cup Range(snapshots) : ReadTables(k, s)
    <2>1. PICK k, s : UpdateStats(GetIn(files, k, s).charged)
      BY <1>6, Zenon DEF ReadTables
    <2>2. \A c \in GetIn(files, k, s).charged : SoughtFile(files, c)
      BY <1>1, ChargedIs
    <2> QED
      BY <2>1, <2>2, SeeksKeep, Zenon
  <1>7. CASE \E e \in KeysOf(UNION {files[l] : l \in Levels}) : RecordReadSample(e)
    <2>1. PICK k, s : UpdateStats(ReadSample(files, k, s))
      BY <1>7, Zenon DEF RecordReadSample
    <2>2. \A c \in ReadSample(files, k, s) : SoughtFile(files, c)
      BY <1>1, ChargedIs
    <2> QED
      BY <2>1, <2>2, SeeksKeep, Zenon
  <1>8. CASE ArmManual \/ \E l \in Levels, r \in workload.ranges : ManualCompaction(l, r[1], r[2])
    BY <1>8, ManualKeeps, Zenon
  <1>9. CASE BackgroundThread
    BY <1>9, FlushKeeps, StartKeeps, FinishKeepsAll, Zenon DEF BackgroundThread
  <1>10. CASE UNCHANGED vars
    BY <1>10, OthersKeep, Zenon DEF vars
  <1> QED
    BY <1>2, <1>3, <1>4, <1>5, <1>6, <1>7, <1>8, <1>9, <1>10, Zenon DEF Next, Application
-----------------------------------------------------------------------------
\* Theorems.

\* The files of the tree keep the shape that its steps rely on, manual compactions or not:
\* no two updates share a sequence number, no two files a number, and the inputs of a compaction stay
\* in the current version while the memtable is flushed under it.  Without manual compactions
\* the tree is in order: this is what the other theorems follow from.
THEOREM TreeInvHolds == Spec => []TreeInv
  <1>1. Init => TreeInv
    BY FirstInv, Zenon
  <1>2. TreeInv /\ [Next]_vars => TreeInv'
    BY NextKeeps, Zenon
  <1> QED
    BY <1>1, <1>2, PTL DEF Spec

\* A file chosen for its seeks (Version::UpdateStats) is in the current version, and there is a
\* level to compact it into: the seek is charged to the first file looked at only if there is a
\* second one, further down or in level 0, and every new version forgets the choice.
THEOREM SeekFilesStay == Spec => []SeekFileHasLevelBelow
  <1>1. TreeInv => SeekFileHasLevelBelow
    <2> SUFFICES ASSUME TreeInv, NEW c \in file_to_compact
                 PROVE  c.file \in files[c.level] /\ c.level + 1 < NumLevels
      BY Zenon DEF SeekFileHasLevelBelow
    <2>1. c.file \in files[c.level] /\ c.level + 1 \in Levels
      BY Zenon DEF TreeInv, Shape, ChoicesOK, SoughtFile
    <2> QED
      BY <2>1, LevelsAre, Zenon
  <1> QED
    BY <1>1, TreeInvHolds, PTL

\* Without manual compactions, which nothing in the repository asks for, the files of a level
\* below level 0 follow one another, as Builder::SaveTo asserts: whatever PickCompaction
\* chooses, and though CompactMemTable puts tables past the first levels while DoCompactionWork
\* writes others.
THEOREM LevelsStayDisjoint == Spec => [](NoManualCompactions => LevelsDisjoint)
  <1>1. TreeInv => (NoManualCompactions => LevelsDisjoint)
    <2> SUFFICES ASSUME TreeInv, NoManualCompactions, NEW l \in Levels \ {0},
                        NEW i \in 1 .. Len(Sorted(files[l])) - 1
                 PROVE  Before(Largest(Sorted(files[l])[i]), Smallest(Sorted(files[l])[i + 1]))
      BY Zenon DEF LevelsDisjoint
    <2> DEFINE fs == files[l]
               s == Sorted(fs)
    <2>1. FilesOK(fs) /\ Apart(fs)
      BY Zenon DEF TreeInv, Shape, FilesHeld, VersionOK, Order, Ordered
    <2> HIDE DEF fs
    <2>2. /\ Cardinality(fs) \in Nat /\ Len(s) = Cardinality(fs)
          /\ \A j \in 1 .. Cardinality(fs) : s[j] \in fs
      BY <2>1, SortedIs
    <2>3. i \in 1 .. Len(s) - 1
      BY DEF fs
    <2> HIDE DEF s
    <2>4. i \in 1 .. Cardinality(fs) /\ i + 1 \in 1 .. Cardinality(fs) /\ i < i + 1
      BY <2>2, <2>3
    <2>5. Ahead(s[i].data, s[i + 1].data)
      BY <2>1, <2>4, SortedApart DEF s
    <2>6. s[i] \in fs /\ s[i + 1] \in fs
      BY <2>2, <2>4, Zenon
    <2>7. Before(Largest(s[i]), Smallest(s[i + 1]))
      BY <2>1, <2>5, <2>6, AheadEnds, Zenon
    <2> QED
      BY <2>7, Zenon DEF s, fs
  <1> QED
    BY <1>1, TreeInvHolds, PTL

\* Without manual compactions, entries never hop across levels, as Version::Get relies on: the
\* updates of a user key get older from the memtables to level 0, through its files from the
\* newest on, and down the levels, so that the first one met is the right one.
THEOREM UpdatesStayInOrder == Spec => [](NoManualCompactions => NewerAbove)
  <1>1. TreeInv => (NoManualCompactions => NewerAbove)
    <2> SUFFICES ASSUME TreeInv, NoManualCompactions PROVE NewerAbove
      OBVIOUS
    <2>1. Ordered(files) /\ Newer(mem, imm) /\ Newer(mem \cup imm, AllOf(files))
      BY Zenon DEF TreeInv, Order
    <2>2. \A l \in Levels : Newer(mem \cup imm, KeysOf(files[l]))
      <3> SUFFICES ASSUME NEW l \in Levels PROVE Newer(mem \cup imm, KeysOf(files[l]))
        OBVIOUS
      <3>1. KeysOf(files[l]) \subseteq AllOf(files)
        BY InAll, Zenon
      <3> QED
        BY <2>1, <3>1, Zenon DEF Newer
    <2>3. /\ \A f, g \in files[0] : f.number > g.number => Newer(f.data, g.data)
          /\ \A l, m \in Levels : l < m => Newer(KeysOf(files[l]), KeysOf(files[m]))
      BY <2>1, Zenon DEF Ordered
    <2> QED
      BY <2>1, <2>2, <2>3, Zenon DEF NewerAbove, Newer
  <1> QED
    BY <1>1, TreeInvHolds, PTL
-----------------------------------------------------------------------------
\* Types.

\* Entries of the updates up to n.
Made(n) == InternalKeys(Keys, 1 .. n)

LEMMA SetupForm ==
    ASSUME NEW v, NEW level, NEW s
    PROVE  \E a, b : SetupOtherInputs(v, level, s) = CompactionOf(v, level, a, b)
  BY Zenon DEF SetupOtherInputs, WithNextLevel, Expand, Expand0, Larger

\* The last key and the grandparents are of the version too.
LEMMA FormTyped ==
    ASSUME NEW v, VersionOK(v), NEW level \in Levels, NEW a, NEW b, NEW c,
           c = CompactionOf(v, level, a, b), ChosenWell(v, c),
           NEW E, \A l \in Levels : v[l] \subseteq FileMetaData(E)
    PROVE  c \in Compactions(E)
  <1>1. /\ c.level = level /\ c.in0 = a /\ c.in1 = b
        /\ c.largest = LastOf(KeysOf(ToSet(a)))
        /\ c.grandparents = IF level + 2 < NumLevels
                            THEN Sorted(Overlapping(v, level + 2, ToSet(a) \cup b)) ELSE <<>>
        /\ c = [level |-> c.level, in0 |-> c.in0, in1 |-> c.in1, largest |-> c.largest,
                grandparents |-> c.grandparents]
    BY DEF CompactionOf
  <1>2. /\ level \in Levels /\ level + 1 \in Levels /\ level \in Nat
        /\ a \in Seq(v[level]) /\ ToSet(a) \subseteq v[level] /\ ToSet(a) # {} /\ b \subseteq v[level + 1]
    BY <1>1, Zenon DEF ChosenWell
  <1> DEFINE FM == FileMetaData(E)
  <1>3. v[level] \subseteq FM /\ v[level + 1] \subseteq FM
    BY <1>2, Zenon
  <1>4. \A f \in FM : f.data \subseteq E
    BY DEF FileMetaData
  <1> HIDE DEF FM
  <1>5. a \in Seq(FM) /\ b \in SUBSET FM
    BY <1>2, <1>3
  <1>6. c.largest \in E
    <2>1. PICK S : S = ToSet(a)
      OBVIOUS
    <2>2. FilesOK(v[level])
      BY <1>2, Zenon DEF VersionOK
    <2>3. S \subseteq v[level] /\ S # {}
      BY <1>2, <2>1, Zenon
    <2>4. PICK K : K = KeysOf(S)
      OBVIOUS
    <2>5. K \subseteq Entry /\ K # {} /\ Unique(K)
      BY <2>2, <2>3, <2>4, LastFile
    <2>6. LastOf(K) \in K
      BY <2>5, EndKeys, Zenon
    <2>7. \A f \in S : f.data \subseteq E
      BY <1>3, <1>4, <2>3, Zenon
    <2>8. LastOf(K) \in E
      BY <2>4, <2>6, <2>7, Zenon DEF KeysOf
    <2> QED
      BY <1>1, <2>1, <2>4, <2>8, Zenon
  <1>7. c.grandparents \in Seq(FM)
    <2>1. CASE level + 2 < NumLevels
      <3>1. PICK I : I = ToSet(a) \cup b
        OBVIOUS
      <3>2. PICK F : F = v[level] \cup v[level + 1]
        OBVIOUS
      <3>3. FilesOK(F)
        BY <1>2, <3>2, TwoLevels
      <3>4. I \subseteq F /\ I # {}
        BY <1>2, <3>1, <3>2
      <3>5. PICK m : m = level + 2
        OBVIOUS
      <3>6. m \in Nat /\ m \in Levels
        BY <1>2, <2>1, <3>5, Constants DEF Levels
      <3>7. FilesOK(v[m])
        BY <3>6, Zenon DEF VersionOK
      <3>8. PICK W : W = Overlapping(v, m, I)
        OBVIOUS
      <3>9. OverlapOf(W, v[m], m, I)
        BY <3>3, <3>4, <3>6, <3>7, <3>8, OverlappingAre
      <3>10. W \subseteq v[m]
        BY <3>9, Zenon DEF OverlapOf, InputsOf
      <3>11. FilesOK(W)
        BY <3>7, <3>10, SomeFiles, Zenon
      <3>12. Sorted(W) \in Seq(W)
        BY <3>11, SortedIs, Zenon
      <3>13. W \subseteq FM
        BY <3>6, <3>10, Zenon DEF FM
      <3>14. Sorted(W) \in Seq(FM)
        BY <3>12, <3>13
      <3>15. c.grandparents = Sorted(W)
        BY <1>1, <2>1, <3>1, <3>5, <3>8, Zenon
      <3> QED
        BY <3>14, <3>15, Zenon
    <2>2. CASE ~(level + 2 < NumLevels)
      <3>1. c.grandparents = <<>>
        BY <1>1, <2>2, Zenon
      <3> QED
        BY <3>1
    <2> QED
      BY <2>1, <2>2, Zenon
  <1> QED
    BY <1>1, <1>2, <1>5, <1>6, <1>7 DEF Compactions, FM

\* What is chosen is a compaction.
LEMMA ChoiceTyped ==
    ASSUME NEW v, VersionOK(v), NEW c, ChosenWell(v, c),
           \/ \E level, lo, hi : c = CompactRange(v, level, lo, hi)
           \/ \E pointer, f : c = PickCompaction(v, pointer, f),
           NEW E, \A l \in Levels : v[l] \subseteq FileMetaData(E)
    PROVE  c \in Compactions(E)
  <1>1. PICK level, s : c = SetupOtherInputs(v, level, s)
    BY Zenon DEF CompactRange, PickCompaction, CompactionFrom
  <1>2. PICK a, b : c = CompactionOf(v, level, a, b)
    BY <1>1, SetupForm, Zenon
  <1>3. c.level = level
    BY <1>2 DEF CompactionOf
  <1>4. level \in Levels
    BY <1>3, Zenon DEF ChosenWell
  <1> QED
    BY <1>2, <1>4, FormTyped

SnapshotsOK == snapshots \in Seq(Nat) /\ \A i \in DOMAIN snapshots : snapshots[i] <= last_sequence
ChoiceMade == \A w \in compaction : w.c \in Compactions(Made(last_sequence))

LEMMA RemoveAtIs ==
    ASSUME NEW S, NEW s \in Seq(S), NEW i \in DOMAIN s
    PROVE  RemoveAt(s, i) \in Seq(S) /\ \A j \in DOMAIN RemoveAt(s, i) : \E k \in DOMAIN s : RemoveAt(s, i)[j] = s[k]
  <1> DEFINE n == Len(s)
             a == SubSeq(s, 1, i - 1)
             b == SubSeq(s, i + 1, n)
  <1>1. n \in Nat /\ i \in 1 .. n /\ DOMAIN s = 1 .. n
    OBVIOUS
  <1>2. a \in Seq(S) /\ Len(a) = i - 1 /\ \A j \in 1 .. i - 1 : a[j] = s[j]
    BY <1>1
  <1>3. b \in Seq(S) /\ Len(b) = n - i /\ \A j \in 1 .. n - i : b[j] = s[i + j]
    BY <1>1
  <1>4. RemoveAt(s, i) = a \o b
    BY Zenon DEF RemoveAt
  <1> HIDE DEF a, b
  <1>5. a \o b \in Seq(S) /\ Len(a \o b) = n - 1
    <2>1. a \in Seq(S) /\ b \in Seq(S)
      BY <1>2, <1>3
    <2>2. a \o b \in Seq(S) /\ Len(a \o b) = Len(a) + Len(b)
      BY <2>1
    <2>3. Len(a) = i - 1 /\ Len(b) = n - i
      BY <1>2, <1>3
    <2> QED
      BY <1>1, <2>2, <2>3
  <1>6. ASSUME NEW j \in 1 .. n - 1 PROVE \E k \in 1 .. n : (a \o b)[j] = s[k]
    <2>1. CASE j <= i - 1
      <3>1. (a \o b)[j] = a[j] /\ a[j] = s[j] /\ j \in 1 .. n
        BY <1>1, <1>2, <1>3, <2>1
      <3> QED
        BY <3>1
    <2>2. CASE ~(j <= i - 1)
      <3>1. j - (i - 1) \in 1 .. n - i /\ j + 1 \in 1 .. n /\ i + (j - (i - 1)) = j + 1
        BY <1>1, <2>2
      <3>2. (a \o b)[j] = b[j - (i - 1)]
        BY <1>1, <1>2, <1>3, <2>2
      <3>3. b[j - (i - 1)] = s[j + 1]
        BY <1>3, <3>1
      <3> QED
        BY <3>1, <3>2, <3>3, Zenon
    <2> QED
      BY <2>1, <2>2, Zenon
  <1>7. DOMAIN (a \o b) = 1 .. n - 1
    BY <1>5
  <1> QED
    BY <1>1, <1>4, <1>5, <1>6, <1>7, Zenon

LEMMA MadeGrows ==
    ASSUME NEW m \in Nat, NEW n \in Nat, m <= n, NEW c \in Compactions(Made(m))
    PROVE  c \in Compactions(Made(n))
  <1>1. Made(m) \subseteq Made(n)
    BY DEF Made, InternalKeys
  <1>2. FileMetaData(Made(m)) \subseteq FileMetaData(Made(n))
    BY <1>1 DEF FileMetaData
  <1> DEFINE A == Made(m)
             B == Made(n)
             FA == FileMetaData(A)
             FB == FileMetaData(B)
  <1>3. A \subseteq B /\ FA \subseteq FB
    BY <1>1, <1>2, Zenon
  <1>4. c \in [level : Levels, in0 : Seq(FA), in1 : SUBSET FA, largest : A, grandparents : Seq(FA)]
    BY Zenon DEF Compactions
  <1> HIDE DEF A, B, FA, FB
  <1>5. \A s \in Seq(FA) : s \in Seq(FB)
    BY <1>3
  <1>6. c \in [level : Levels, in0 : Seq(FB), in1 : SUBSET FB, largest : B, grandparents : Seq(FB)]
    BY <1>3, <1>4, <1>5
  <1> QED
    BY <1>6, Zenon DEF Compactions, A, B, FA, FB

\* The files hold entries of the updates there have been.
LEMMA MadeFiles ==
    ASSUME TreeInv
    PROVE  /\ mem \cup imm \subseteq Made(last_sequence)
           /\ \A l \in Levels : files[l] \subseteq FileMetaData(Made(last_sequence))
  <1>1. /\ last_sequence \in Nat /\ mem \subseteq Entry /\ imm \subseteq Entry
        /\ \A e \in mem \cup imm \cup AllOf(files) : e.seq <= last_sequence
        /\ VersionOK(files)
    BY Zenon DEF TreeInv, Shape, EntriesOK, FilesHeld
  <1>2. ASSUME NEW e \in Entry, e.seq <= last_sequence PROVE e \in Made(last_sequence)
    BY <1>1, <1>2, Constants DEF Entry, Made, InternalKeys
  <1>3. mem \cup imm \subseteq Made(last_sequence)
    BY <1>1, <1>2, Zenon
  <1>4. ASSUME NEW l \in Levels, NEW f \in files[l] PROVE f \in FileMetaData(Made(last_sequence))
    <2>1. f \in File
      BY <1>1 DEF VersionOK, FilesOK
    <2>2. f.data \subseteq AllOf(files)
      <3>1. f.data \subseteq KeysOf(files[l]) /\ KeysOf(files[l]) \subseteq AllOf(files)
        BY InAll, Zenon DEF KeysOf
      <3> QED
        BY <3>1, Zenon
    <2>3. f.data \subseteq Entry
      BY <2>1 DEF File, FileMetaData
    <2>4. f.data \subseteq Made(last_sequence)
      BY <1>1, <1>2, <2>2, <2>3, Zenon
    <2> HIDE DEF Made
    <2> QED
      BY <2>1, <2>4 DEF File, FileMetaData
  <1> QED
    BY <1>3, <1>4, Zenon


\* What the snapshots are after a step, and where a compaction comes from.
SnapshotStep ==
    /\ last_sequence' \in Nat /\ last_sequence <= last_sequence'
    /\ \/ snapshots' = snapshots
       \/ last_sequence' = last_sequence /\ snapshots' = Append(snapshots, last_sequence)
       \/ last_sequence' = last_sequence /\ \E i \in DOMAIN snapshots : snapshots' = RemoveAt(snapshots, i)
CompactionStep ==
    \A w \in compaction' :
        \/ w \in compaction
        \/ /\ ChosenWell(files, w.c)
           /\ \/ \E level, lo, hi : w.c = CompactRange(files, level, lo, hi)
              \/ \E pointer, f : w.c = PickCompaction(files, pointer, f)


LEMMA BackgroundStarts ==
    ASSUME NEW isManual, NEW c, Background(isManual, c)
    PROVE  /\ last_sequence' = last_sequence /\ snapshots' = snapshots
           /\ \/ compaction' = compaction
              \/ files' = files /\ \A w \in compaction' : w.c = c
  <1>1. last_sequence' = last_sequence /\ snapshots' = snapshots
    BY Zenon DEF Background
  <1>2. CASE ~isManual /\ IsTrivialMove(c)
    BY <1>1, <1>2, Zenon DEF Background
  <1>3. CASE ~(~isManual /\ IsTrivialMove(c))
    <2>1. PICK i, s : compaction' = {[c |-> c, input |-> i, manual |-> isManual, smallest_snapshot |-> s]}
      BY <1>3, Zenon DEF Background
    <2>2. \A w \in compaction' : w.c = c
      BY <2>1
    <2>3. files' = files
      BY <1>3, Zenon DEF Background, treeVars
    <2> QED
      BY <1>1, <2>2, <2>3, Zenon
  <1> QED
    BY <1>2, <1>3, Zenon

LEMMA StepIs == ASSUME TreeInv, [Next]_vars PROVE SnapshotStep /\ CompactionStep
  <1>1. TreeInv'
    BY NextKeeps, Zenon
  <1>2. last_sequence \in Nat /\ last_sequence' \in Nat /\ \A n \in Nat : n <= n
    <2>1. last_sequence \in Nat /\ last_sequence' \in Nat
      BY <1>1, Zenon DEF TreeInv, Shape, EntriesOK
    <2> QED
      BY <2>1
  <1>3. CASE last_sequence' = last_sequence /\ snapshots' = snapshots /\ compaction' = compaction
    BY <1>2, <1>3, Zenon DEF SnapshotStep, CompactionStep
  <1>4. CASE \E k \in Keys, t \in workload.types : Write(k, t)
    <2>1. last_sequence' = last_sequence + 1 /\ snapshots' = snapshots /\ compaction' = compaction
      BY <1>4, Zenon DEF Write
    <2>2. last_sequence <= last_sequence'
      BY <1>2, <2>1
    <2> QED
      BY <1>2, <2>1, <2>2, Zenon DEF SnapshotStep, CompactionStep
  <1>5. CASE GetSnapshot
    <2>1. /\ last_sequence' = last_sequence /\ snapshots' = Append(snapshots, last_sequence)
          /\ compaction' = compaction
      BY <1>5, Zenon DEF GetSnapshot
    <2> QED
      BY <1>2, <2>1 DEF SnapshotStep, CompactionStep
  <1>6. CASE \E i \in DOMAIN snapshots : ReleaseSnapshot(i)
    <2>1. PICK i \in DOMAIN snapshots :
              /\ last_sequence' = last_sequence /\ snapshots' = RemoveAt(snapshots, i)
              /\ compaction' = compaction
      BY <1>6, Zenon DEF ReleaseSnapshot
    <2> QED
      BY <1>2, <2>1, Zenon DEF SnapshotStep, CompactionStep
  <1>7. CASE BackgroundCompaction
    <2>1. CASE UNCHANGED <<last_sequence, snapshots, compaction>>
      BY <1>3, <2>1, Zenon
    <2>2. ASSUME NEW isManual, NEW c, Background(isManual, c),
                 \/ \E level, lo, hi : c = CompactRange(files, level, lo, hi)
                 \/ \E pointer, f : c = PickCompaction(files, pointer, f)
          PROVE  SnapshotStep /\ CompactionStep
      <3>1. last_sequence' = last_sequence /\ snapshots' = snapshots
        BY <2>2, BackgroundStarts, Zenon
      <3>2. CASE compaction' = compaction
        BY <1>3, <3>1, <3>2, Zenon
      <3>3. CASE files' = files /\ \A w \in compaction' : w.c = c
        <4>1. \A w \in compaction' : ChosenWell(files, w.c)
          BY <1>1, <3>3, Zenon DEF TreeInv, Shape, ChoicesOK
        <4>2. CompactionStep
          BY <2>2, <3>3, <4>1, Zenon DEF CompactionStep
        <4> QED
          BY <1>2, <3>1, <4>2, Zenon DEF SnapshotStep
      <3> QED
        BY <2>2, <3>2, <3>3, BackgroundStarts, Zenon
    <2>3. \/ UNCHANGED <<last_sequence, snapshots, compaction>>
          \/ \E isManual, c :
                 /\ Background(isManual, c)
                 /\ \/ \E level, lo, hi : c = CompactRange(files, level, lo, hi)
                    \/ \E pointer, f : c = PickCompaction(files, pointer, f)
      BY <1>7, Zenon DEF BackgroundCompaction
    <2> QED
      BY <2>1, <2>2, <2>3, Zenon
  <1>8. CASE FinishCompaction
    <2>1. last_sequence' = last_sequence /\ snapshots' = snapshots /\ compaction' = {}
      BY <1>8, Zenon DEF FinishCompaction
    <2> QED
      BY <1>2, <2>1, Zenon DEF SnapshotStep, CompactionStep
  <1>9. CASE CompactMemTable
    BY <1>3, <1>9, Zenon DEF CompactMemTable
  <1>10. CASE SwitchMemTable
    BY <1>3, <1>10, Zenon DEF SwitchMemTable
  <1>11. CASE ArmManual \/ \E l \in Levels, r \in workload.ranges : ManualCompaction(l, r[1], r[2])
    BY <1>3, <1>11, Zenon DEF ArmManual, ManualCompaction
  <1>12. CASE \E charged : UpdateStats(charged)
    BY <1>3, <1>12, Zenon DEF UpdateStats
  <1>13. CASE UNCHANGED vars
    BY <1>3, <1>13, Zenon DEF vars
  <1> QED
    BY <1>4, <1>5, <1>6, <1>7, <1>8, <1>9, <1>10, <1>11, <1>12, <1>13, Zenon
    DEF Next, Application, BackgroundThread, ReadTables, RecordReadSample

LEMMA FlagStep == ASSUME [Next]_vars PROVE has_imm' = has_imm \/ has_imm' = TRUE \/ has_imm' = FALSE
  <1>1. CASE Application
    BY <1>1, Zenon DEF Application, Write, SwitchMemTable, GetSnapshot, ReleaseSnapshot, ReadTables,
       RecordReadSample, UpdateStats, ManualCompaction, ArmManual
  <1>2. CASE CompactMemTable
    BY <1>2, Zenon DEF CompactMemTable
  <1>3. CASE BackgroundCompaction
    BY <1>3, Zenon DEF BackgroundCompaction, Background
  <1>4. CASE FinishCompaction
    BY <1>4, Zenon DEF FinishCompaction
  <1>5. CASE UNCHANGED vars
    BY <1>5, Zenon DEF vars
  <1> QED
    BY <1>1, <1>2, <1>3, <1>4, <1>5, Zenon DEF Next, BackgroundThread

LEMMA TypeKeeps ==
    ASSUME TreeInv, SnapshotsOK, ChoiceMade, [Next]_vars PROVE SnapshotsOK' /\ ChoiceMade'
  <1>1. /\ last_sequence' \in Nat /\ last_sequence <= last_sequence'
        /\ \/ snapshots' = snapshots
           \/ last_sequence' = last_sequence /\ snapshots' = Append(snapshots, last_sequence)
           \/ last_sequence' = last_sequence /\ \E i \in DOMAIN snapshots : snapshots' = RemoveAt(snapshots, i)
    BY StepIs, Zenon DEF SnapshotStep
  <1>2. last_sequence \in Nat /\ VersionOK(files)
    BY Zenon DEF TreeInv, Shape, EntriesOK, FilesHeld
  <1>3. snapshots \in Seq(Nat) /\ \A i \in DOMAIN snapshots : snapshots[i] <= last_sequence
    BY Zenon DEF SnapshotsOK
  <1>4. SnapshotsOK'
    <2>1. CASE snapshots' = snapshots
      <3>1. \A i \in DOMAIN snapshots : snapshots[i] <= last_sequence'
        <4> SUFFICES ASSUME NEW i \in DOMAIN snapshots PROVE snapshots[i] <= last_sequence'
          OBVIOUS
        <4>1. snapshots[i] \in Nat /\ snapshots[i] <= last_sequence
          BY <1>3
        <4> QED
          BY <1>1, <1>2, <4>1
      <3> QED
        BY <1>3, <2>1, <3>1, Zenon DEF SnapshotsOK
    <2>2. CASE last_sequence' = last_sequence /\ snapshots' = Append(snapshots, last_sequence)
      <3>1. PICK q : q = Append(snapshots, last_sequence)
        OBVIOUS
      <3>2. q \in Seq(Nat) /\ \A i \in DOMAIN q : q[i] <= last_sequence
        BY <1>2, <1>3, <3>1
      <3> QED
        BY <2>2, <3>1, <3>2, Zenon DEF SnapshotsOK
    <2>3. ASSUME last_sequence' = last_sequence, NEW i \in DOMAIN snapshots,
                 snapshots' = RemoveAt(snapshots, i)
          PROVE  SnapshotsOK'
      <3>1. /\ RemoveAt(snapshots, i) \in Seq(Nat)
            /\ \A j \in DOMAIN RemoveAt(snapshots, i) :
                   \E k \in DOMAIN snapshots : RemoveAt(snapshots, i)[j] = snapshots[k]
        BY <1>3, RemoveAtIs
      <3>2. PICK q : q = RemoveAt(snapshots, i)
        OBVIOUS
      <3>3. q \in Seq(Nat) /\ \A j \in DOMAIN q : q[j] <= last_sequence
        BY <1>3, <3>1, <3>2
      <3> QED
        BY <2>3, <3>2, <3>3, Zenon DEF SnapshotsOK
    <2> QED
      BY <1>1, <2>1, <2>2, <2>3, Zenon
  <1>5. ChoiceMade'
    <2> SUFFICES ASSUME NEW w \in compaction' PROVE w.c \in Compactions(Made(last_sequence'))
      BY Zenon DEF ChoiceMade
    <2>1. w.c \in Compactions(Made(last_sequence))
      <3>1. CASE w \in compaction
        BY <3>1, Zenon DEF ChoiceMade
      <3>2. CASE w \notin compaction
        <4>1. PICK c : c = w.c
          OBVIOUS
        <4>2. /\ ChosenWell(files, c)
              /\ \/ \E level, lo, hi : c = CompactRange(files, level, lo, hi)
                 \/ \E pointer, f : c = PickCompaction(files, pointer, f)
          BY <3>2, <4>1, StepIs, Zenon DEF CompactionStep
        <4>3. PICK E : E = Made(last_sequence)
          OBVIOUS
        <4>4. \A l \in Levels : files[l] \subseteq FileMetaData(E)
          BY <4>3, MadeFiles, Zenon
        <4>5. c \in Compactions(E)
          BY <1>2, <4>2, <4>4, ChoiceTyped
        <4> QED
          BY <4>1, <4>3, <4>5, Zenon
      <3> QED
        BY <3>1, <3>2, Zenon
    <2> QED
      BY <1>1, <1>2, <2>1, MadeGrows
  <1> QED
    BY <1>4, <1>5, Zenon

\* The state is what the code keeps: entries of updates there were, files numbered by
\* next_file_number_ of such entries, snapshots no newer than last_sequence, and a compaction
\* whose last key and grandparents SetupOtherInputs took from the version.
THEOREM TypeCorrect == Spec => []TypeOK
  <1> DEFINE Flag == has_imm \in BOOLEAN
             Inv == SnapshotsOK /\ ChoiceMade /\ Flag
  <1>1. Init => Inv
    <2> SUFFICES ASSUME Init PROVE Inv
      OBVIOUS
    <2>1. snapshots = <<>> /\ compaction = {} /\ has_imm = FALSE
      BY Zenon DEF Init
    <2>2. snapshots \in Seq(Nat) /\ DOMAIN snapshots = {}
      BY <2>1
    <2>3. SnapshotsOK
      BY <2>2, Zenon DEF SnapshotsOK
    <2>4. ChoiceMade
      BY <2>1, Zenon DEF ChoiceMade
    <2> QED
      BY <2>1, <2>3, <2>4, Zenon
  <1>2. TreeInv /\ Inv /\ [Next]_vars => Inv'
    <2> SUFFICES ASSUME TreeInv, Inv, [Next]_vars PROVE Inv'
      OBVIOUS
    <2>1. SnapshotsOK' /\ ChoiceMade'
      BY TypeKeeps, Zenon
    <2>2. Flag'
      BY FlagStep
    <2> QED
      BY <2>1, <2>2
  <1>3. TreeInv /\ Inv => TypeOK
    <2> SUFFICES ASSUME TreeInv, Inv PROVE TypeOK
      OBVIOUS
    <2> DEFINE E == Made(last_sequence)
    <2>1. mem \cup imm \subseteq E /\ \A l \in Levels : files[l] \subseteq FileMetaData(E)
      BY MadeFiles, Zenon
    <2>2. /\ last_sequence \in Nat /\ last_sequence <= workload.updates /\ workload \in Workloads
          /\ VersionOK(files) /\ Numbered(files, next_file)
      BY Zenon DEF TreeInv, Shape, EntriesOK, FilesHeld
    <2>3. last_sequence \in 0 .. workload.updates
      BY <2>2, WorkloadIs
    <2>4. \A i \in DOMAIN snapshots : snapshots[i] \in 0 .. last_sequence
      BY <2>2 DEF SnapshotsOK
    <2>5. \A w \in compaction : w.c \in Compactions(E)
      BY Zenon DEF ChoiceMade
    <2>6. \A l \in Levels : \A f \in files[l] : f.number < next_file
      BY <2>2, Zenon DEF Numbered
    <2>7. E = InternalKeys(Keys, 1 .. last_sequence)
      BY Zenon DEF Made
    <2> HIDE DEF E
    <2>8. files \in Versions(E)
      <3>1. files \in [Levels -> SUBSET File]
        BY <2>2, Zenon DEF VersionOK
      <3> QED
        BY <2>1, <3>1 DEF Versions
    <2>9. has_imm \in BOOLEAN
      BY Zenon
    <2> QED
      BY <2>1, <2>3, <2>4, <2>5, <2>6, <2>7, <2>8, <2>9, Zenon DEF TypeOK
  <1> QED
    BY <1>1, <1>2, <1>3, TreeInvHolds, PTL DEF Spec
=============================================================================
