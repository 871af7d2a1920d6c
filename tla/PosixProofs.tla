---------------------------- MODULE PosixProofs ----------------------------
(***************************************************************************)
(* Proofs about PosixEnv: the limits on mappings and descriptors, the lock *)
(* file and the background thread, for every number of threads and         *)
(* processes.                                                              *)
(***************************************************************************)
EXTENDS PosixFile, PosixEnv, FiniteSetTheorems, TLAPS

(***************************************************************************)
(* How many threads are at one of some places.                             *)
(***************************************************************************)
Count(o, places) == Cardinality({t \in Openers : o[t] \in places})

Places == {"none", "opened", "map", "no_map", "no_mmap", "mapped", "permanent", "no_fd",
           "temporary", "reading"}

LimiterTypeOK == opener \in [Openers -> Places] /\ allowed \in [mmap : Int, fd : Int]

LimiterInv == LimiterTypeOK /\ LimitsHold

\* Counting is counting of a finite set, and a wider set of places counts no less.
LEMMA CountTyped ==
    ASSUME NEW o, NEW P, NEW Q, P \subseteq Q
    PROVE  Count(o, P) \in Nat /\ Count(o, P) <= Count(o, Q)
<1> DEFINE S == {t \in Openers : o[t] \in P}
           T == {t \in Openers : o[t] \in Q}
<1>1. S \subseteq T /\ IsFiniteSet(T)
  BY FS_Subset, LimitAssumption
<1>2. IsFiniteSet(S) /\ Cardinality(S) <= Cardinality(T)
  BY <1>1, FS_Subset
<1>3. Cardinality(S) \in Nat
  BY <1>2, FS_CardinalityType
<1> QED BY <1>2, <1>3 DEF Count

\* One thread that moves is counted where it comes and no longer where it left.
LEMMA CountMove ==
    ASSUME NEW o \in [Openers -> Places], NEW t \in Openers, NEW to \in Places, NEW P
    PROVE  Count([o EXCEPT ![t] = to], P) =
             Count(o, P) + (IF to \in P THEN 1 ELSE 0) - (IF o[t] \in P THEN 1 ELSE 0)
<1> DEFINE n == [o EXCEPT ![t] = to]
           S == {u \in Openers : o[u] \in P}
           T == {u \in Openers : n[u] \in P}
           R == S \ {t}
<1>1. IsFiniteSet(S) /\ IsFiniteSet(R)
  BY FS_Subset, LimitAssumption, S \subseteq Openers, R \subseteq Openers
<1>2. Cardinality(R) \in Nat /\ Cardinality(S) \in Nat
  BY <1>1, FS_CardinalityType
<1>3. Cardinality(R) = IF t \in S THEN Cardinality(S) - 1 ELSE Cardinality(S)
  BY <1>1, FS_RemoveElement
<1>4. Cardinality(R \cup {t}) = Cardinality(R) + 1
  BY <1>1, FS_AddElement
<1>5. T = IF to \in P THEN R \cup {t} ELSE R
  <2>1. CASE to \in P
    BY <2>1
  <2>2. CASE to \notin P
    BY <2>2
  <2> QED BY <2>1, <2>2
<1>6. t \in S <=> o[t] \in P
  OBVIOUS
<1> HIDE DEF n, S, T, R
<1>7. Cardinality(T) = Cardinality(S) + (IF to \in P THEN 1 ELSE 0) - (IF o[t] \in P THEN 1 ELSE 0)
  BY <1>2, <1>3, <1>4, <1>5, <1>6
<1> QED BY <1>7 DEF Count, n, S, T

LEMMA LimiterInit == FileInit => LimiterInv
<1> SUFFICES ASSUME FileInit PROVE LimiterInv
  OBVIOUS
<1>1. LimiterTypeOK
  BY LimitAssumption DEF FileInit, LimiterTypeOK, Places
<1>2. \A P : "none" \notin P => At(P) = 0
  BY FS_EmptySet DEF FileInit, At
<1>3. At({"map", "mapped"}) = 0 /\ At({"permanent"}) = 0
      /\ At({"map", "mapped", "no_map"}) = 0 /\ At({"permanent", "no_fd"}) = 0
  BY <1>2
<1>4. allowed.mmap = MaxMmaps /\ allowed.fd = MaxOpenFiles
  BY DEF FileInit
<1> QED BY <1>1, <1>3, <1>4, LimitAssumption DEF LimiterInv, LimitsHold

\* A step that takes one thread from a place to another moves the counts of both limiters
\* as CountMove says.
LEMMA MoveCounts ==
    ASSUME LimiterTypeOK, NEW t \in Openers, NEW from \in Places, NEW to \in Places,
           Move(t, from, to), NEW P
    PROVE  /\ opener' \in [Openers -> Places]
           /\ At(P)' = At(P) + (IF to \in P THEN 1 ELSE 0) - (IF from \in P THEN 1 ELSE 0)
BY CountMove DEF LimiterTypeOK, Move, At, Count

LEMMA CountsAreNumbers ==
    /\ At({"map", "mapped"}) \in Nat /\ At({"permanent"}) \in Nat
    /\ At({"map", "mapped", "no_map"}) \in Nat /\ At({"permanent", "no_fd"}) \in Nat
    /\ At({"map", "mapped"}) <= At({"map", "mapped", "no_map"})
    /\ At({"permanent"}) <= At({"permanent", "no_fd"})
<1>1. {"map", "mapped"} \subseteq {"map", "mapped", "no_map"}
      /\ {"permanent"} \subseteq {"permanent", "no_fd"}
  OBVIOUS
<1>2. \A P, Q : P \subseteq Q => At(P) \in Nat /\ At(P) <= At(Q)
  BY CountTyped DEF At, Count
<1> QED BY <1>1, <1>2

\* Every step of a thread keeps the counters exact: what a place takes from a counter is
\* taken exactly when the thread comes there.
LEMMA LimiterStep ==
    LimiterInv /\ [Writing \/ Reading \/ Opening]_fileVars => LimiterInv'
<1> SUFFICES ASSUME LimiterInv, [Writing \/ Reading \/ Opening]_fileVars PROVE LimiterInv'
  OBVIOUS
<1> DEFINE M == {"map", "mapped"}
           N == {"map", "mapped", "no_map"}
           F == {"permanent"}
           G == {"permanent", "no_fd"}
<1>1. CASE UNCHANGED <<opener, allowed>>
  BY <1>1 DEF LimiterInv, LimiterTypeOK, LimitsHold, At
<1>2. ASSUME NEW t \in Openers,
             OpenFile(t) \/ MapFile(t) \/ KeepDescriptor(t) \/ ReadTemporary(t) \/ CloseFile(t)
      PROVE  LimiterInv'
  <2>1. PICK from \in Places, to \in Places :
          /\ Move(t, from, to)
          /\ \/ /\ allowed' = allowed
                /\ <<from, to>> \in {<<"none", "opened">>, <<"map", "mapped">>, <<"temporary", "reading">>,
                                     <<"reading", "temporary">>, <<"temporary", "none">>}
             \/ /\ allowed' = [allowed EXCEPT !["mmap"] = @ - 1]
                /\ from = "opened" /\ to = IF allowed["mmap"] > 0 THEN "map" ELSE "no_map"
             \/ /\ allowed' = [allowed EXCEPT !["fd"] = @ - 1]
                /\ from = "no_mmap" /\ to = IF allowed["fd"] > 0 THEN "permanent" ELSE "no_fd"
             \/ /\ allowed' = [allowed EXCEPT !["mmap"] = @ + 1]
                /\ <<from, to>> \in {<<"no_map", "no_mmap">>, <<"map", "none">>, <<"mapped", "none">>}
             \/ /\ allowed' = [allowed EXCEPT !["fd"] = @ + 1]
                /\ <<from, to>> \in {<<"no_fd", "temporary">>, <<"permanent", "none">>}
    BY <1>2, Zenon DEF OpenFile, MapFile, KeepDescriptor, ReadTemporary, CloseFile, FetchSub, FetchAdd, Places
  <2>2. /\ opener' \in [Openers -> Places]
        /\ \A P : At(P)' = At(P) + (IF to \in P THEN 1 ELSE 0) - (IF from \in P THEN 1 ELSE 0)
    BY <2>1, MoveCounts DEF LimiterInv
  <2>3. /\ At(M)' = At(M) + (IF to \in M THEN 1 ELSE 0) - (IF from \in M THEN 1 ELSE 0)
        /\ At(N)' = At(N) + (IF to \in N THEN 1 ELSE 0) - (IF from \in N THEN 1 ELSE 0)
        /\ At(F)' = At(F) + (IF to \in F THEN 1 ELSE 0) - (IF from \in F THEN 1 ELSE 0)
        /\ At(G)' = At(G) + (IF to \in G THEN 1 ELSE 0) - (IF from \in G THEN 1 ELSE 0)
    BY <2>2
  <2>4. /\ At(M) \in Nat /\ At(N) \in Nat /\ At(F) \in Nat /\ At(G) \in Nat
        /\ At(M) <= At(N) /\ At(F) <= At(G)
    BY CountsAreNumbers
  <2>5. LimitsHold'
    <3>1. /\ At(M)' <= MaxMmaps /\ At(F)' <= MaxOpenFiles
          /\ allowed'.mmap = MaxMmaps - At(N)'
          /\ allowed'.fd = MaxOpenFiles - At(G)'
      <4> DEFINE m == At(M)  n == At(N)  f == At(F)  g == At(G)
                 m2 == At(M)'  n2 == At(N)'  f2 == At(F)'  g2 == At(G)'
      <4>1. /\ m \in Nat /\ n \in Nat /\ f \in Nat /\ g \in Nat /\ m <= n /\ f <= g
            /\ m <= MaxMmaps /\ f <= MaxOpenFiles
            /\ allowed.mmap = MaxMmaps - n /\ allowed.fd = MaxOpenFiles - g
            /\ allowed \in [mmap : Int, fd : Int]
        BY <2>4 DEF LimiterInv, LimitsHold, LimiterTypeOK
      <4>2. /\ m2 = m + (IF to \in M THEN 1 ELSE 0) - (IF from \in M THEN 1 ELSE 0)
            /\ n2 = n + (IF to \in N THEN 1 ELSE 0) - (IF from \in N THEN 1 ELSE 0)
            /\ f2 = f + (IF to \in F THEN 1 ELSE 0) - (IF from \in F THEN 1 ELSE 0)
            /\ g2 = g + (IF to \in G THEN 1 ELSE 0) - (IF from \in G THEN 1 ELSE 0)
        BY <2>3
      <4> HIDE DEF m, n, f, g, m2, n2, f2, g2
      <4>3. m2 <= MaxMmaps /\ f2 <= MaxOpenFiles
            /\ allowed'.mmap = MaxMmaps - n2 /\ allowed'.fd = MaxOpenFiles - g2
        BY <2>1, <4>1, <4>2, LimitAssumption, SMT
      <4> QED BY <4>3 DEF m, n, f, g, m2, n2, f2, g2
    <3> QED BY <3>1 DEF LimitsHold
  <2>6. LimiterTypeOK'
    BY <2>1, <2>2 DEF LimiterInv, LimiterTypeOK
  <2> QED BY <2>5, <2>6 DEF LimiterInv
<1>3. QED
  BY <1>1, <1>2 DEF Writing, Reading, Opening, fileVars

\* The limits on mappings and on descriptors that stay open hold at every moment, for every
\* number of threads and every limit, although Limiter::Acquire decrements first and looks
\* afterwards; and nothing that was acquired is lost.
THEOREM LimitsAreKept == FileSpec => []LimitsHold
<1>1. FileSpec => []LimiterInv
  BY LimiterInit, LimiterStep, PTL DEF FileSpec
<1>2. LimiterInv => LimitsHold
  BY DEF LimiterInv
<1> QED BY <1>1, <1>2, PTL

-----------------------------------------------------------------------------
(***************************************************************************)
(* The lock file.  A thread is inside from the moment it has entered the   *)
(* file into the table of its process until it takes it out: the table     *)
(* keeps the other threads of the process out, the fcntl lock the other    *)
(* processes, unless a close has given that lock away.                     *)
(***************************************************************************)
LockCallers == Processes \X Callers

Inside(c) == locker[c] \in {"entered", "in", "unlocked"}

LockTypeOK ==
    /\ held \subseteq Processes /\ collision \in BOOLEAN
    /\ table \in [Processes -> BOOLEAN]
    /\ locker \in [LockCallers -> {"out", "opened", "entered", "in", "unlocked", "removed"}]

TableKeepsOut ==
    /\ \A c \in LockCallers : Inside(c) => table[c[1]]
    /\ \A c, d \in LockCallers : Inside(c) /\ Inside(d) /\ c[1] = d[1] => c = d

FcntlKeepsOut == collision \/ \A c \in LockCallers : locker[c] = "in" => held = {c[1]}

LockInv == LockTypeOK /\ TableKeepsOut /\ FcntlKeepsOut

LEMMA LockInit == EnvInit => LockInv
BY DEF EnvInit, LockInv, LockTypeOK, TableKeepsOut, FcntlKeepsOut, Inside, LockCallers

\* Every step of a thread in LockFile or UnlockFile keeps the others out.
LEMMA LockStep == LockInv /\ [Locking \/ Working]_envVars => LockInv'
<1> SUFFICES ASSUME LockInv, [Locking \/ Working]_envVars PROVE LockInv'
  OBVIOUS
<1> USE DEF LockInv
<1>1. CASE UNCHANGED <<held, table, locker, collision>>
  BY <1>1 DEF LockTypeOK, TableKeepsOut, FcntlKeepsOut, Inside
<1>2. ASSUME NEW c \in LockCallers,
             \/ OpenLock(c) \/ InsertLock(c) \/ FcntlLock(c)
             \/ Unlock(c) \/ RemoveLock(c) \/ CloseLock(c)
      PROVE  LockInv'
  <2>0. \A d \in LockCallers : d[1] \in Processes
    BY DEF LockCallers
  <2>1. CASE OpenLock(c)
    BY <2>0, <2>1 DEF LockTypeOK, TableKeepsOut, FcntlKeepsOut, Inside, OpenLock, Go
  <2>2. CASE InsertLock(c) /\ table[c[1]]
    BY <2>0, <2>2 DEF LockTypeOK, TableKeepsOut, FcntlKeepsOut, Inside, InsertLock, Go
  <2>3. CASE InsertLock(c) /\ ~table[c[1]]
    <3>1. LockTypeOK'
      BY <2>0, <2>3 DEF LockTypeOK, InsertLock, Go
    <3>2. TableKeepsOut'
      BY <2>0, <2>3 DEF LockTypeOK, TableKeepsOut, Inside, InsertLock, Go
    <3>3. FcntlKeepsOut'
      BY <2>0, <2>3 DEF LockTypeOK, FcntlKeepsOut, InsertLock, Go
    <3> QED BY <3>1, <3>2, <3>3
  <2>4. CASE FcntlLock(c) /\ held \subseteq {c[1]}
    BY SMTT(30), <2>0, <2>4 DEF LockTypeOK, TableKeepsOut, FcntlKeepsOut, Inside, FcntlLock, Go
  <2>5. CASE FcntlLock(c) /\ ~(held \subseteq {c[1]})
    <3>1. LockTypeOK'
      BY <2>0, <2>5 DEF LockTypeOK, FcntlLock, Go
    <3>2. TableKeepsOut'
      BY <2>0, <2>5 DEF LockTypeOK, TableKeepsOut, Inside, FcntlLock, Go
    <3>3. FcntlKeepsOut'
      BY <2>0, <2>5 DEF LockTypeOK, FcntlKeepsOut, FcntlLock, Go
    <3> QED BY <3>1, <3>2, <3>3
  <2>6. CASE Unlock(c)
    BY <2>0, <2>6 DEF LockTypeOK, TableKeepsOut, FcntlKeepsOut, Inside, Unlock, Go
  <2>7. CASE RemoveLock(c)
    BY <2>0, <2>7 DEF LockTypeOK, TableKeepsOut, FcntlKeepsOut, Inside, RemoveLock, Go
  <2>8. CASE CloseLock(c)
    BY <2>0, <2>8 DEF LockTypeOK, TableKeepsOut, FcntlKeepsOut, Inside, CloseLock, Go
  <2> QED BY <1>2, <2>1, <2>2, <2>3, <2>4, <2>5, <2>6, <2>7, <2>8
<1>3. Working => UNCHANGED <<held, table, locker, collision>>
  BY DEF Working, Schedule, BackgroundThreadMain, RunWork
<1> QED BY <1>1, <1>2, <1>3 DEF Locking, envVars, LockCallers

LEMMA InsideOne == LockInv => OneOwner
<1> SUFFICES ASSUME LockInv, ~collision
             PROVE  Cardinality({c \in LockCallers : locker[c] = "in"}) <= 1
  BY DEF OneOwner, LockCallers
<1> DEFINE S == {c \in LockCallers : locker[c] = "in"}
<1>1. \A c, d \in S : c[1] = d[1]
  BY DEF LockInv, FcntlKeepsOut
<1>2. \A c, d \in S : c = d
  BY <1>1 DEF LockInv, TableKeepsOut, Inside
<1>3. CASE S = {}
  BY <1>3, FS_EmptySet
<1>4. ASSUME NEW c \in S PROVE Cardinality(S) <= 1
  <2>1. S = {c}
    BY <1>2, <1>4
  <2>2. Cardinality({c}) = 1
    BY FS_Singleton
  <2> QED BY <2>1, <2>2
<1> QED BY <1>3, <1>4

\* At most one thread of one process has the database, for any number of processes and
\* threads: the table of locks_ and the fcntl lock together, as long as no process closes a
\* descriptor of the file while it has the lock.
THEOREM LockHasOneOwner == EnvSpec => []OneOwner
<1>1. EnvSpec => []LockInv
  BY LockInit, LockStep, PTL DEF EnvSpec
<1> QED BY <1>1, InsideOne, PTL

-----------------------------------------------------------------------------
(***************************************************************************)
(* Background work: what is done, what is run and what is queued are the   *)
(* numbers of the items in the order they were scheduled.                  *)
(***************************************************************************)
WorkTypeOK ==
    background \in [queue : Seq(Nat), scheduled : Nat, done : Seq(Nat), started : BOOLEAN,
                    at : {"check", "wait", "run"}, item : Nat, signal : BOOLEAN]

Running == IF background.at = "run" THEN 1 ELSE 0

WorkInv ==
    /\ WorkTypeOK /\ WorkInOrder
    /\ Len(background.done) + Running + Len(background.queue) = background.scheduled
    /\ background.at = "run" => background.item = Len(background.done) + 1
    /\ \A i \in 1 .. Len(background.queue) :
          background.queue[i] = Len(background.done) + Running + i

LEMMA WorkStep == WorkInv /\ [Locking \/ Working]_envVars => WorkInv'
<1> SUFFICES ASSUME WorkInv, [Locking \/ Working]_envVars PROVE WorkInv'
  OBVIOUS
<1> DEFINE q == background.queue
           d == background.done
           n == background.scheduled
           r == Running
           item == background.item
<1>1. /\ q \in Seq(Nat) /\ d \in Seq(Nat) /\ n \in Nat /\ r \in Nat /\ item \in Nat
      /\ Len(q) \in Nat /\ Len(d) \in Nat /\ DOMAIN d = 1 .. Len(d)
  BY DEF WorkInv, WorkTypeOK, Running
<1>2. Len(d) + r + Len(q) = n /\ \A i \in 1 .. Len(d) : d[i] = i
  BY <1>1 DEF WorkInv, WorkInOrder
<1>10. r = 1 => item = Len(d) + 1
  BY DEF WorkInv, Running
<1>3. \A i \in 1 .. Len(q) : q[i] = Len(d) + r + i
  BY DEF WorkInv
<1>4. SUFFICES ASSUME ~UNCHANGED background PROVE WorkInv'
  BY DEF WorkInv, WorkTypeOK, WorkInOrder, Running
<1>5. CASE Schedule
  <2>0. q' = Append(q, n + 1)
    BY <1>5 DEF WorkInv, WorkTypeOK, Schedule, SignalIfEmpty
  <2>1. n' = n + 1 /\ d' = d /\ item' = item /\ r' = r
    BY <1>5 DEF WorkInv, WorkTypeOK, Schedule, SignalIfEmpty, Running
  <2>2. WorkTypeOK'
    <3>1. Append(q, n + 1) \in Seq(Nat)
      BY <1>1
    <3>2. SignalIfEmpty(background) \in
            [queue : Seq(Nat), scheduled : Nat, done : Seq(Nat), started : BOOLEAN,
             at : {"check", "wait", "run"}, item : Nat, signal : BOOLEAN]
      BY DEF WorkInv, WorkTypeOK, SignalIfEmpty
    <3>3. SignalIfEmpty(background).queue = q /\ SignalIfEmpty(background).scheduled = n
      BY DEF WorkInv, WorkTypeOK, SignalIfEmpty
    <3>4. background' = [SignalIfEmpty(background) EXCEPT
                             !.started = TRUE, !.scheduled = n + 1, !.queue = Append(q, n + 1)]
      BY <1>5, <3>2, <3>3 DEF Schedule
    <3>5. n + 1 \in Nat
      BY <1>1
    <3> DEFINE later == n + 1
               longer == Append(q, n + 1)
    <3> HIDE DEF later, longer
    <3>6. background' = [SignalIfEmpty(background) EXCEPT
                             !.started = TRUE, !.scheduled = later, !.queue = longer]
      BY <3>4 DEF later, longer
    <3>7. later \in Nat /\ longer \in Seq(Nat)
      BY <3>1, <3>5 DEF later, longer
    <3> QED BY <3>2, <3>6, <3>7 DEF WorkTypeOK
  <2>3. r' = 1 <=> background'.at = "run"
    BY DEF Running
  <2>4. /\ Len(q') = Len(q) + 1 /\ q'[Len(q) + 1] = n + 1
        /\ \A i \in 1 .. Len(q) : q'[i] = q[i]
    BY <1>1, <2>0
  <2> HIDE DEF q, d, n, r, item
  <2>5. Len(d') + r' + Len(q') = n'
    BY SMTT(30), <1>1, <1>2, <2>1, <2>4
  <2>6. \A i \in 1 .. Len(q') : q'[i] = Len(d') + r' + i
    BY SMTT(30), <1>1, <1>2, <1>3, <2>1, <2>4
  <2>7. (r' = 1 => item' = Len(d') + 1) /\ \A i \in DOMAIN d' : d'[i] = i
    BY <1>1, <1>2, <1>10, <2>1
  <2> QED BY <2>2, <2>3, <2>5, <2>6, <2>7 DEF WorkInv, WorkInOrder, q, d, n, r, item
<1>6. CASE BackgroundThreadMain /\ q = <<>>
  BY <1>6 DEF WorkInv, WorkTypeOK, WorkInOrder, Running, BackgroundThreadMain
<1>7. CASE BackgroundThreadMain /\ q # <<>>
  <2>0. q' = Tail(q) /\ item' = Head(q)
    BY <1>7 DEF WorkInv, WorkTypeOK, BackgroundThreadMain
  <2>1. n' = n /\ d' = d /\ r = 0 /\ r' = 1
    BY <1>7 DEF WorkInv, WorkTypeOK, BackgroundThreadMain, Running
  <2>2. Len(q) > 0 /\ Len(q') = Len(q) - 1
    BY <1>1, <1>7, <2>0
  <2>7. /\ item' = q[1] /\ item' \in Nat /\ q' \in Seq(Nat)
        /\ \A i \in 1 .. Len(q) - 1 : q'[i] = q[i + 1]
    BY <1>1, <1>7, <2>0
  <2>3. WorkTypeOK'
    BY <1>7, <2>7 DEF WorkInv, WorkTypeOK, BackgroundThreadMain
  <2> HIDE DEF q, d, n, r, item
  <2>4. Len(d') + r' + Len(q') = n'
    BY <1>1, <1>2, <2>1, <2>2
  <2>5. \A i \in 1 .. Len(q') : q'[i] = Len(d') + r' + i
    BY <1>1, <1>3, <2>1, <2>2, <2>7
  <2>6. item' = Len(d') + 1 /\ \A i \in DOMAIN d' : d'[i] = i
    BY <1>1, <1>2, <1>3, <2>1, <2>2, <2>7
  <2> QED BY <2>3, <2>4, <2>5, <2>6 DEF WorkInv, WorkInOrder, q, d, n, r, item
<1>8. CASE RunWork
  <2>1. /\ q' = q /\ n' = n /\ d' = Append(d, item) /\ r = 1 /\ r' = 0 /\ background'.at # "run"
    BY <1>8 DEF WorkInv, WorkTypeOK, RunWork, Running
  <2>2. WorkTypeOK'
    <3>1. Append(d, item) \in Seq(Nat)
      BY <1>1
    <3> QED BY <1>8, <3>1 DEF WorkInv, WorkTypeOK, RunWork
  <2>3. /\ Len(d') = Len(d) + 1 /\ DOMAIN d' = 1 .. Len(d) + 1 /\ d'[Len(d) + 1] = item
        /\ \A i \in 1 .. Len(d) : d'[i] = d[i]
    BY <1>1, <2>1
  <2> HIDE DEF q, d, n, r, item
  <2>4. Len(d') + r' + Len(q') = n'
    BY <1>1, <1>2, <2>1, <2>3
  <2>5. \A i \in 1 .. Len(q') : q'[i] = Len(d') + r' + i
    BY <1>1, <1>3, <2>1, <2>3
  <2>6. \A i \in DOMAIN d' : d'[i] = i
    BY <1>1, <1>2, <1>10, <2>1, <2>3
  <2> QED BY <2>1, <2>2, <2>4, <2>5, <2>6 DEF WorkInv, WorkInOrder, q, d, n, r, item
<1>9. Locking => UNCHANGED background
  BY DEF Locking, OpenLock, InsertLock, FcntlLock, Unlock, RemoveLock, CloseLock
<1> QED BY <1>4, <1>5, <1>6, <1>7, <1>8, <1>9 DEF Working, envVars

\* The background thread runs each item of work once and in the order of Schedule.
THEOREM WorkKeepsOrder == EnvSpec => []WorkInOrder
<1>1. EnvInit => WorkInv
  BY DEF EnvInit, WorkInv, WorkTypeOK, WorkInOrder, Running
<1>2. EnvSpec => []WorkInv
  BY <1>1, WorkStep, PTL DEF EnvSpec
<1>3. WorkInv => WorkInOrder
  BY DEF WorkInv
<1> QED BY <1>2, <1>3, PTL

-----------------------------------------------------------------------------
(***************************************************************************)
(* The bytes of a file.  Rising(s, a, b): s takes some of the bytes        *)
(* a + 1 .. b, in their order; Full(s, a, b): it takes all of them.         *)
(***************************************************************************)
Rising(s, a, b) ==
    /\ s \in Seq(Nat) /\ a <= b
    /\ \A i \in 1 .. Len(s) : a < s[i] /\ s[i] <= b
    /\ \A i, j \in 1 .. Len(s) : i < j => s[i] < s[j]

Full(s, a, b) ==
    /\ s \in Seq(Nat) /\ a <= b /\ Len(s) = b - a
    /\ \A i \in 1 .. Len(s) : s[i] = a + i

\* One piece after the other.
LEMMA RisingConcat ==
    ASSUME NEW a \in Nat, NEW b \in Nat, NEW c \in Nat, NEW s, NEW t,
           Rising(s, a, b), Rising(t, b, c)
    PROVE  Rising(s \o t, a, c)
<1>1. /\ s \in Seq(Nat) /\ t \in Seq(Nat) /\ s \o t \in Seq(Nat) /\ Len(s \o t) = Len(s) + Len(t)
      /\ Len(s) \in Nat /\ Len(t) \in Nat
      /\ \A i \in 1 .. Len(s) + Len(t) :
            (s \o t)[i] = IF i <= Len(s) THEN s[i] ELSE t[i - Len(s)]
  BY DEF Rising
<1>2. /\ \A i \in 1 .. Len(s) : s[i] \in Nat /\ a < s[i] /\ s[i] <= b
      /\ \A i \in 1 .. Len(t) : t[i] \in Nat /\ b < t[i] /\ t[i] <= c
      /\ a <= b /\ b <= c
  BY SMTT(30), <1>1 DEF Rising
<1>3. /\ \A i, j \in 1 .. Len(s) : i < j => s[i] < s[j]
      /\ \A i, j \in 1 .. Len(t) : i < j => t[i] < t[j]
  BY DEF Rising
<1> DEFINE u == s \o t
           m == Len(s)
           n == Len(t)
<1> HIDE DEF u, m, n
<1>4. /\ u \in Seq(Nat) /\ Len(u) = m + n /\ m \in Nat /\ n \in Nat
      /\ \A i \in 1 .. m + n : u[i] = IF i <= m THEN s[i] ELSE t[i - m]
  BY <1>1 DEF u, m, n
<1>5. ASSUME NEW i \in 1 .. m + n PROVE u[i] \in Nat /\ a < u[i] /\ u[i] <= c
  <2>1. CASE i <= m
    BY SMTT(30), <1>2, <1>4, <2>1 DEF m
  <2>2. CASE i > m
    <3>1. i - m \in 1 .. n
      BY <1>4, <2>2
    <3> QED BY SMTT(30), <1>2, <1>4, <2>2, <3>1 DEF n
  <2> QED BY <1>4, <2>1, <2>2
<1>6. ASSUME NEW i \in 1 .. m + n, NEW j \in 1 .. m + n, i < j PROVE u[i] < u[j]
  <2>1. CASE j <= m
    <3>1. i \in 1 .. m /\ j \in 1 .. m
      BY <1>4, <1>6, <2>1
    <3>2. u[i] = s[i] /\ u[j] = s[j]
      BY <1>4, <3>1
    <3> QED BY <1>3, <1>6, <3>1, <3>2 DEF m
  <2>2. CASE i > m
    <3>1. i - m \in 1 .. n /\ j - m \in 1 .. n /\ i - m < j - m
      BY <1>4, <1>6, <2>2
    <3>2. u[i] = t[i - m] /\ u[j] = t[j - m]
      BY SMTT(30), <1>4, <1>6, <2>2
    <3> QED BY <1>3, <3>1, <3>2 DEF n
  <2>3. CASE i <= m /\ j > m
    <3>1. i \in 1 .. m /\ j - m \in 1 .. n
      BY <1>4, <2>3
    <3>2. u[i] = s[i] /\ u[j] = t[j - m]
      BY <1>4, <2>3
    <3> QED BY <1>2, <3>1, <3>2 DEF m, n
  <2> QED BY <1>4, <1>6, <2>1, <2>2, <2>3
<1> QED BY SMTT(30), <1>2, <1>4, <1>5, <1>6 DEF Rising, u

LEMMA FullConcat ==
    ASSUME NEW a \in Nat, NEW b \in Nat, NEW c \in Nat, NEW s, NEW t,
           Full(s, a, b), Full(t, b, c)
    PROVE  Full(s \o t, a, c)
<1>1. /\ s \in Seq(Nat) /\ t \in Seq(Nat) /\ Len(s) = b - a /\ Len(t) = c - b
      /\ Len(s) \in Nat /\ Len(t) \in Nat
      /\ \A i \in 1 .. Len(s) : s[i] = a + i
      /\ \A i \in 1 .. Len(t) : t[i] = b + i
  BY DEF Full
<1>2. /\ s \o t \in Seq(Nat) /\ Len(s \o t) = Len(s) + Len(t)
      /\ \A i \in 1 .. Len(s) + Len(t) :
            (s \o t)[i] = IF i <= Len(s) THEN s[i] ELSE t[i - Len(s)]
  <2>1. s \in Seq(Nat) /\ t \in Seq(Nat)
    BY DEF Full
  <2> QED BY <2>1
<1>3. ASSUME NEW i \in 1 .. Len(s \o t) PROVE (s \o t)[i] = a + i
  <2>1. CASE i <= Len(s)
    BY <1>1, <1>2, <2>1
  <2>2. CASE i > Len(s)
    <3>1. i - Len(s) \in 1 .. Len(t)
      BY <1>1, <1>2, <2>2
    <3> QED BY SMTT(30), <1>1, <1>2, <2>2, <3>1
  <2> QED BY SMTT(30), <1>1, <1>2, <2>1, <2>2
<1>4. Len(s \o t) = c - a /\ a <= c
  <2>1. Len(s \o t) = Len(s) + Len(t)
    BY <1>2
  <2>2. Len(s) = b - a /\ Len(t) = c - b /\ a <= b /\ b <= c
    BY DEF Full
  <2> QED BY <2>1, <2>2
<1> QED BY <1>2, <1>3, <1>4 DEF Full

\* A part of a piece, and nothing at all.
LEMMA RisingPrefix ==
    ASSUME NEW a \in Nat, NEW b \in Nat, NEW s, Rising(s, a, b), NEW n \in 0 .. Len(s)
    PROVE  Rising(SubSeq(s, 1, n), a, b)
BY SMTT(30) DEF Rising

LEMMA EmptyPiece == ASSUME NEW a \in Nat, NEW b \in Nat, a <= b
                    PROVE  Rising(<<>>, a, b) /\ Full(<<>>, a, a)
BY DEF Rising, Full

LEMMA FullIsRising == ASSUME NEW a \in Nat, NEW b \in Nat, NEW s, Full(s, a, b)
                      PROVE  Rising(s, a, b)
BY DEF Rising, Full

(***************************************************************************)
(* A file as its calls keep it.  The buffer goes on where the data end.     *)
(***************************************************************************)
File == [buf : Seq(Nat), data : Seq(Nat), first : Nat, appended : Nat, durable : Nat,
         name : FileNames, is_manifest : BOOLEAN,
         synced : SUBSET {Dirname(n.path) : n \in FileNames},
         failed : BOOLEAN, open : BOOLEAN, opens : Nat]

InOrder(f) == \E m \in Nat : Rising(f.data, f.first, m) /\ Rising(f.buf, m, f.appended)

Complete(f) == \E m \in Nat : Full(f.data, f.first, m) /\ Full(f.buf, m, f.appended)

DirectoryFirst(f) ==
    /\ f.is_manifest = IsManifest(f.name.path)
    /\ f.name.manifest /\ f.durable > 0 => f.name.dir \in f.synced

Sound(f) == f \in File /\ InOrder(f) /\ DirectoryFirst(f) /\ Len(f.buf) <= BufferSize

\* What a result of a call must be: a sound file that has all its bytes unless the call, or one
\* before, has failed.
SoundResult(r) ==
    /\ Sound(r.file) /\ r.ok \in BOOLEAN
    /\ r.ok /\ ~r.file.failed => Complete(r.file)

Increasing(s) == \A i, j \in DOMAIN s : i < j => s[i] < s[j]

ReaderInv ==
    /\ reader \in [pos : Nat, got : Seq(Nat), skipped : BOOLEAN]
    /\ IF reader.skipped THEN Increasing(reader.got)
       ELSE reader.pos <= Len(wfile.data) /\ reader.got = SubSeq(wfile.data, 1, reader.pos)
    /\ \A i \in 1 .. Len(reader.got), k \in reader.pos + 1 .. Len(wfile.data) :
          reader.got[i] < wfile.data[k]

FileInv ==
    /\ Sound(wfile) /\ (~wfile.failed => Complete(wfile)) /\ (~wfile.open => wfile.buf = <<>>)
    /\ ReaderInv

LEMMA ManifestIsBoolean == ASSUME NEW path PROVE IsManifest(path) \in BOOLEAN
BY DEF IsManifest, IsPrefix

LEMMA InOrderIncreases ==
    ASSUME NEW f \in File, InOrder(f)
    PROVE  Increasing(f.data)
<1>1. DOMAIN f.data = 1 .. Len(f.data)
  BY DEF File
<1> QED BY <1>1 DEF InOrder, Rising, Increasing

\* The inductive invariant gives the property.
LEMMA FileInvImplies == FileInv => FileHoldsBytes
<1> SUFFICES ASSUME FileInv PROVE FileHoldsBytes
  OBVIOUS
<1> DEFINE f == wfile
<1>1. f \in File /\ InOrder(f)
  BY DEF FileInv, Sound
<1>2. ASSUME ~f.failed
      PROVE  f.data \o f.buf = [i \in 1 .. f.appended - f.first |-> f.first + i]
  <2>1. f.first \in Nat /\ f.appended \in Nat
    BY <1>1 DEF File
  <2>2. Full(f.data \o f.buf, f.first, f.appended)
    BY <1>2, <2>1, FullConcat DEF FileInv, Complete
  <2> DEFINE s == f.data \o f.buf
  <2>3. s \in Seq(Nat) /\ Len(s) = f.appended - f.first /\ \A i \in 1 .. Len(s) : s[i] = f.first + i
    BY <2>2 DEF Full
  <2> HIDE DEF s
  <2>4. s = [i \in 1 .. f.appended - f.first |-> f.first + i]
    BY <2>3
  <2> QED BY <2>4 DEF s
<1>3. Increasing(f.data)
  BY <1>1, InOrderIncreases
<1> QED BY <1>2, <1>3 DEF FileHoldsBytes, FileInv, Sound, DirectoryFirst, ReaderInv, Increasing

LEMMA FileInitOK == FileInit => FileInv
<1> SUFFICES ASSUME FileInit PROVE FileInv
  OBVIOUS
<1>1. PICK n \in FileNames :
        wfile = [buf |-> <<>>, data |-> <<>>, first |-> 0, appended |-> 0, durable |-> 0,
                 name |-> n, is_manifest |-> IsManifest(n.path), synced |-> {},
                 failed |-> FALSE, open |-> TRUE, opens |-> 0]
  BY DEF FileInit
<1>2. wfile \in File
  BY <1>1, ManifestIsBoolean DEF File
<1>3. Rising(<<>>, 0, 0) /\ Full(<<>>, 0, 0)
  BY EmptyPiece
<1>4. InOrder(wfile) /\ Complete(wfile)
  BY <1>1, <1>3 DEF InOrder, Complete
<1>5. DirectoryFirst(wfile) /\ Len(wfile.buf) <= BufferSize
  BY <1>1, SizeAssumption DEF DirectoryFirst
<1>6. ReaderInv
  BY <1>1 DEF FileInit, NoReader, ReaderInv
<1> QED BY <1>1, <1>2, <1>4, <1>5, <1>6 DEF FileInv, Sound

\* What a piece that is written leaves of a file: all but the data.
SameBytes(g, f) ==
    /\ g.first = f.first /\ g.appended = f.appended /\ g.durable = f.durable /\ g.name = f.name
    /\ g.is_manifest = f.is_manifest /\ g.synced = f.synced /\ g.failed = f.failed
    /\ g.open = f.open

\* WriteUnbuffered adds all of the bytes, or a part of them and fails.
LEMMA WriteEffect ==
    ASSUME NEW f \in File, NEW bytes \in Seq(Nat), NEW r \in WriteUnbuffered(f, bytes)
    PROVE  /\ r.file \in File /\ r.ok \in BOOLEAN /\ SameBytes(r.file, f) /\ r.file.buf = f.buf
           /\ r.ok => r.file.data = f.data \o bytes
           /\ ~r.ok => \E n \in 0 .. Len(bytes) : r.file.data = f.data \o SubSeq(bytes, 1, n)
<1>1. CASE r = Ok([f EXCEPT !.data = @ \o bytes])
  <2>1. f.data \o bytes \in Seq(Nat)
    BY DEF File
  <2> QED BY <1>1, <2>1 DEF Ok, File, SameBytes
<1>2. ASSUME NEW n \in 0 .. Len(bytes) - 1, r = Error([f EXCEPT !.data = @ \o SubSeq(bytes, 1, n)])
      PROVE  /\ r.file \in File /\ r.ok = FALSE /\ SameBytes(r.file, f) /\ r.file.buf = f.buf
             /\ r.file.data = f.data \o SubSeq(bytes, 1, n) /\ n \in 0 .. Len(bytes)
  <2>1. SubSeq(bytes, 1, n) \in Seq(Nat)
    OBVIOUS
  <2>2. f.data \o SubSeq(bytes, 1, n) \in Seq(Nat)
    BY <2>1 DEF File
  <2> DEFINE longer == f.data \o SubSeq(bytes, 1, n)
  <2> HIDE DEF longer
  <2>3. r = Error([f EXCEPT !.data = longer]) /\ longer \in Seq(Nat)
    BY <1>2, <2>2 DEF longer
  <2>4. r.file \in File /\ r.ok = FALSE /\ SameBytes(r.file, f) /\ r.file.buf = f.buf /\ r.file.data = longer
    BY <2>3 DEF Error, File, SameBytes
  <2> QED BY <2>4 DEF longer
<1> QED BY <1>1, <1>2 DEF WriteUnbuffered

LEMMA FlushEffect ==
    ASSUME NEW f \in File, NEW r \in FlushBuffer(f)
    PROVE  /\ r.file \in File /\ r.ok \in BOOLEAN /\ SameBytes(r.file, f) /\ r.file.buf = <<>>
           /\ r.ok => r.file.data = f.data \o f.buf
           /\ ~r.ok => \E n \in 0 .. Len(f.buf) : r.file.data = f.data \o SubSeq(f.buf, 1, n)
<1> DEFINE g == [f EXCEPT !.buf = <<>>]
<1>1. g \in File /\ g.buf = <<>> /\ g.data = f.data /\ SameBytes(g, f) /\ f.buf \in Seq(Nat)
  <2>1. <<>> \in Seq(Nat)
    OBVIOUS
  <2>2. ASSUME NEW e \in Seq(Nat)
        PROVE  LET h == [f EXCEPT !.buf = e]
               IN  h \in File /\ h.buf = e /\ h.data = f.data /\ SameBytes(h, f) /\ f.buf \in Seq(Nat)
    BY DEF File, SameBytes
  <2> QED BY <2>1, <2>2
<1>2. r \in WriteUnbuffered(g, f.buf)
  BY DEF FlushBuffer
<1> HIDE DEF g
<1>3. /\ r.file \in File /\ r.ok \in BOOLEAN /\ SameBytes(r.file, g) /\ r.file.buf = <<>>
      /\ r.ok => r.file.data = f.data \o f.buf
      /\ ~r.ok => \E n \in 0 .. Len(f.buf) : r.file.data = f.data \o SubSeq(f.buf, 1, n)
  <2>1. /\ r.file \in File /\ r.ok \in BOOLEAN /\ SameBytes(r.file, g) /\ r.file.buf = g.buf
        /\ r.ok => r.file.data = g.data \o f.buf
        /\ ~r.ok => \E n \in 0 .. Len(f.buf) : r.file.data = g.data \o SubSeq(f.buf, 1, n)
    BY <1>1, <1>2, WriteEffect, Zenon
  <2> QED BY <1>1, <2>1, Zenon
<1>4. SameBytes(r.file, f)
  BY <1>1, <1>3 DEF SameBytes
<1> QED BY <1>3, <1>4

\* A flush keeps the order of the bytes; it loses none if it succeeds.
LEMMA FlushKeeps ==
    ASSUME NEW f, Sound(f), ~f.failed => Complete(f), NEW r \in FlushBuffer(f)
    PROVE  SoundResult(r) /\ r.file.buf = <<>> /\ r.file.open = f.open
<1>1. f \in File /\ f.first \in Nat /\ f.appended \in Nat /\ f.buf \in Seq(Nat)
  BY DEF Sound, File
<1>2. /\ r.file \in File /\ r.ok \in BOOLEAN /\ SameBytes(r.file, f) /\ r.file.buf = <<>>
      /\ r.ok => r.file.data = f.data \o f.buf
      /\ ~r.ok => \E n \in 0 .. Len(f.buf) : r.file.data = f.data \o SubSeq(f.buf, 1, n)
  BY <1>1, FlushEffect
<1>3. PICK m \in Nat : Rising(f.data, f.first, m) /\ Rising(f.buf, m, f.appended)
  BY DEF Sound, InOrder
<1>4. Rising(r.file.data, f.first, f.appended)
  <2>1. CASE r.ok
    BY <1>1, <1>2, <1>3, <2>1, RisingConcat
  <2>2. CASE ~r.ok
    <3>1. PICK n \in 0 .. Len(f.buf) : r.file.data = f.data \o SubSeq(f.buf, 1, n)
      BY <1>2, <2>2
    <3>2. Rising(SubSeq(f.buf, 1, n), m, f.appended)
      BY <1>1, <1>3, RisingPrefix
    <3> QED BY <1>1, <1>3, <3>1, <3>2, RisingConcat
  <2> QED BY <2>1, <2>2
<1>5. Rising(<<>>, f.appended, f.appended) /\ Full(<<>>, f.appended, f.appended)
  BY <1>1, EmptyPiece
<1>6. InOrder(r.file)
  BY <1>1, <1>2, <1>4, <1>5 DEF InOrder, SameBytes
<1>7. ASSUME r.ok, ~r.file.failed PROVE Complete(r.file)
  <2>1. PICK k \in Nat : Full(f.data, f.first, k) /\ Full(f.buf, k, f.appended)
    BY <1>2, <1>7 DEF Complete, SameBytes
  <2>2. Full(r.file.data, f.first, f.appended)
    BY <1>1, <1>2, <1>7, <2>1, FullConcat
  <2> QED BY <1>1, <1>2, <1>5, <2>2 DEF Complete, SameBytes
<1>8. DirectoryFirst(r.file) /\ Len(r.file.buf) <= BufferSize
  BY <1>2, SizeAssumption DEF Sound, DirectoryFirst, SameBytes
<1> QED BY <1>2, <1>6, <1>7, <1>8 DEF SoundResult, Sound, SameBytes

-----------------------------------------------------------------------------
\* The calls of a file that is open.

\* A call that ends with a sound result leaves the file as it must be; the reader starts again.
LEMMA ReturnKeeps ==
    ASSUME NEW R, \A r \in R : SoundResult(r) /\ (~r.file.open => r.file.buf = <<>>),
           Return(R), reader' = NoReader
    PROVE  FileInv'
<1>1. PICK r \in R : wfile' = [r.file EXCEPT !.failed = @ \/ ~r.ok]
  BY DEF Return
<1>2. SoundResult(r) /\ (~r.file.open => r.file.buf = <<>>) /\ r.file \in File /\ r.ok \in BOOLEAN
  BY DEF SoundResult, Sound
<1> DEFINE g == r.file
           failed == g.failed \/ ~r.ok
<1>3. failed \in BOOLEAN
  OBVIOUS
<1>4. wfile' = [g EXCEPT !.failed = failed]
  BY <1>1
<1> HIDE DEF failed
<1>5. /\ wfile' \in File /\ wfile'.data = g.data /\ wfile'.buf = g.buf /\ wfile'.first = g.first
      /\ wfile'.appended = g.appended /\ wfile'.durable = g.durable /\ wfile'.name = g.name
      /\ wfile'.is_manifest = g.is_manifest /\ wfile'.synced = g.synced /\ wfile'.open = g.open
      /\ wfile'.failed = failed
  BY <1>2, <1>3, <1>4 DEF File
<1>6. InOrder(wfile') /\ DirectoryFirst(wfile') /\ Len(wfile'.buf) <= BufferSize
  BY <1>2, <1>5 DEF SoundResult, Sound, InOrder, DirectoryFirst
<1>7. ~wfile'.failed => Complete(wfile')
  BY <1>2, <1>5 DEF SoundResult, Complete, failed
<1>8. ReaderInv'
  BY <1>5 DEF ReaderInv, NoReader, File
<1> QED BY <1>2, <1>5, <1>6, <1>7, <1>8 DEF FileInv, Sound

\* Both halves of a piece of new bytes.
LEMMA NewBytes ==
    ASSUME NEW n \in Nat, NEW k \in 0 .. n, wfile.appended \in Nat
    PROVE  /\ Full(SubSeq(Bytes(n), 1, k), wfile.appended, wfile.appended + k)
           /\ Full(SubSeq(Bytes(n), k + 1, n), wfile.appended + k, wfile.appended + n)
<1> DEFINE a == wfile.appended
           s == [i \in 1 .. n |-> a + i]
<1>1. s \in Seq(Nat) /\ Len(s) = n /\ \A i \in 1 .. n : s[i] = a + i
  OBVIOUS
<1> HIDE DEF s
<1>2. /\ SubSeq(s, 1, k) \in Seq(Nat) /\ Len(SubSeq(s, 1, k)) = k
      /\ \A i \in 1 .. k : SubSeq(s, 1, k)[i] = s[i]
  BY <1>1
<1>3. /\ SubSeq(s, k + 1, n) \in Seq(Nat) /\ Len(SubSeq(s, k + 1, n)) = n - k
      /\ \A i \in 1 .. n - k : SubSeq(s, k + 1, n)[i] = s[k + i]
  BY <1>1
<1>4. Full(SubSeq(s, 1, k), a, a + k)
  BY <1>1, <1>2 DEF Full
<1>5. Full(SubSeq(s, k + 1, n), a + k, a + n)
  BY SMTT(30), <1>1, <1>3 DEF Full
<1> QED BY <1>4, <1>5 DEF Bytes, s

LEMMA FlushStep == ASSUME FileInv, FileFlush, reader' = NoReader PROVE FileInv'
<1>1. \A r \in FlushBuffer(wfile) : SoundResult(r) /\ r.file.buf = <<>>
  BY FlushKeeps DEF FileInv
<1> QED BY <1>1, ReturnKeeps DEF FileFlush

\* Close: the buffer is empty even if the flush fails.
LEMMA CloseStep == ASSUME FileInv, FileClose, reader' = NoReader PROVE FileInv'
<1> DEFINE f == [wfile EXCEPT !.open = FALSE]
<1>1. wfile \in File
  BY DEF FileInv, Sound
<1>2. Sound(f) /\ (~f.failed => Complete(f))
  BY <1>1 DEF FileInv, Sound, File, InOrder, Complete, DirectoryFirst
<1> HIDE DEF f
<1>3. \A r \in FlushBuffer(f) : SoundResult(r) /\ r.file.buf = <<>>
  BY <1>2, FlushKeeps
<1> DEFINE R == UNION {IF r.ok THEN {Ok(r.file), Error(r.file)} ELSE {r} : r \in FlushBuffer(f)}
<1>4. ASSUME NEW r \in R PROVE SoundResult(r) /\ r.file.buf = <<>>
  <2>1. PICK q \in FlushBuffer(f) : r \in IF q.ok THEN {Ok(q.file), Error(q.file)} ELSE {q}
    OBVIOUS
  <2>2. SoundResult(q) /\ q.file.buf = <<>>
    BY <1>3
  <2>3. Ok(q.file).file = q.file /\ Ok(q.file).ok = TRUE
        /\ Error(q.file).file = q.file /\ Error(q.file).ok = FALSE
    BY DEF Ok, Error
  <2>4. CASE ~q.ok
    BY <2>1, <2>2, <2>4
  <2>5. CASE q.ok /\ r = Ok(q.file)
    BY <2>2, <2>3, <2>5 DEF SoundResult
  <2>6. CASE q.ok /\ r = Error(q.file)
    BY <2>2, <2>3, <2>6 DEF SoundResult
  <2> QED BY <2>1, <2>4, <2>5, <2>6
<1>5. Return(R)
  BY DEF FileClose, OnSuccess, f
<1> HIDE DEF R
<1> QED BY <1>4, <1>5, ReturnKeeps

\* Sync: the directory of a MANIFEST, then the buffer, then the file.
LEMMA SyncStep == ASSUME FileInv, FileSync, reader' = NoReader PROVE FileInv'
<1> DEFINE D == SyncDirIfManifest(wfile)
           B == UNION {IF d.ok THEN FlushBuffer(d.file) ELSE {d} : d \in D}
           R == UNION {IF b.ok THEN SyncFd(b.file) ELSE {b} : b \in B}
           Listed(f) == f.is_manifest => Dirname(f.name.path) \in f.synced
<1>1. wfile \in File /\ Sound(wfile) /\ (~wfile.failed => Complete(wfile))
  BY DEF FileInv, Sound
<1>2. ASSUME NEW d \in D
      PROVE  SoundResult(d) /\ (d.ok => Listed(d.file)) /\ d.file.open = wfile.open
             /\ (~d.file.failed => Complete(d.file))
  <2>1. CASE d \in {Ok(wfile), Error(wfile)} /\ (d.ok => ~wfile.is_manifest)
    <3>1. Ok(wfile).file = wfile /\ Ok(wfile).ok = TRUE
          /\ Error(wfile).file = wfile /\ Error(wfile).ok = FALSE
      BY DEF Ok, Error
    <3> QED BY <1>1, <2>1, <3>1 DEF SoundResult
  <2>2. CASE d = Ok([wfile EXCEPT !.synced = @ \cup {Dirname(wfile.name.path)}])
    <3> DEFINE g == [wfile EXCEPT !.synced = @ \cup {Dirname(wfile.name.path)}]
    <3>1. g \in File /\ Listed(g) /\ g.open = wfile.open
      BY <1>1 DEF File
    <3>2. InOrder(g) /\ DirectoryFirst(g) /\ Len(g.buf) <= BufferSize /\ (~g.failed => Complete(g))
      BY <1>1 DEF Sound, File, InOrder, Complete, DirectoryFirst
    <3> HIDE DEF g
    <3>3. d = Ok(g)
      BY <2>2 DEF g
    <3> QED BY <3>1, <3>2, <3>3 DEF Ok, SoundResult, Sound
  <2> QED BY <2>1, <2>2 DEF SyncDirIfManifest, Ok, Error
<1>3. ASSUME NEW b \in B
      PROVE  SoundResult(b) /\ (b.ok => Listed(b.file)) /\ b.file.open = wfile.open
  <2>1. PICK d \in D : b \in IF d.ok THEN FlushBuffer(d.file) ELSE {d}
    OBVIOUS
  <2>2. SoundResult(d) /\ (d.ok => Listed(d.file)) /\ d.file.open = wfile.open
        /\ (~d.file.failed => Complete(d.file))
    BY <1>2
  <2>3. CASE ~d.ok
    BY <2>1, <2>2, <2>3
  <2>4. CASE d.ok
    <3>1. SoundResult(b) /\ b.file.open = d.file.open
      BY <2>1, <2>2, <2>4, FlushKeeps DEF SoundResult
    <3>2. SameBytes(b.file, d.file)
      BY <2>1, <2>2, <2>4, FlushEffect DEF SoundResult, Sound
    <3> QED BY <2>2, <2>4, <3>1, <3>2 DEF SameBytes
  <2> QED BY <2>3, <2>4
<1>4. ASSUME NEW r \in R PROVE SoundResult(r) /\ r.file.open = wfile.open
  <2>1. PICK b \in B : r \in IF b.ok THEN SyncFd(b.file) ELSE {b}
    OBVIOUS
  <2>2. SoundResult(b) /\ (b.ok => Listed(b.file)) /\ b.file.open = wfile.open
    BY <1>3
  <2>3. CASE ~b.ok
    BY <2>1, <2>2, <2>3
  <2>4. CASE b.ok /\ r = Error(b.file)
    BY <2>2, <2>4 DEF Error, SoundResult
  <2>5. CASE b.ok /\ r = Ok([b.file EXCEPT !.durable = Len(b.file.data)])
    <3> DEFINE f == b.file
               g == [f EXCEPT !.durable = Len(f.data)]
    <3>1. f \in File /\ Sound(f) /\ Listed(f) /\ (~f.failed => Complete(f)) /\ f.open = wfile.open
      BY <2>2, <2>5 DEF SoundResult, Sound
    <3>2. Len(f.data) \in Nat
      BY <3>1 DEF File
    <3>3. g \in File /\ g.open = f.open
      BY <3>1, <3>2 DEF File
    <3>4. InOrder(g) /\ Len(g.buf) <= BufferSize /\ (~g.failed => Complete(g))
      BY <3>1 DEF Sound, File, InOrder, Complete
    <3>5. DirectoryFirst(g)
      <4>1. g.name = f.name /\ g.is_manifest = f.is_manifest /\ g.synced = f.synced /\ f.name \in FileNames
        BY <3>1 DEF File
      <4>2. f.is_manifest = IsManifest(f.name.path)
        BY <3>1 DEF Sound, DirectoryFirst
      <4> HIDE DEF f, g
      <4> QED BY <3>1, <4>1, <4>2, NameAssumption DEF DirectoryFirst
    <3>6. r = Ok(g)
      BY <2>5
    <3> HIDE DEF f, g
    <3> QED BY <3>1, <3>3, <3>4, <3>5, <3>6 DEF Ok, SoundResult, Sound
  <2> QED BY <2>1, <2>3, <2>4, <2>5 DEF SyncFd
<1>5. wfile.open /\ Return(R)
  BY DEF FileSync, OnSuccess
<1> HIDE DEF R
<1> QED BY <1>1, <1>4, <1>5, ReturnKeeps

\* The file is opened again, truncated or at its end.
LEMMA ReopenStep ==
    ASSUME FileInv, NewWritableFile \/ NewAppendableFile, reader' = NoReader PROVE FileInv'
<1>1. /\ wfile \in File /\ InOrder(wfile) /\ DirectoryFirst(wfile)
      /\ (~wfile.failed => Complete(wfile)) /\ wfile.buf = <<>>
      /\ wfile.appended \in Nat /\ wfile.name.path = wfile.name.path
  BY DEF FileInv, Sound, File, NewWritableFile, NewAppendableFile, CanReopen
<1> DEFINE m == IsManifest(wfile.name.path)
           k == wfile.opens + 1
<1>2. m \in BOOLEAN /\ k \in Nat
  BY <1>1, ManifestIsBoolean DEF File
<1>3. Reopen(wfile) = [wfile EXCEPT !.open = TRUE, !.opens = k, !.is_manifest = m]
  BY DEF Reopen
<1>4. m = wfile.is_manifest
  BY <1>1 DEF DirectoryFirst
<1>5. <<>> \in Seq(Nat) /\ Len(<<>>) = 0
  OBVIOUS
<1> HIDE DEF m, k
<1>6. CASE NewAppendableFile
  <2>1. wfile' = [wfile EXCEPT !.open = TRUE, !.opens = k, !.is_manifest = m]
    BY <1>3, <1>6 DEF NewAppendableFile
  <2>2. wfile' \in File /\ wfile'.open /\ wfile'.buf = <<>> /\ wfile'.data = wfile.data
    BY <1>1, <1>2, <2>1 DEF File
  <2>3. InOrder(wfile') /\ (~wfile'.failed => Complete(wfile'))
    BY <1>1, <2>1 DEF File, InOrder, Complete
  <2>4. DirectoryFirst(wfile')
    BY <1>1, <1>4, <2>1 DEF File, DirectoryFirst
  <2>5. ReaderInv'
    BY <2>2 DEF ReaderInv, NoReader, File
  <2> QED BY <1>5, <2>2, <2>3, <2>4, <2>5, SizeAssumption DEF FileInv, Sound
<1>7. CASE NewWritableFile
  <2>1. wfile' = [[wfile EXCEPT !.open = TRUE, !.opens = k, !.is_manifest = m] EXCEPT
                      !.data = <<>>, !.first = wfile.appended, !.durable = 0, !.failed = FALSE]
    BY <1>3, <1>7 DEF NewWritableFile
  <2>2. /\ wfile' \in File /\ wfile'.open /\ wfile'.buf = <<>> /\ wfile'.data = <<>>
        /\ wfile'.first = wfile.appended /\ wfile'.appended = wfile.appended
        /\ wfile'.durable = 0 /\ wfile'.is_manifest = m /\ wfile'.name = wfile.name
    BY <1>1, <1>2, <1>5, <2>1 DEF File
  <2>3. Rising(<<>>, wfile.appended, wfile.appended) /\ Full(<<>>, wfile.appended, wfile.appended)
    BY <1>1, EmptyPiece
  <2>4. InOrder(wfile') /\ Complete(wfile')
    BY <1>1, <2>2, <2>3 DEF InOrder, Complete
  <2>5. DirectoryFirst(wfile')
    BY <2>2 DEF DirectoryFirst, m
  <2>6. ReaderInv'
    BY <1>5, <2>2 DEF ReaderInv, NoReader
  <2> QED BY <1>5, <2>2, <2>4, <2>5, <2>6, SizeAssumption DEF FileInv, Sound
<1> QED BY <1>6, <1>7

\* Append: the bytes go to the buffer, or the buffer is flushed and the rest goes to the buffer
\* or directly to the file.
LEMMA AppendStep ==
    ASSUME FileInv, NEW n \in 1 .. MaxBytes, FileAppend(n), reader' = NoReader PROVE FileInv'
<1> DEFINE w == wfile
           room == BufferSize - Len(w.buf)
           fits == IF n <= room THEN n ELSE room
           head == SubSeq(Bytes(n), 1, fits)
           left == SubSeq(Bytes(n), fits + 1, n)
           a == w.appended
           later == a + n
           mid == a + fits
<1>1. /\ w \in File /\ w.open /\ (~w.failed => Complete(w)) /\ InOrder(w) /\ DirectoryFirst(w)
      /\ Len(w.buf) <= BufferSize
  BY Zenon DEF FileInv, Sound, FileAppend
<1>2. /\ n \in Nat /\ a \in Nat /\ w.first \in Nat /\ w.buf \in Seq(Nat) /\ w.data \in Seq(Nat)
      /\ Len(w.buf) \in Nat
  BY <1>1, SizeAssumption DEF File
<1>3. fits \in 0 .. n /\ fits <= BufferSize - Len(w.buf)
  <2> DEFINE used == Len(w.buf)
  <2>1. used \in Nat /\ n \in Nat /\ used <= BufferSize
    BY <1>1, <1>2
  <2> HIDE DEF used
  <2>2. (IF n <= BufferSize - used THEN n ELSE BufferSize - used) \in 0 .. n
        /\ (IF n <= BufferSize - used THEN n ELSE BufferSize - used) <= BufferSize - used
    BY <2>1, SizeAssumption
  <2> QED BY <2>2 DEF used
<1>4. Full(head, a, mid) /\ Full(left, mid, later) /\ mid \in Nat /\ later \in Nat
  <2> HIDE DEF fits
  <2>1. n \in Nat /\ a \in Nat /\ fits \in 0 .. n
    BY <1>2, <1>3
  <2>2. mid \in Nat /\ later \in Nat
    <3> HIDE DEF a
    <3> QED BY <2>1
  <2>3. Full(head, a, mid) /\ Full(left, mid, later)
    BY <2>1, NewBytes
  <2> QED BY <2>2, <2>3
<1>5. head \in Seq(Nat) /\ left \in Seq(Nat) /\ Len(head) = fits
  <2> HIDE DEF fits, head, left
  <2> QED BY SMTT(30), <1>2, <1>3, <1>4 DEF Full
<1> DEFINE f == [w EXCEPT !.buf = @ \o head, !.appended = @ + n]
<1>6. /\ f \in File /\ f.buf = w.buf \o head /\ f.data = w.data /\ f.first = w.first
      /\ f.appended = later /\ f.durable = w.durable /\ f.name = w.name
      /\ f.is_manifest = w.is_manifest /\ f.synced = w.synced /\ f.failed = w.failed /\ f.open = w.open
  <2> DEFINE buf == w.buf \o head
  <2> HIDE DEF head
  <2>1. buf \in Seq(Nat)
    BY <1>2, <1>5
  <2>2. f = [w EXCEPT !.buf = buf, !.appended = later]
    BY <1>1 DEF File
  <2> HIDE DEF buf, later, f
  <2>3. /\ f \in File /\ f.buf = buf /\ f.data = w.data /\ f.first = w.first
        /\ f.appended = later /\ f.durable = w.durable /\ f.name = w.name
        /\ f.is_manifest = w.is_manifest /\ f.synced = w.synced /\ f.failed = w.failed /\ f.open = w.open
    BY <1>1, <1>4, <2>1, <2>2 DEF File
  <2> QED BY <2>3 DEF buf
<1>7. PICK m \in Nat : Rising(w.data, w.first, m) /\ Rising(w.buf, m, a)
  BY <1>1 DEF InOrder
<1>8. /\ Rising(f.buf, m, mid) /\ Rising(left, mid, later)
      /\ Rising(f.data \o f.buf, w.first, mid)
  <2> HIDE DEF head, left, mid, later, f
  <2>1. Rising(head, a, mid) /\ Rising(left, mid, later)
    BY <1>2, <1>4, FullIsRising
  <2>2. Rising(w.buf \o head, m, mid)
    BY <1>2, <1>4, <1>7, <2>1, RisingConcat
  <2> QED BY <1>2, <1>4, <1>6, <1>7, <2>1, <2>2, RisingConcat
<1>9. ASSUME ~w.failed
      PROVE  \E k \in Nat : /\ Full(w.data, w.first, k) /\ Full(f.buf, k, mid)
                            /\ Full(f.data \o f.buf, w.first, mid)
  <2> HIDE DEF head, left, mid, later, f
  <2>1. PICK k \in Nat : Full(w.data, w.first, k) /\ Full(w.buf, k, a)
    BY <1>1, <1>9 DEF Complete
  <2>2. Full(w.buf \o head, k, mid)
    BY <1>2, <1>4, <2>1, FullConcat
  <2>3. Full(f.data \o f.buf, w.first, mid)
    BY <1>2, <1>4, <1>6, <2>1, <2>2, FullConcat
  <2> QED BY <1>6, <2>1, <2>2, <2>3
<1>10. \A g : SameBytes(g, f) =>
           /\ DirectoryFirst(g) /\ g.first = w.first /\ g.appended = later
           /\ g.failed = w.failed /\ g.open
  <2> HIDE DEF f, later
  <2> QED BY <1>1, <1>6 DEF SameBytes, DirectoryFirst
<1>11. SameBytes(f, f)
  BY DEF SameBytes
<1> DEFINE store(g) == IF Len(left) < BufferSize THEN {Ok([g EXCEPT !.buf = left])}
                       ELSE WriteUnbuffered(g, left)
           S == UNION {IF r.ok THEN store(r.file) ELSE {r} : r \in FlushBuffer(f)}
           R == IF left = <<>> THEN {Ok(f)} ELSE S
<1>12. Return(R)
  BY DEF FileAppend, OnSuccess
<1>13. ASSUME left = <<>> PROVE SoundResult(Ok(f)) /\ Ok(f).file.open
  <2>1. fits = n
    <3> HIDE DEF fits, left
    <3>1. Len(left) = later - mid /\ Len(left) = 0
      BY <1>4, <1>13 DEF Full
    <3>2. a \in Nat /\ n \in Nat /\ fits \in 0 .. n /\ 0 = (a + n) - (a + fits)
      BY <1>2, <1>3, <3>1
    <3> HIDE DEF a
    <3> QED BY <3>2
  <2>2. Len(f.buf) <= BufferSize
    <3> HIDE DEF fits, head, f
    <3>1. head \in Seq(Nat) /\ w.buf \in Seq(Nat)
      BY <1>2, <1>5
    <3>2. Len(w.buf \o head) = Len(w.buf) + Len(head)
      BY <3>1
    <3>3. Len(w.buf) \in Nat /\ Len(head) <= BufferSize - Len(w.buf) /\ Len(head) \in Nat
      BY <1>2, <1>3, <1>5
    <3>4. Len(f.buf) = Len(w.buf) + Len(head)
      BY <1>6, <3>2
    <3> QED BY <3>3, <3>4, SizeAssumption
  <2>3. mid = later
    BY <2>1
  <2> HIDE DEF fits, head, left, mid, later, f
  <2>4. InOrder(f) /\ (~f.failed => Complete(f))
    BY <1>6, <1>7, <1>8, <1>9, <2>3 DEF InOrder, Complete
  <2>5. Ok(f).file = f /\ Ok(f).ok = TRUE
    BY DEF Ok
  <2> QED BY <1>6, <1>10, <1>11, <2>2, <2>4, <2>5 DEF SoundResult, Sound
<1>14. ASSUME NEW r \in FlushBuffer(f), ~r.ok PROVE SoundResult(r) /\ r.file.open
  <2> HIDE DEF fits, head, left, mid, later, f
  <2>1. /\ r.file \in File /\ r.ok \in BOOLEAN /\ SameBytes(r.file, f) /\ r.file.buf = <<>>
        /\ \E k \in 0 .. Len(f.buf) : r.file.data = f.data \o SubSeq(f.buf, 1, k)
    BY <1>6, <1>14, FlushEffect
  <2>2. PICK k \in 0 .. Len(f.buf) : r.file.data = f.data \o SubSeq(f.buf, 1, k)
    BY <2>1
  <2>3. Rising(SubSeq(f.buf, 1, k), m, mid)
    BY <1>4, <1>8, RisingPrefix
  <2>4. Rising(r.file.data, w.first, mid)
    BY <1>2, <1>4, <1>6, <1>7, <2>2, <2>3, RisingConcat
  <2>5. Rising(<<>>, mid, later)
    <3>1. mid <= later
      BY <1>4 DEF Full
    <3> QED BY <1>4, <3>1, EmptyPiece
  <2>6. InOrder(r.file)
    BY <1>4, <1>10, <2>1, <2>4, <2>5 DEF InOrder
  <2>7. Len(r.file.buf) <= BufferSize
    BY <2>1, SizeAssumption
  <2> QED BY <1>10, <1>14, <2>1, <2>6, <2>7 DEF SoundResult, Sound
<1>15. ASSUME NEW r \in FlushBuffer(f), r.ok, NEW q \in store(r.file)
       PROVE  SoundResult(q) /\ q.file.open
  <2> HIDE DEF fits, head, left, mid, later, f
  <2>1. /\ r.file \in File /\ SameBytes(r.file, f) /\ r.file.buf = <<>>
        /\ r.file.data = f.data \o f.buf
    BY <1>6, <1>15, FlushEffect
  <2>2. Rising(r.file.data, w.first, mid) /\ (~w.failed => Full(r.file.data, w.first, mid))
    BY <1>8, <1>9, <2>1
  <2>3. CASE Len(left) < BufferSize
    <3> DEFINE g == [r.file EXCEPT !.buf = left]
    <3>1. g \in File /\ g.buf = left /\ g.data = r.file.data /\ SameBytes(g, r.file)
      BY <1>5, <2>1 DEF File, SameBytes
    <3> HIDE DEF g
    <3>2. SameBytes(g, f)
      BY <2>1, <3>1 DEF SameBytes
    <3>3. InOrder(g) /\ (~g.failed => Complete(g))
      BY <1>4, <1>8, <1>10, <2>2, <3>1, <3>2 DEF InOrder, Complete
    <3>4. Len(g.buf) <= BufferSize
      BY <1>5, <2>3, <3>1, SizeAssumption
    <3>5. q.file = g /\ q.ok = TRUE
      BY <1>15, <2>3 DEF Ok, g
    <3> QED BY <1>10, <3>1, <3>2, <3>3, <3>4, <3>5 DEF SoundResult, Sound
  <2>4. CASE ~(Len(left) < BufferSize)
    <3>1. q \in WriteUnbuffered(r.file, left)
      BY <1>15, <2>4
    <3>2. /\ q.file \in File /\ q.ok \in BOOLEAN /\ SameBytes(q.file, r.file) /\ q.file.buf = <<>>
          /\ q.ok => q.file.data = r.file.data \o left
          /\ ~q.ok => \E k \in 0 .. Len(left) : q.file.data = r.file.data \o SubSeq(left, 1, k)
      BY <1>5, <2>1, <3>1, WriteEffect
    <3>3. SameBytes(q.file, f)
      BY <2>1, <3>2 DEF SameBytes
    <3>4. Rising(q.file.data, w.first, later)
      <4>1. CASE q.ok
        BY <1>2, <1>4, <1>8, <2>2, <3>2, <4>1, RisingConcat
      <4>2. CASE ~q.ok
        <5>1. PICK k \in 0 .. Len(left) : q.file.data = r.file.data \o SubSeq(left, 1, k)
          BY <3>2, <4>2
        <5>2. Rising(SubSeq(left, 1, k), mid, later)
          BY <1>4, <1>8, RisingPrefix
        <5> QED BY <1>2, <1>4, <2>2, <5>1, <5>2, RisingConcat
      <4> QED BY <3>2, <4>1, <4>2
    <3>5. Rising(<<>>, later, later) /\ Full(<<>>, later, later)
      BY <1>4, EmptyPiece
    <3>6. InOrder(q.file)
      BY <1>4, <1>10, <3>2, <3>3, <3>4, <3>5 DEF InOrder
    <3>7. ASSUME q.ok, ~q.file.failed PROVE Complete(q.file)
      <4>1. Full(q.file.data, w.first, later)
        BY <1>2, <1>4, <1>10, <2>2, <3>2, <3>3, <3>7, FullConcat
      <4> QED BY <1>4, <1>10, <3>2, <3>3, <3>5, <4>1 DEF Complete
    <3>8. Len(q.file.buf) <= BufferSize
      BY <3>2, SizeAssumption
    <3> QED BY <1>10, <3>2, <3>3, <3>6, <3>7, <3>8 DEF SoundResult, Sound
  <2> QED BY <2>3, <2>4
<1>16. \A r \in R : SoundResult(r) /\ r.file.open
  <2> HIDE DEF fits, head, left, mid, later, f, store
  <2> QED BY <1>13, <1>14, <1>15
<1> HIDE DEF R
<1> QED BY <1>12, <1>16, ReturnKeeps

-----------------------------------------------------------------------------
\* A reader at the position it is at gets the next bytes, or skips some, or starts again.
LEMMA MinMax ==
    ASSUME NEW a \in Nat, NEW b \in Nat
    PROVE  /\ Min({a, b}) = IF a <= b THEN a ELSE b
           /\ Max({a, b}) = IF a <= b THEN b ELSE a
<1>1. (IF a <= b THEN a ELSE b) \in {a, b} /\ \A y \in {a, b} : (IF a <= b THEN a ELSE b) <= y
  OBVIOUS
<1>2. (IF a <= b THEN b ELSE a) \in {a, b} /\ \A y \in {a, b} : (IF a <= b THEN b ELSE a) >= y
  OBVIOUS
<1>3. Min({a, b}) = IF a <= b THEN a ELSE b
  BY <1>1 DEF Min
<1>4. Max({a, b}) = IF a <= b THEN b ELSE a
  BY <1>2 DEF Max
<1> QED BY <1>3, <1>4

LEMMA ReadStep ==
    ASSUME FileInv, UNCHANGED wfile, NEW n \in Nat, SequentialRead(n) PROVE ReaderInv'
<1> DEFINE d == wfile.data
           pos == reader.pos
           got == reader.got
           most == IF pos <= Len(d) THEN Len(d) ELSE pos
           end == IF pos + n <= most THEN pos + n ELSE most
           piece == SubSeq(d, pos + 1, end)
<1>1. /\ reader \in [pos : Nat, got : Seq(Nat), skipped : BOOLEAN] /\ d \in Seq(Nat)
      /\ pos \in Nat /\ got \in Seq(Nat) /\ Len(d) \in Nat /\ Len(got) \in Nat
  BY DEF FileInv, ReaderInv, Sound, File
<1>2. most \in Nat /\ end \in Nat /\ pos <= end
      /\ end <= (IF pos <= Len(d) THEN Len(d) ELSE pos)
  <2> DEFINE l == Len(d)
  <2>1. l \in Nat /\ pos \in Nat
    BY <1>1
  <2> HIDE DEF l, pos
  <2> QED BY <2>1
<1>3. reader' = [reader EXCEPT !.pos = end, !.got = got \o piece]
  <2>1. Max({pos, Len(d)}) = most
    BY <1>1, MinMax
  <2>2. Min({pos + n, most}) = end
    <3>1. pos + n \in Nat
      BY <1>1
    <3> HIDE DEF most
    <3> QED BY <1>2, <3>1, MinMax
  <2> HIDE DEF most
  <2> QED BY <2>1, <2>2 DEF SequentialRead
<1>4. Increasing(d) /\ DOMAIN d = 1 .. Len(d)
  BY <1>1, InOrderIncreases DEF FileInv, Sound
<1>5. /\ piece \in Seq(Nat) /\ Len(piece) = end - pos
      /\ \A i \in 1 .. end - pos : pos + i \in 1 .. Len(d) /\ piece[i] = d[pos + i]
  <2> HIDE DEF pos, end, d
  <2>1. CASE pos < end
    BY <1>1, <1>2, <2>1
  <2>2. CASE pos = end
    BY <1>1, <1>2, <2>2
  <2> QED BY <1>1, <1>2, <2>1, <2>2
<1> DEFINE all == got \o piece
           m == Len(got)
<1>6. /\ all \in Seq(Nat) /\ Len(all) = m + (end - pos) /\ DOMAIN all = 1 .. m + (end - pos)
      /\ \A i \in 1 .. m : all[i] = got[i]
      /\ \A i \in 1 .. m + (end - pos) : i > m => all[i] = piece[i - m]
  <2>1. got \in Seq(Nat) /\ piece \in Seq(Nat) /\ Len(piece) = end - pos
    BY <1>1, <1>5
  <2> HIDE DEF got, piece, end, pos
  <2> QED BY <2>1
<1>7. /\ reader'.pos = end /\ reader'.got = all /\ reader'.skipped = reader.skipped
      /\ reader' \in [pos : Nat, got : Seq(Nat), skipped : BOOLEAN]
  <2>1. all \in Seq(Nat) /\ end \in Nat
    BY <1>2, <1>6
  <2>2. reader' = [reader EXCEPT !.pos = end, !.got = all]
    BY <1>3
  <2> HIDE DEF all, end
  <2> QED BY <1>1, <2>1, <2>2
<1>8. \A i \in 1 .. m, k \in pos + 1 .. Len(d) : got[i] < d[k]
  BY DEF FileInv, ReaderInv
<1>9. \A i \in 1 .. m + (end - pos) : i > m => i - m \in 1 .. end - pos
                                              /\ pos + (i - m) \in 1 .. Len(d)
                                              /\ all[i] = d[pos + (i - m)]
  <2> HIDE DEF all, end, pos, piece, d, m
  <2>1. m \in Nat /\ pos \in Nat /\ end \in Nat /\ pos <= end
    BY <1>1, <1>2 DEF m
  <2> SUFFICES ASSUME NEW i \in 1 .. m + (end - pos), i > m
               PROVE  i - m \in 1 .. end - pos /\ pos + (i - m) \in 1 .. Len(d)
                      /\ all[i] = d[pos + (i - m)]
    OBVIOUS
  <2>2. i - m \in 1 .. end - pos
    BY <2>1
  <2> QED BY <1>5, <1>6, <2>2
<1>10. \A i \in 1 .. Len(all), k \in end + 1 .. Len(d) : all[i] < d[k]
  <2> SUFFICES ASSUME NEW i \in 1 .. Len(all), NEW k \in end + 1 .. Len(d) PROVE all[i] < d[k]
    OBVIOUS
  <2> HIDE DEF all, end, pos, piece, d, m, got
  <2>1. m \in Nat /\ i \in 1 .. m + (end - pos) /\ k \in pos + 1 .. Len(d) /\ k \in 1 .. Len(d)
    BY <1>1, <1>2, <1>6 DEF m
  <2>2. CASE i <= m
    BY <1>6, <1>8, <2>1, <2>2
  <2>3. CASE i > m
    <3>1. /\ i - m \in 1 .. end - pos /\ pos + (i - m) \in 1 .. Len(d)
          /\ all[i] = d[pos + (i - m)]
      BY <1>9, <2>1, <2>3
    <3>2. pos \in Nat /\ end \in Nat /\ Len(d) \in Nat /\ k \in end + 1 .. Len(d)
      BY <1>1, <1>2
    <3>3. pos + (i - m) < k
      BY SMTT(30), <2>1, <3>1, <3>2
    <3> QED BY <1>4, <2>1, <3>1, <3>3 DEF Increasing
  <2> QED BY <2>1, <2>2, <2>3
<1>11. CASE reader.skipped
  <2>1. Increasing(got) /\ DOMAIN got = 1 .. m
    BY <1>1, <1>11 DEF FileInv, ReaderInv
  <2>2. ASSUME NEW i \in 1 .. m + (end - pos), NEW j \in 1 .. m + (end - pos), i < j
        PROVE  all[i] < all[j]
    <3> HIDE DEF all, end, pos, piece, d, m, got
    <3>0. m \in Nat
      BY <1>1 DEF m
    <3>1. CASE j <= m
      <4>1. i \in 1 .. m /\ j \in 1 .. m
        BY <1>1, <1>2, <2>2, <3>0, <3>1
      <4> QED BY <1>6, <2>1, <2>2, <4>1 DEF Increasing
    <3>2. CASE i <= m /\ j > m
      <4>1. i \in 1 .. m /\ pos + (j - m) \in pos + 1 .. Len(d) /\ all[j] = d[pos + (j - m)]
        BY <1>1, <1>2, <1>9, <3>0, <3>2
      <4> QED BY <1>6, <1>8, <4>1
    <3>3. CASE i > m
      <4>1. j > m
        BY <1>1, <1>2, <2>2, <3>0, <3>3
      <4>2. pos + (i - m) \in 1 .. Len(d) /\ all[i] = d[pos + (i - m)]
        BY <1>9, <3>3
      <4>3. pos + (j - m) \in 1 .. Len(d) /\ all[j] = d[pos + (j - m)]
        BY <1>9, <4>1
      <4>4. pos + (i - m) < pos + (j - m)
        BY <1>1, <1>2, <2>2, <3>0
      <4> QED BY <1>4, <4>2, <4>3, <4>4 DEF Increasing
    <3> QED BY <1>1, <1>2, <3>0, <3>1, <3>2, <3>3
  <2>3. Increasing(all)
    BY <1>6, <2>2 DEF Increasing
  <2> HIDE DEF all, end
  <2> QED BY <1>7, <1>10, <1>11, <2>3 DEF ReaderInv
<1>12. CASE ~reader.skipped
  <2>1. pos <= Len(d) /\ got = SubSeq(d, 1, pos)
    BY <1>12 DEF FileInv, ReaderInv
  <2>2. end <= Len(d)
    <3> HIDE DEF end, pos, d
    <3> QED BY <1>1, <1>2, <2>1
  <2>3. m = pos /\ \A i \in 1 .. pos : got[i] = d[i]
    <3> HIDE DEF d, pos, got
    <3> QED BY <1>1, <2>1 DEF m
  <2>4. /\ SubSeq(d, 1, end) \in Seq(Nat) /\ Len(SubSeq(d, 1, end)) = end
        /\ \A i \in 1 .. end : SubSeq(d, 1, end)[i] = d[i]
    <3> HIDE DEF d, end
    <3> QED BY <1>1, <1>2, <2>2
  <2>5. Len(all) = end
    <3>1. Len(all) = m + (end - pos) /\ m = pos /\ pos \in Nat /\ end \in Nat
      BY <1>1, <1>2, <1>6, <2>3
    <3> HIDE DEF all, end, pos, m
    <3> QED BY <3>1
  <2>6. ASSUME NEW i \in 1 .. end PROVE all[i] = d[i]
    <3> HIDE DEF all, end, pos, m, d, got, piece
    <3>1. CASE i <= m
      BY SMTT(30), <1>1, <1>2, <1>6, <2>3, <3>1
    <3>2. CASE i > m
      <4>1. i \in 1 .. m + (end - pos) /\ pos + (i - m) = i
        BY <1>1, <1>2, <2>3
      <4> QED BY <1>9, <3>2, <4>1
    <3> QED BY <1>1, <1>2, <2>3, <3>1, <3>2
  <2>7. all = SubSeq(d, 1, end)
    <3> DEFINE whole == SubSeq(d, 1, end)
    <3>1. all \in Seq(Nat) /\ whole \in Seq(Nat) /\ Len(all) = Len(whole)
          /\ \A i \in 1 .. Len(all) : all[i] = whole[i]
      BY <1>6, <2>4, <2>5, <2>6
    <3> HIDE DEF all, whole
    <3>2. all = whole
      BY SMTT(30), <3>1
    <3> QED BY <3>2 DEF whole
  <2> HIDE DEF all, end
  <2> QED BY <1>7, <1>10, <1>12, <2>2, <2>7 DEF ReaderInv
<1> QED BY <1>11, <1>12

LEMMA SkipStep ==
    ASSUME FileInv, UNCHANGED wfile, Skip(BufferSize) PROVE ReaderInv'
<1>1. /\ reader \in [pos : Nat, got : Seq(Nat), skipped : BOOLEAN] /\ wfile.data \in Seq(Nat)
      /\ reader.pos \in Nat /\ reader.pos + BufferSize \in Nat /\ Len(wfile.data) \in Nat
      /\ reader.pos <= reader.pos + BufferSize
  BY SizeAssumption DEF FileInv, ReaderInv, Sound, File
<1>2. /\ reader' \in [pos : Nat, got : Seq(Nat), skipped : BOOLEAN]
      /\ reader'.skipped = TRUE /\ reader'.got = reader.got /\ reader'.pos = reader.pos + BufferSize
  BY <1>1 DEF Skip
<1>3. Increasing(wfile.data) /\ DOMAIN wfile.data = 1 .. Len(wfile.data)
  BY <1>1, InOrderIncreases DEF FileInv, Sound
<1>4. Increasing(reader.got)
  <2>1. CASE reader.skipped
    BY <2>1 DEF FileInv, ReaderInv
  <2>2. CASE ~reader.skipped
    <3> DEFINE d == wfile.data
               pos == reader.pos
    <3>1. reader.got = SubSeq(d, 1, pos) /\ pos <= Len(d) /\ pos \in Nat /\ d \in Seq(Nat)
      BY <1>1, <2>2 DEF FileInv, ReaderInv
    <3> HIDE DEF d, pos
    <3>2. DOMAIN SubSeq(d, 1, pos) = 1 .. pos /\ \A i \in 1 .. pos : SubSeq(d, 1, pos)[i] = d[i]
      BY <3>1
    <3>3. \A i \in 1 .. pos : i \in 1 .. Len(d)
      BY <3>1
    <3> QED BY <1>3, <3>1, <3>2, <3>3 DEF Increasing, d
  <2> QED BY <2>1, <2>2
<1>5. ASSUME NEW i \in 1 .. Len(reader.got), NEW k \in reader.pos + BufferSize + 1 .. Len(wfile.data)
      PROVE  reader.got[i] < wfile.data[k]
  <2>1. k \in reader.pos + 1 .. Len(wfile.data)
    BY <1>1, SizeAssumption
  <2> QED BY <2>1 DEF FileInv, ReaderInv
<1> QED BY <1>2, <1>4, <1>5 DEF ReaderInv

LEMMA FileStep == FileInv /\ [Writing \/ Reading \/ Opening]_fileVars => FileInv'
<1> SUFFICES ASSUME FileInv, [Writing \/ Reading \/ Opening]_fileVars PROVE FileInv'
  OBVIOUS
<1>1. CASE Writing
  BY <1>1, AppendStep, SyncStep, FlushStep, CloseStep, ReopenStep DEF Writing
<1>2. CASE Reading
  <2>1. UNCHANGED wfile
    BY <1>2 DEF Reading
  <2>2. ReaderInv'
    <3>1. CASE \E n \in 1 .. BufferSize + 1 : SequentialRead(n)
      <4>1. PICK n \in 1 .. BufferSize + 1 : SequentialRead(n)
        BY <3>1
      <4>2. n \in Nat
        BY SizeAssumption
      <4> QED BY <2>1, <4>1, <4>2, ReadStep
    <3>2. CASE Skip(BufferSize)
      BY <2>1, <3>2, SkipStep
    <3>3. CASE NewSequentialFile
      BY <2>1, <3>3 DEF NewSequentialFile, NoReader, FileInv, Sound, File, ReaderInv
    <3> QED BY <1>2, <3>1, <3>2, <3>3 DEF Reading
  <2> QED BY <2>1, <2>2 DEF FileInv
<1>3. CASE UNCHANGED <<wfile, reader>>
  BY <1>3 DEF FileInv, ReaderInv
<1> QED BY <1>1, <1>2, <1>3 DEF Opening, fileVars

\* The file and its buffer hold exactly the bytes that were appended, in order, until a call
\* fails, and never one twice; the directory of a MANIFEST is synced before the file; a close
\* leaves nothing behind; a reader gets every byte once: for every size of the buffer and every
\* sequence of calls and failures.
THEOREM FileKeepsBytes == FileSpec => []FileHoldsBytes
<1>1. FileSpec => []FileInv
  BY FileInitOK, FileStep, PTL DEF FileSpec
<1> QED BY <1>1, FileInvImplies, PTL
=============================================================================
