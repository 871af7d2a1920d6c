--------------------------- MODULE DBWriteProofs ---------------------------
(***************************************************************************)
(* Proofs about DBWrite: batches are atomic, and a call that reports success *)
(* is in the log, for any number of threads, calls and entries.              *)
(***************************************************************************)
EXTENDS DBWrite, FiniteSetTheorems, WellFoundedInduction, TLAPS

-----------------------------------------------------------------------------
\* The inductive invariant.

Grouped == {"log", "sync", "insert", "relock"}
AtFront == {"room", "sleep", "room_wait"} \cup Grouped
Out == {"done", "imm_check", "imm_wait"}

Ops == [thread : Threads, index : Nat]
Stamped == [op : Ops, seq : Nat]
LogRecord == [seq : Nat, ops : Seq(Ops)]
WriterType == [done : BOOLEAN, ok : BOOLEAN, signal : BOOLEAN]
GroupType == [last : Threads \cup {0}, ops : Seq(Ops), seq : Nat, inserted : Nat,
              ok : BOOLEAN, sync_error : BOOLEAN]

\* The number of files in level 0, which no property here is about, may be anything.
IsStore(s) ==
    s \in [log : Seq(LogRecord), synced : Nat, mem : SUBSET Stamped, imm : SUBSET Stamped,
           has_imm : BOOLEAN, tables : SUBSET Stamped, level0 : {s.level0}, last_sequence : Nat]

WriteTypeOK ==
    /\ call \in [Threads -> Call] /\ \A t \in Threads : call[t].compact => call[t].batch = 0
    /\ pc \in [Threads -> {"idle", "queue"} \cup AtFront \cup Out]
    /\ writer \in [Threads -> WriterType]
    /\ writers \in Seq(Threads)
    /\ group \in GroupType /\ tmp_batch \in Seq(Ops) /\ IsStore(store)

\* A thread whose call is under way and that left the queue.
InQueue(t) == \E i \in DOMAIN writers : writers[i] = t
Gone(t) == pc[t] # "idle" /\ ~InQueue(t)

\* Nobody is in the queue twice; who is there waits, only the front one works.
Once == \A i, j \in DOMAIN writers : writers[i] = writers[j] => i = j
Waits(i) == /\ ~writer[writers[i]].done
            /\ pc[writers[i]] = "queue" \/ (i = 1 /\ pc[writers[i]] \in AtFront)
PlaceOK(t) == /\ pc[t] \in AtFront \/ (pc[t] = "queue" /\ ~writer[t].done) => InQueue(t)
              /\ pc[t] = "idle" => ~writer[t].done
              /\ pc[t] \in {"imm_check", "imm_wait"} => call[t].compact
WritersOK == Once /\ (\A i \in DOMAIN writers : Waits(i)) /\ \A t \in Threads : PlaceOK(t)

\* A thread that writes the batches of the group, the members of which it takes along.
Leads(t) == pc[t] \in Grouped
SomeLeader == \E t \in Threads : Leads(t)
Member(t) == \E i, n \in DOMAIN writers : i <= n /\ writers[i] = t /\ writers[n] = group.last

Op(t, i) == [thread |-> t, index |-> i]
Record == [seq |-> group.seq, ops |-> group.ops]
InLog(t) == pc[t] \in {"sync", "insert"} \/ (pc[t] = "relock" /\ group.ok)

\* The group has the entries of its members, each once.
OfMembers == \A k \in DOMAIN group.ops :
                /\ Member(group.ops[k].thread)
                /\ group.ops[k].index \in 1 .. call[group.ops[k].thread].batch
OpsDiffer == \A j, k \in DOMAIN group.ops : group.ops[j] = group.ops[k] => j = k
OfAllMembers == \A m \in Threads : Member(m) =>
                   \A i \in 1 .. call[m].batch : \E k \in DOMAIN group.ops : group.ops[k] = Op(m, i)
SyncedFor(t) == \A m \in Threads : Member(m) /\ call[m].sync => call[t].sync
Formed(t) == InQueue(group.last) /\ OfMembers /\ OpsDiffer /\ OfAllMembers /\ SyncedFor(t)

\* It is logged, synced if its leader asked for that, and then inserted under the numbers
\* that follow the last one.
Numbered(t) ==
    /\ group.seq = store.last_sequence + 1
    /\ group.inserted <= Len(group.ops)
    /\ pc[t] \in {"log", "sync"} => group.inserted = 0
    /\ pc[t] # "relock" => group.ok
    /\ pc[t] = "relock" => group.inserted = IF group.ok THEN Len(group.ops) ELSE 0
Logged(t) ==
    /\ InLog(t) => store.log # <<>> /\ store.log[Len(store.log)] = Record
    /\ InLog(t) /\ pc[t] # "sync" /\ call[t].sync => store.synced = Len(store.log)

GroupOK ==
    /\ \A t \in Threads : Leads(t) => Formed(t) /\ Numbered(t) /\ Logged(t)
    /\ SomeLeader => tmp_batch \in {<<>>, group.ops}
    /\ ~SomeLeader => tmp_batch = <<>>

\* The k-th entry of the group as it is inserted.
Entry(k) == [op |-> group.ops[k], seq |-> group.seq + k - 1]
Inserted(e) == \E k \in 1 .. group.inserted : e = Entry(k)

\* What is stored is of threads that are gone, or was inserted from the group.
IndexOK == \A e \in Stored : e.op.index \in 1 .. call[e.op.thread].batch
VisibleGone == \A e \in Stored : e.seq <= store.last_sequence => Gone(e.op.thread)
RestInserted == \A e \in Stored : e.seq > store.last_sequence => SomeLeader /\ Inserted(e)
InsertedStored == SomeLeader => \A k \in 1 .. group.inserted : Entry(k) \in Stored
EntriesDiffer == \A e, f \in Stored : e.seq = f.seq \/ e.op = f.op => e = f
NotStored(t) == \A e \in Stored : e.op.thread # t
AllStored(t) == \A i \in 1 .. call[t].batch : \E e \in Stored : e.op = Op(t, i)
WholeBatches == \A t \in Threads : Gone(t) => NotStored(t) \/ AllStored(t)
StoredOK == /\ ~store.has_imm => store.imm = {}
            /\ IndexOK /\ VisibleGone /\ RestInserted /\ InsertedStored /\ EntriesDiffer /\ WholeBatches

\* An entry at a place of the log, synced if its call asked for that, is stored as it is there.
HeldAt(t, i, r, k) ==
    /\ store.log[r].ops[k] = Op(t, i)
    /\ call[t].sync => r <= store.synced
    /\ [op |-> Op(t, i), seq |-> store.log[r].seq + k - 1] \in Stored
Held(t, i) == \E r \in DOMAIN store.log : \E k \in DOMAIN store.log[r].ops : HeldAt(t, i, r, k)

\* What is in the log is of threads that are gone, or the record of the group.
LogFrom == \A r \in DOMAIN store.log : \A k \in DOMAIN store.log[r].ops :
              \/ Gone(store.log[r].ops[k].thread)
              \/ \E t \in Threads : Leads(t) /\ pc[t] # "log" /\ Member(store.log[r].ops[k].thread)
LogDiffers == \A r, s \in DOMAIN store.log :
                 \A k \in DOMAIN store.log[r].ops, l \in DOMAIN store.log[s].ops :
                    store.log[r].ops[k] = store.log[s].ops[l] => r = s /\ k = l
SuccessHeld == \A t \in Threads : Gone(t) /\ writer[t].ok => \A i \in 1 .. call[t].batch : Held(t, i)
LogOK == store.synced <= Len(store.log) /\ LogFrom /\ LogDiffers /\ SuccessHeld

WriteInv == WriteTypeOK /\ WritersOK /\ GroupOK /\ StoredOK /\ LogOK

-----------------------------------------------------------------------------
\* Steps that neither touch what the group has nor what is stored.

\* Whoever works is at the front, so that at most one thread leads.
LEMMA FrontIsFirst ==
    ASSUME WriteInv, NEW t \in Threads, pc[t] \in AtFront
    PROVE  /\ 1 \in DOMAIN writers /\ writers[1] = t /\ InQueue(t)
           /\ \A u \in Threads : pc[u] \in AtFront => u = t
  <1>1. ASSUME NEW u \in Threads, pc[u] \in AtFront
        PROVE  1 \in DOMAIN writers /\ writers[1] = u /\ InQueue(u)
    <2>1. PlaceOK(u) /\ InQueue(u)
      BY <1>1, Zenon DEF WriteInv, WritersOK, PlaceOK
    <2>2. PICK i \in DOMAIN writers : writers[i] = u
      BY <2>1, Zenon DEF InQueue
    <2>3. Waits(i)
      BY <2>2, Zenon DEF WriteInv, WritersOK
    <2>4. pc[u] # "queue"
      BY <1>1 DEF AtFront, Grouped
    <2> QED
      BY <2>1, <2>2, <2>3, <2>4, Zenon DEF Waits
  <1> QED
    BY <1>1, Zenon

\* A thread in the queue is not gone; one that leads is at the front.
LEMMA LeaderIsFirst ==
    ASSUME NEW t \in Threads, Leads(t)
    PROVE  pc[t] \in AtFront /\ pc[t] # "idle" /\ SomeLeader
  BY DEF Leads, AtFront, Grouped, SomeLeader

\* What is the same in the log and in the tables.
SameData == /\ store'.log = store.log /\ store'.synced = store.synced
            /\ store'.last_sequence = store.last_sequence
            /\ Stored' = Stored /\ (~store'.has_imm => store'.imm = {})

\* Such a step leaves the group and who leads it as they are; a thread that leaves the queue
\* has no batch or fails, while there is no group.
SameGroup ==
    /\ UNCHANGED <<call, group, tmp_batch>>
    /\ \A t \in Threads : (Leads(t)' <=> Leads(t)) /\ (Leads(t) => pc'[t] = pc[t])
    /\ SomeLeader => InQueue(group.last)' /\ \A m \in Threads : Member(m)' <=> Member(m)
    /\ \A t \in Threads : (Gone(t) => Gone(t)') /\ (SomeLeader => (Gone(t)' => Gone(t)))
    /\ \A t \in Threads : Gone(t)' /\ writer'[t].ok => (Gone(t) /\ writer[t].ok) \/ call[t].batch = 0

LEMMA SameGroupOK ==
    ASSUME WriteInv, SameData, SameGroup PROVE GroupOK'
  <1>1. SomeLeader' <=> SomeLeader
    BY Zenon DEF SomeLeader, SameGroup
  <1>2. ASSUME NEW t \in Threads, Leads(t)' PROVE (Formed(t) /\ Numbered(t) /\ Logged(t))'
    <2>1. Leads(t) /\ pc'[t] = pc[t] /\ SomeLeader
      BY <1>2, Zenon DEF SameGroup, SomeLeader
    <2>2. Formed(t) /\ Numbered(t) /\ Logged(t)
      BY <2>1, Zenon DEF WriteInv, GroupOK
    <2>3. \A m \in Threads : Member(m)' <=> Member(m)
      BY <2>1, Zenon DEF SameGroup
    <2>4. group' = group /\ call' = call
      BY Zenon DEF SameGroup
    <2>5. OfMembers'
      <3> SUFFICES ASSUME NEW k \in DOMAIN group.ops
                   PROVE  (/\ Member(group.ops[k].thread)
                           /\ group.ops[k].index \in 1 .. call[group.ops[k].thread].batch)'
        BY <2>4, Zenon DEF OfMembers
      <3>1. group.ops[k] \in Ops
        BY DEF WriteInv, WriteTypeOK, GroupType
      <3>2. PICK m \in Threads : m = group.ops[k].thread
        BY <3>1 DEF Ops
      <3>3. Member(m) /\ group.ops[k].index \in 1 .. call[m].batch
        BY <2>2, <3>2, Zenon DEF Formed, OfMembers
      <3>4. Member(m)' /\ m = group'.ops[k].thread
        BY <2>3, <2>4, <3>2, <3>3, Zenon
      <3> QED
        BY <2>4, <3>2, <3>3, <3>4, Zenon DEF Member
    <2>6. InQueue(group.last)' /\ OpsDiffer' /\ OfAllMembers' /\ SyncedFor(t)'
      <3>1. OpsDiffer'
        BY <2>2, <2>4, Zenon DEF Formed, OpsDiffer
      <3>2. OfAllMembers'
        BY <2>2, <2>3, <2>4, Zenon DEF Formed, OfAllMembers, Op
      <3>3. SyncedFor(t)'
        BY <2>2, <2>3, <2>4, Zenon DEF Formed, SyncedFor
      <3>4. InQueue(group.last)'
        BY <2>1, Zenon DEF SameGroup
      <3> QED
        BY <3>1, <3>2, <3>3, <3>4
    <2>7. Numbered(t)'
      BY <2>1, <2>2, <2>4, Zenon DEF Numbered, SameData
    <2>8. Logged(t)'
      BY <2>1, <2>2, <2>4, Zenon DEF Logged, InLog, Record, SameData
    <2> QED
      BY <2>5, <2>6, <2>7, <2>8, Zenon DEF Formed
  <1>3. tmp_batch' = tmp_batch /\ group' = group
    BY Zenon DEF SameGroup
  <1> QED
    BY <1>1, <1>2, <1>3, Zenon DEF GroupOK, WriteInv

LEMMA SameStoredOK ==
    ASSUME WriteInv, SameData, SameGroup PROVE StoredOK'
  <1>1. StoredOK
    BY Zenon DEF WriteInv
  <1>2. Stored' = Stored /\ store'.last_sequence = store.last_sequence /\ group' = group /\ call' = call
    BY Zenon DEF SameData, SameGroup
  <1>3. SomeLeader' <=> SomeLeader
    BY Zenon DEF SomeLeader, SameGroup
  <1>4. \A t \in Threads : Gone(t) => Gone(t)'
    BY Zenon DEF SameGroup
  <1>5. \A e \in Stored : e.op.thread \in Threads
    BY DEF Stored, WriteInv, WriteTypeOK, IsStore, Stamped, Ops
  <1>6. ~store'.has_imm => store'.imm = {}
    BY Zenon DEF SameData
  <1>7. IndexOK'
    BY <1>1, <1>2, Zenon DEF StoredOK, IndexOK
  <1>8. VisibleGone'
    <2> SUFFICES ASSUME NEW e \in Stored, e.seq <= store.last_sequence
                 PROVE  (Gone(e.op.thread))'
      BY <1>2, Zenon DEF VisibleGone
    <2>1. PICK m \in Threads : m = e.op.thread
      BY <1>5, Zenon
    <2>2. Gone(m)'
      BY <1>1, <1>4, <2>1, Zenon DEF StoredOK, VisibleGone
    <2> QED
      BY <2>1, <2>2, Zenon DEF Gone, InQueue
  <1>9. RestInserted'
    BY <1>1, <1>2, <1>3, Zenon DEF StoredOK, RestInserted, Inserted, Entry
  <1>10. InsertedStored'
    BY <1>1, <1>2, <1>3, Zenon DEF StoredOK, InsertedStored, Entry
  <1>11. EntriesDiffer'
    BY <1>1, <1>2, Zenon DEF StoredOK, EntriesDiffer
  <1>12. WholeBatches'
    <2> SUFFICES ASSUME NEW t \in Threads, Gone(t)' PROVE NotStored(t) \/ AllStored(t)
      BY <1>2, Zenon DEF WholeBatches, NotStored, AllStored, Op
    <2>1. CASE Gone(t)
      BY <1>1, <2>1, Zenon DEF StoredOK, WholeBatches
    <2>2. CASE ~Gone(t)
      <3>1. ~SomeLeader
        BY <2>2, Zenon DEF SameGroup
      <3>2. \A e \in Stored : e.seq <= store.last_sequence
        <4> TAKE e \in Stored
        <4>1. ~(e.seq > store.last_sequence)
          BY <1>1, <3>1, Zenon DEF StoredOK, RestInserted
        <4>2. e.seq \in Nat /\ store.last_sequence \in Nat
          BY DEF Stored, WriteInv, WriteTypeOK, IsStore, Stamped
        <4> QED
          BY <4>1, <4>2
      <3> QED
        BY <1>1, <2>2, <3>2, Zenon DEF StoredOK, VisibleGone, NotStored
    <2> QED
      BY <2>1, <2>2
  <1> QED
    BY <1>6, <1>7, <1>8, <1>9, <1>10, <1>11, <1>12, Zenon DEF StoredOK

LEMMA LogHasOps ==
    ASSUME WriteInv, NEW r \in DOMAIN store.log, NEW k \in DOMAIN store.log[r].ops
    PROVE  store.log[r] \in LogRecord /\ store.log[r].ops[k] \in Ops
  <1>1. store.log \in Seq(LogRecord)
    BY DEF WriteInv, WriteTypeOK, IsStore
  <1>2. store.log[r] \in LogRecord
    BY <1>1
  <1>3. store.log[r].ops \in Seq(Ops)
    BY <1>2 DEF LogRecord
  <1> QED
    BY <1>2, <1>3

\* What is held stays held.
LEMMA HeldStays ==
    ASSUME NEW t, NEW i, Held(t, i), call' = call, store'.log = store.log,
           store'.synced = store.synced, Stored' = Stored
    PROVE  Held(t, i)'
  <1>1. PICK r \in DOMAIN store.log : \E k \in DOMAIN store.log[r].ops : HeldAt(t, i, r, k)
    BY Zenon DEF Held
  <1>2. PICK k \in DOMAIN store.log[r].ops : HeldAt(t, i, r, k)
    BY <1>1, Zenon
  <1>3. HeldAt(t, i, r, k)'
    BY <1>2, Zenon DEF HeldAt, Op
  <1> QED
    BY <1>3, Zenon DEF Held

LEMMA SameLogOK ==
    ASSUME WriteInv, SameData, SameGroup PROVE LogOK'
  <1>1. LogOK
    BY Zenon DEF WriteInv
  <1>2. Stored' = Stored /\ store'.log = store.log /\ store'.synced = store.synced
        /\ group' = group /\ call' = call
    BY Zenon DEF SameData, SameGroup
  <1>3. LogFrom'
    <2> SUFFICES ASSUME NEW r \in DOMAIN store.log, NEW k \in DOMAIN store.log[r].ops
                 PROVE  (\/ Gone(store.log[r].ops[k].thread)
                         \/ \E t \in Threads : Leads(t) /\ pc[t] # "log"
                                               /\ Member(store.log[r].ops[k].thread))'
      BY <1>2, Zenon DEF LogFrom
    <2>1. store.log[r].ops[k] \in Ops
      BY LogHasOps
    <2>2. PICK m \in Threads : m = store.log[r].ops[k].thread
      BY <2>1 DEF Ops
    <2>3. Gone(m) \/ \E t \in Threads : Leads(t) /\ pc[t] # "log" /\ Member(m)
      BY <1>1, <2>2, Zenon DEF LogOK, LogFrom
    <2>4. CASE Gone(m)
      <3>1. Gone(m)'
        BY <2>4, Zenon DEF SameGroup
      <3> QED
        BY <1>2, <2>2, <3>1, Zenon DEF Gone, InQueue
    <2>5. CASE \E t \in Threads : Leads(t) /\ pc[t] # "log" /\ Member(m)
      <3>1. PICK t \in Threads : Leads(t) /\ pc[t] # "log" /\ Member(m)
        BY <2>5, Zenon
      <3>2. Leads(t)' /\ pc'[t] # "log" /\ Member(m)'
        BY <3>1, Zenon DEF SameGroup, SomeLeader
      <3> QED
        BY <1>2, <2>2, <3>2, Zenon DEF Member
    <2> QED
      BY <2>3, <2>4, <2>5, Zenon
  <1>4. LogDiffers'
    <2>1. LogDiffers
      BY <1>1, Zenon DEF LogOK
    <2> QED
      BY <1>2, <2>1 DEF LogDiffers
  <1>5. SuccessHeld'
    <2> SUFFICES ASSUME NEW t \in Threads, Gone(t)' /\ writer'[t].ok
                 PROVE  \A i \in 1 .. call[t].batch : Held(t, i)'
      BY <1>2, Zenon DEF SuccessHeld
    <2>1. CASE Gone(t) /\ writer[t].ok
      <3>1. \A i \in 1 .. call[t].batch : Held(t, i)
        BY <1>1, <2>1, Zenon DEF LogOK, SuccessHeld
      <3> QED
        BY <1>2, <3>1, HeldStays, Zenon
    <2>2. CASE call[t].batch = 0
      BY <2>2
    <2> QED
      BY <2>1, <2>2, Zenon DEF SameGroup
  <1>6. (store.synced <= Len(store.log))'
    BY <1>1, <1>2, Zenon DEF LogOK
  <1> QED
    BY <1>3, <1>4, <1>5, <1>6, Zenon DEF LogOK

LEMMA SameKeepsInv ==
    ASSUME WriteInv, SameData, SameGroup, WriteTypeOK', WritersOK' PROVE WriteInv'
  BY SameGroupOK, SameStoredOK, SameLogOK, Zenon DEF WriteInv

-----------------------------------------------------------------------------
\* The actions of that kind: a thread moves on, the background thread works.

AtRoom == {"room", "sleep", "room_wait"}
Resting == {"queue"} \cup AtRoom \cup Out

LEMMA PlacesDiffer ==
    ASSUME NEW x \in Resting
    PROVE  x \notin Grouped /\ x # "idle" /\ x \in {"idle", "queue"} \cup AtFront \cup Out
  BY DEF Resting, AtRoom, Out, Grouped, AtFront

LEMMA SameQueue ==
    ASSUME UNCHANGED <<writers, group>>, NEW t \in Threads
    PROVE  (InQueue(t)' <=> InQueue(t)) /\ (Member(t)' <=> Member(t))
           /\ (InQueue(group.last)' <=> InQueue(group.last))
  BY Zenon DEF InQueue, Member

LEMMA LeaderQueued ==
    ASSUME WriteInv, SomeLeader PROVE InQueue(group.last)
  BY Zenon DEF WriteInv, GroupOK, SomeLeader, Formed

LEMMA MoveKeepsInv ==
    ASSUME WriteInv, NEW t \in Threads, NEW x \in Resting, pc[t] \in Resting,
           pc' = [pc EXCEPT ![t] = x],
           UNCHANGED <<call, writers, group, tmp_batch>>, SameData, WriteTypeOK',
           \A u \in Threads : writer'[u].done = writer[u].done,
           \A u \in Threads : writer'[u].ok => writer[u].ok \/ call[u].batch = 0,
           PlaceOK(t)', \A i \in DOMAIN writers : writers[i] = t => Waits(i)'
    PROVE  WriteInv'
  <1>1. \A u \in Threads : pc'[u] = IF u = t THEN x ELSE pc[u]
    BY DEF WriteInv, WriteTypeOK
  <1>2. x \notin Grouped /\ x # "idle" /\ pc[t] \notin Grouped /\ pc[t] # "idle"
    BY PlacesDiffer
  <1>3. \A u \in Threads : (InQueue(u)' <=> InQueue(u)) /\ (Member(u)' <=> Member(u))
    BY SameQueue, Zenon
  <1>4. \A u \in Threads : (Leads(u)' <=> Leads(u)) /\ (Leads(u) => pc'[u] = pc[u])
    BY <1>1, <1>2, Zenon DEF Leads
  <1>5. \A u \in Threads : Gone(u)' <=> Gone(u)
    BY <1>1, <1>2, <1>3, Zenon DEF Gone
  <1>6. SomeLeader => InQueue(group.last)'
    BY LeaderQueued, Zenon DEF InQueue
  <1>7. SameGroup
    BY <1>3, <1>4, <1>5, <1>6, Zenon DEF SameGroup
  <1>8. Once'
    BY Zenon DEF WriteInv, WritersOK, Once
  <1>9. \A u \in Threads : PlaceOK(u)'
    <2> TAKE u \in Threads
    <2>1. PlaceOK(u)
      BY Zenon DEF WriteInv, WritersOK
    <2>2. CASE u # t
      BY <1>1, <1>3, <2>1, <2>2, Zenon DEF PlaceOK
    <2> QED
      BY <2>2, Zenon
  <1>10. \A i \in DOMAIN writers : Waits(i)'
    <2> TAKE i \in DOMAIN writers
    <2>1. writers[i] \in Threads
      BY DEF WriteInv, WriteTypeOK
    <2>2. CASE writers[i] # t
      <3>1. Waits(i)
        BY Zenon DEF WriteInv, WritersOK
      <3>2. pc'[writers[i]] = pc[writers[i]] /\ writer'[writers[i]].done = writer[writers[i]].done
        BY <1>1, <2>1, <2>2, Zenon
      <3> QED
        BY <3>1, <3>2, Zenon DEF Waits
    <2> QED
      BY <2>2, Zenon
  <1>11. WritersOK'
    BY <1>8, <1>9, <1>10, Zenon DEF WritersOK
  <1> QED
    BY <1>7, <1>11, SameKeepsInv, Zenon

\* What a step that leaves the threads alone does to the store.
LEMMA StoreStepKeepsInv ==
    ASSUME WriteInv, SameData, WriteTypeOK', UNCHANGED <<call, pc, writer, writers, group, tmp_batch>>
    PROVE  WriteInv'
  <1>1. \A u \in Threads : (InQueue(u)' <=> InQueue(u)) /\ (Member(u)' <=> Member(u))
    BY SameQueue, Zenon
  <1>2. \A u \in Threads : (Leads(u)' <=> Leads(u)) /\ (Gone(u)' <=> Gone(u))
    BY <1>1, Zenon DEF Leads, Gone
  <1>3. SomeLeader => InQueue(group.last)'
    BY LeaderQueued, Zenon DEF InQueue
  <1>4. SameGroup
    BY <1>1, <1>2, <1>3, Zenon DEF SameGroup
  <1>5. WritersOK'
    <2>1. WritersOK
      BY Zenon DEF WriteInv
    <2>2. Once' /\ \A i \in DOMAIN writers : Waits(i)'
      BY <2>1, Zenon DEF WritersOK, Once, Waits
    <2>3. \A u \in Threads : PlaceOK(u)'
      BY <1>1, <2>1, Zenon DEF WritersOK, PlaceOK
    <2> QED
      BY <2>2, <2>3, Zenon DEF WritersOK
  <1> QED
    BY <1>4, <1>5, SameKeepsInv, Zenon

LEMMA SameStore ==
    ASSUME WriteInv, UNCHANGED store PROVE SameData
  BY Zenon DEF SameData, Stored, WriteInv, StoredOK

LEMMA DelayInv ==
    ASSUME WriteInv, NEW t \in Threads,
           Delay(t) \/ Slept(t) \/ WaitForRoom(t) \/ RoomWake(t)
    PROVE  WriteInv'
  <1>1. PICK x \in AtRoom : pc' = [pc EXCEPT ![t] = x]
    BY Zenon DEF Delay, Slept, WaitForRoom, RoomWake, AtRoom
  <1>2. pc[t] \in AtRoom /\ UNCHANGED <<call, writer, writers, group, tmp_batch, store>>
    BY Zenon DEF Delay, Slept, WaitForRoom, RoomWake, NoRoom, InRoom, AtRoom
  <1>3. pc'[t] = x /\ x \in AtFront /\ pc[t] \in AtFront /\ x \in Resting /\ pc[t] \in Resting
    BY <1>1, <1>2 DEF AtRoom, AtFront, Resting, WriteInv, WriteTypeOK
  <1>4. WriteTypeOK'
    BY <1>1, <1>2, <1>3 DEF WriteInv, WriteTypeOK, IsStore
  <1>5. writers[1] = t /\ InQueue(t)
    BY <1>3, FrontIsFirst, Zenon
  <1>6. PlaceOK(t)'
    <2>1. InQueue(t)'
      BY <1>2, <1>5, Zenon DEF InQueue
    <2>2. pc'[t] # "idle" /\ pc'[t] \notin {"imm_check", "imm_wait"}
      BY <1>3 DEF AtFront, Grouped
    <2> QED
      BY <2>1, <2>2, Zenon DEF PlaceOK
  <1>7. ASSUME NEW i \in DOMAIN writers, writers[i] = t PROVE Waits(i)'
    <2>1. Waits(i) /\ pc[writers[i]] # "queue"
      BY <1>2, <1>7 DEF WriteInv, WritersOK, AtRoom
    <2> QED
      BY <1>2, <1>3, <1>7, <2>1, Zenon DEF Waits
  <1>8. SameData
    BY <1>2, SameStore, Zenon
  <1> QED
    BY <1>1, <1>2, <1>3, <1>4, <1>6, <1>7, <1>8, MoveKeepsInv, Zenon

\* What an update of the own Writer changes.
LEMMA SignalSet ==
    ASSUME NEW w \in [Threads -> WriterType], NEW t \in Threads, NEW v, NEW signal \in BOOLEAN,
           v = [w EXCEPT ![t].signal = signal]
    PROVE  v \in [Threads -> WriterType]
           /\ \A u \in Threads : v[u].done = w[u].done /\ v[u].ok = w[u].ok
  BY DEF WriterType

LEMMA OkSet ==
    ASSUME NEW w \in [Threads -> WriterType], NEW t \in Threads, NEW v, NEW ok \in BOOLEAN,
           v = [w EXCEPT ![t].ok = ok]
    PROVE  v \in [Threads -> WriterType]
           /\ \A u \in Threads : v[u].done = w[u].done /\ (u # t => v[u].ok = w[u].ok)
  BY DEF WriterType

LEMMA ReturnedIn ==
    ASSUME WriteInv, NEW t \in Threads, NEW ok
    PROVE  /\ Returned(t, ok) \in Out /\ Returned(t, ok) \in Resting
           /\ Returned(t, ok) # "imm_wait"
           /\ Returned(t, ok) = "imm_check" => call[t].compact
  BY DEF Returned, Out, Resting

LEMMA QueueWakeInv ==
    ASSUME WriteInv, NEW t \in Threads, QueueWake(t) PROVE WriteInv'
  <1>1. writer' = [writer EXCEPT ![t].signal = FALSE] /\ pc[t] = "queue"
        /\ UNCHANGED <<call, writers, room, group, tmp_batch, bg, store>>
    BY Zenon DEF QueueWake
  <1>2. writer \in [Threads -> WriterType]
    BY Zenon DEF WriteInv, WriteTypeOK
  <1>3. writer' \in [Threads -> WriterType]
        /\ \A u \in Threads : writer'[u].done = writer[u].done /\ writer'[u].ok = writer[u].ok
    <2>1. PICK signal \in BOOLEAN : signal = FALSE
      BY Zenon
    <2>2. writer' = [writer EXCEPT ![t].signal = signal]
      BY <1>1, <2>1, Zenon
    <2> QED
      BY <1>2, <2>2, SignalSet
  <1>4. SameData
    BY <1>1, SameStore, Zenon
  <1>5. PICK x \in Resting : pc' = [pc EXCEPT ![t] = x]
    BY ReturnedIn, Zenon DEF QueueWake, Resting, AtRoom
  <1>6. pc'[t] = x /\ pc[t] \in Resting
    BY <1>1, <1>5 DEF WriteInv, WriteTypeOK, Resting
  <1>7. pc' \in [Threads -> {"idle", "queue"} \cup AtFront \cup Out]
    BY <1>5, PlacesDiffer DEF WriteInv, WriteTypeOK
  <1>8. WriteTypeOK'
    BY <1>1, <1>3, <1>7, Zenon DEF WriteInv, WriteTypeOK, IsStore
  <1>9. PlaceOK(t) /\ \A i \in DOMAIN writers : Waits(i)
    BY Zenon DEF WriteInv, WritersOK
  <1>10. PlaceOK(t)' /\ \A i \in DOMAIN writers : writers[i] = t => Waits(i)'
    <2>1. CASE writer[t].done
      <3>1. pc' = [pc EXCEPT ![t] = Returned(t, writer[t].ok)]
        BY <2>1, Zenon DEF QueueWake
      <3>2. x = Returned(t, writer[t].ok)
        BY <1>6, <3>1 DEF WriteInv, WriteTypeOK
      <3>3. x \in Out /\ (x \in {"imm_check", "imm_wait"} => call[t].compact)
        BY <3>2, ReturnedIn, Zenon
      <3>4. x \notin AtFront /\ x # "queue" /\ x # "idle"
        BY <3>3 DEF Out, AtFront, Grouped
      <3>5. PlaceOK(t)'
        BY <1>1, <1>6, <3>3, <3>4, Zenon DEF PlaceOK
      <3>6. \A i \in DOMAIN writers : writers[i] # t
        BY <1>9, <2>1, Zenon DEF Waits
      <3> QED
        BY <3>5, <3>6, Zenon
    <2>2. CASE ~writer[t].done
      <3>1. pc' = [pc EXCEPT ![t] = "room"] /\ Head(writers) = t
        BY <2>2, Zenon DEF QueueWake
      <3>2. x = "room"
        BY <1>6, <3>1 DEF WriteInv, WriteTypeOK
      <3>3. InQueue(t)
        BY <1>1, <1>9, <2>2, Zenon DEF PlaceOK
      <3>4. PlaceOK(t)'
        BY <1>1, <1>6, <3>2, <3>3, Zenon DEF PlaceOK, InQueue
      <3>5. PICK j \in DOMAIN writers : writers[j] = t
        BY <3>3, Zenon DEF InQueue
      <3>6. writers \in Seq(Threads)
        BY Zenon DEF WriteInv, WriteTypeOK
      <3>7. 1 \in DOMAIN writers /\ writers[1] = t
        BY <3>1, <3>5, <3>6
      <3>8. Once
        BY Zenon DEF WriteInv, WritersOK
      <3>9. ASSUME NEW i \in DOMAIN writers, writers[i] = t PROVE Waits(i)'
        <4>1. i = 1
          BY <3>7, <3>8, <3>9, Zenon DEF Once
        <4>2. "room" \in AtFront
          BY DEF AtFront
        <4> QED
          BY <1>1, <1>3, <1>6, <2>2, <3>2, <3>9, <4>1, <4>2, Zenon DEF Waits
      <3> QED
        BY <3>4, <3>9, Zenon
    <2> QED
      BY <2>1, <2>2, Zenon
  <1> QED
    BY <1>1, <1>3, <1>4, <1>5, <1>6, <1>8, <1>10, MoveKeepsInv, Zenon

LEMMA ImmWakeInv ==
    ASSUME WriteInv, NEW t \in Threads, ImmWake(t) PROVE WriteInv'
  <1>1. pc[t] \in {"imm_check", "imm_wait"} /\ UNCHANGED <<call, writers, group, tmp_batch, store>>
    BY Zenon DEF ImmWake
  <1>2. PICK x \in {"imm_wait", "done"} : pc' = [pc EXCEPT ![t] = x]
    BY Zenon DEF ImmWake
  <1>3. x \in Resting /\ pc[t] \in Resting /\ x \in Out /\ x \notin AtFront /\ x # "idle" /\ x # "queue"
    BY <1>1, <1>2 DEF Resting, Out, AtFront, Grouped
  <1>4. pc'[t] = x
    BY <1>2 DEF WriteInv, WriteTypeOK
  <1>5. writer \in [Threads -> WriterType]
    BY Zenon DEF WriteInv, WriteTypeOK
  <1>6. writer' \in [Threads -> WriterType]
        /\ \A u \in Threads : writer'[u].done = writer[u].done /\ (u # t => writer'[u].ok = writer[u].ok)
    <2>1. CASE UNCHANGED writer
      BY <1>5, <2>1
    <2>2. CASE writer' = [writer EXCEPT ![t].ok = ~store.has_imm]
      <3>1. PICK ok \in BOOLEAN : ok = ~store.has_imm
        BY Zenon
      <3>2. writer' = [writer EXCEPT ![t].ok = ok]
        BY <2>2, <3>1, Zenon
      <3> QED
        BY <1>5, <3>2, OkSet
    <2> QED
      BY <2>1, <2>2, Zenon DEF ImmWake
  <1>7. call[t].compact /\ call[t].batch = 0
    <2>1. call[t].compact
      BY <1>1, Zenon DEF WriteInv, WritersOK, PlaceOK
    <2> QED
      BY <2>1, Zenon DEF WriteInv, WriteTypeOK
  <1>8. pc' \in [Threads -> {"idle", "queue"} \cup AtFront \cup Out]
    BY <1>2, <1>3, PlacesDiffer DEF WriteInv, WriteTypeOK
  <1>9. WriteTypeOK'
    BY <1>1, <1>6, <1>8, Zenon DEF WriteInv, WriteTypeOK, IsStore
  <1>10. PlaceOK(t)'
    BY <1>1, <1>3, <1>4, <1>7, Zenon DEF PlaceOK
  <1>11. \A i \in DOMAIN writers : writers[i] # t
    <2>1. pc[t] # "queue" /\ pc[t] \notin AtFront
      BY <1>1 DEF AtFront, Grouped
    <2> QED
      BY <2>1, Zenon DEF WriteInv, WritersOK, Waits
  <1>12. SameData
    BY <1>1, SameStore, Zenon
  <1> QED
    BY <1>1, <1>2, <1>3, <1>6, <1>7, <1>9, <1>10, <1>11, <1>12, MoveKeepsInv, Zenon

LEMMA StoreTyped == ASSUME WriteInv PROVE IsStore(store) /\ (~store.has_imm => store.imm = {})
  BY Zenon DEF WriteInv, WriteTypeOK, StoredOK

\* As long as the rest of the types is the same.
LEMMA StoreRetyped ==
    ASSUME WriteInv, IsStore(store'), UNCHANGED <<call, pc, writer, writers, group, tmp_batch>>
    PROVE  WriteTypeOK'
  BY Zenon DEF WriteInv, WriteTypeOK, IsStore

LEMMA SwitchMemTableInv ==
    ASSUME WriteInv, NEW t \in Threads, SwitchMemTable(t) PROVE WriteInv'
  <1>1. UNCHANGED <<call, pc, mutex, writer, writers, group, tmp_batch>> /\ ~store.has_imm
    BY Zenon DEF SwitchMemTable
  <1>2. PICK h \in BOOLEAN : h = TRUE
    BY Zenon
  <1>3. store' = [store EXCEPT !.imm = store.mem, !.has_imm = h, !.mem = {}]
    BY <1>2, Zenon DEF SwitchMemTable
  <1>4. /\ IsStore(store')
        /\ store'.log = store.log /\ store'.synced = store.synced
        /\ store'.last_sequence = store.last_sequence
        /\ store'.mem = {} /\ store'.imm = store.mem /\ store'.tables = store.tables
        /\ store'.has_imm = h
    BY <1>3, StoreTyped DEF IsStore
  <1>5. SameData
    <2>1. store.imm = {}
      BY <1>1, StoreTyped, Zenon
    <2>2. Stored' = Stored
      BY <1>4, <2>1 DEF Stored
    <2> QED
      BY <1>2, <1>4, <2>2, Zenon DEF SameData
  <1> QED
    BY <1>1, <1>4, <1>5, StoreRetyped, StoreStepKeepsInv, Zenon

LEMMA FlushedInv ==
    ASSUME WriteInv, NEW ok \in BOOLEAN, Flushed(ok) PROVE WriteInv'
  <1>1. UNCHANGED <<call, pc, mutex, writer, writers, group, tmp_batch>>
    BY Zenon DEF Flushed, bgUnchanged
  <1>2. CASE UNCHANGED store
    BY <1>1, <1>2, SameStore, StoreTyped, StoreRetyped, StoreStepKeepsInv, Zenon DEF IsStore
  <1>3. CASE \E level0 \in {0, 1} : store' =
                [store EXCEPT !.tables = @ \cup store.imm, !.imm = {}, !.has_imm = FALSE,
                              !.level0 = @ + (IF store.imm = {} THEN 0 ELSE level0)]
    <2>. PICK h \in BOOLEAN : h = FALSE
      BY Zenon
    <2>. PICK n :
           store' = [store EXCEPT !.tables = @ \cup store.imm, !.imm = {}, !.has_imm = h,
                                  !.level0 = @ + n]
      BY <1>3, Zenon
    <2>2. /\ IsStore(store')
          /\ store'.log = store.log /\ store'.synced = store.synced
          /\ store'.last_sequence = store.last_sequence
          /\ store'.mem = store.mem /\ store'.imm = {}
          /\ store'.tables = store.tables \cup store.imm
      BY StoreTyped DEF IsStore
    <2>3. Stored' = Stored
      BY <2>2 DEF Stored
    <2>4. SameData
      BY <2>2, <2>3, Zenon DEF SameData
    <2> QED
      BY <1>1, <2>2, <2>4, StoreRetyped, StoreStepKeepsInv, Zenon
  <1> QED
    BY <1>2, <1>3, Zenon DEF Flushed

LEMMA BackgroundInv ==
    ASSUME WriteInv, Background \/ Close \/ Closed PROVE WriteInv'
  <1>1. CASE \E ok \in BOOLEAN : Flushed(ok)
    BY <1>1, FlushedInv, Zenon
  <1>2. CASE \E ok \in BOOLEAN : Merged(ok)
    <2>1. UNCHANGED <<call, pc, mutex, writer, writers, group, tmp_batch>>
      BY <1>2, Zenon DEF Merged, bgUnchanged
    <2>2. store' = store \/ store' = [store EXCEPT !.level0 = @ - bg.inputs]
      BY <1>2, Zenon DEF Merged
    <2>3. /\ IsStore(store')
          /\ store'.log = store.log /\ store'.synced = store.synced
          /\ store'.last_sequence = store.last_sequence
          /\ store'.mem = store.mem /\ store'.imm = store.imm /\ store'.tables = store.tables
          /\ store'.has_imm = store.has_imm
      <3>1. CASE store' = store
        BY <3>1, StoreTyped, Zenon DEF IsStore
      <3>2. CASE store' = [store EXCEPT !.level0 = @ - bg.inputs]
        BY <3>2, StoreTyped DEF IsStore
      <3> QED
        BY <2>2, <3>1, <3>2, Zenon
    <2>4. SameData
      BY <2>3, StoreTyped, Zenon DEF SameData, Stored
    <2> QED
      BY <2>1, <2>3, <2>4, StoreRetyped, StoreStepKeepsInv, Zenon
  <1>3. CASE BackgroundCall \/ NestedFlush \/ Close \/ Closed
    <2>1. UNCHANGED <<call, pc, mutex, writer, writers, group, tmp_batch, store>>
      BY <1>3, Zenon DEF BackgroundCall, NestedFlush, Close, Closed, bgUnchanged
    <2> QED
      BY <2>1, SameStore, StoreTyped, StoreRetyped, StoreStepKeepsInv, Zenon DEF IsStore
  <1> QED
    BY <1>1, <1>2, <1>3, Zenon DEF Background

-----------------------------------------------------------------------------
\* A thread enters the queue.

LEMMA Appended ==
    ASSUME NEW S, NEW q \in Seq(S), NEW t \in S, NEW p, p = Append(q, t)
    PROVE  /\ p \in Seq(S) /\ Len(q) \in Nat /\ DOMAIN q = 1 .. Len(q)
           /\ DOMAIN p = DOMAIN q \cup {Len(q) + 1} /\ (Len(q) + 1) \notin DOMAIN q
           /\ (\A i \in DOMAIN q : p[i] = q[i]) /\ p[Len(q) + 1] = t
           /\ (q = <<>> => Len(q) + 1 = 1) /\ Len(p) = Len(q) + 1 /\ p # <<>>
  OBVIOUS

LEMMA WriteActionInv ==
    ASSUME WriteInv, NEW t \in Threads, Write(t) PROVE WriteInv'
  <1> DEFINE last == Len(writers) + 1
  <1>1. UNCHANGED <<call, writer, group, tmp_batch, bg, store>> /\ pc[t] = "idle"
        /\ writers' = Append(writers, t)
    BY Zenon DEF Write
  <1>2. PICK x \in {"room", "queue"} :
            pc' = [pc EXCEPT ![t] = x] /\ (x = "room" => writers = <<>>)
    BY Zenon DEF Write
  <1>3. \A u \in Threads : pc'[u] = IF u = t THEN x ELSE pc[u]
    BY <1>2 DEF WriteInv, WriteTypeOK
  <1>4. writers \in Seq(Threads)
    BY Zenon DEF WriteInv, WriteTypeOK
  <1>5. /\ writers' \in Seq(Threads) /\ Len(writers) \in Nat /\ DOMAIN writers = 1 .. Len(writers)
        /\ DOMAIN writers' = DOMAIN writers \cup {last} /\ last \notin DOMAIN writers
        /\ (\A i \in DOMAIN writers : writers'[i] = writers[i]) /\ writers'[last] = t
        /\ (writers = <<>> => last = 1)
    BY <1>1, <1>4, Appended
  <1> HIDE DEF last
  <1>6. \A i \in DOMAIN writers : writers[i] # t /\ writers[i] \in Threads
    <2> TAKE i \in DOMAIN writers
    <2>1. Waits(i)
      BY Zenon DEF WriteInv, WritersOK
    <2>2. "idle" # "queue" /\ "idle" \notin AtFront
      BY DEF AtFront, Grouped
    <2> QED
      BY <1>1, <1>4, <2>1, <2>2 DEF Waits
  <1>7. x \notin Grouped /\ pc[t] \notin Grouped /\ x # "idle" /\ x \notin {"imm_check", "imm_wait"}
        /\ (x = "room" => x \in AtFront) /\ x \in {"idle", "queue"} \cup AtFront \cup Out
    BY <1>1, <1>2 DEF Grouped, AtFront
  <1>8. \A u \in Threads : InQueue(u)' <=> (InQueue(u) \/ u = t)
    BY <1>5, Zenon DEF InQueue
  <1>9. \A u \in Threads : (Leads(u)' <=> Leads(u)) /\ (Leads(u) => pc'[u] = pc[u])
    BY <1>3, <1>7, Zenon DEF Leads
  <1>10. \A u \in Threads : Gone(u)' <=> Gone(u)
    BY <1>1, <1>3, <1>7, <1>8, Zenon DEF Gone
  <1>11. ASSUME SomeLeader
         PROVE  InQueue(group.last)' /\ \A m \in Threads : Member(m)' <=> Member(m)
    <2>1. PICK n \in DOMAIN writers : writers[n] = group.last
      BY <1>11, LeaderQueued, Zenon DEF InQueue
    <2>2. group.last # t
      BY <1>6, <2>1, Zenon
    <2>3. \A j \in DOMAIN writers' : writers'[j] = group.last => j \in DOMAIN writers
      BY <1>5, <2>2, Zenon
    <2>4. ASSUME NEW m \in Threads, Member(m)' PROVE Member(m)
      <3>1. PICK i, j \in DOMAIN writers' : i <= j /\ writers'[i] = m /\ writers'[j] = group.last
        BY <1>1, <2>4, Zenon DEF Member
      <3>2. j \in DOMAIN writers
        BY <2>3, <3>1, Zenon
      <3>3. i \in DOMAIN writers
        <4>1. last = Len(writers) + 1
          BY DEF last
        <4> QED
          BY <1>5, <3>1, <3>2, <4>1
      <3> QED
        BY <1>5, <3>1, <3>2, <3>3, Zenon DEF Member
    <2>5. ASSUME NEW m \in Threads, Member(m) PROVE Member(m)'
      <3>1. PICK i, j \in DOMAIN writers : i <= j /\ writers[i] = m /\ writers[j] = group.last
        BY <2>5, Zenon DEF Member
      <3>2. i \in DOMAIN writers' /\ j \in DOMAIN writers' /\ writers'[i] = m
            /\ writers'[j] = group.last /\ group' = group
        BY <1>1, <1>5, <3>1, Zenon
      <3> QED
        BY <3>1, <3>2, Zenon DEF Member
    <2>6. InQueue(group.last)'
      BY <1>1, <1>5, <2>1, Zenon DEF InQueue
    <2> QED
      BY <2>4, <2>5, <2>6, Zenon
  <1>12. SameGroup
    BY <1>1, <1>9, <1>10, <1>11, Zenon DEF SameGroup
  <1>13. SameData
    BY <1>1, SameStore, Zenon
  <1>14. WriteTypeOK'
    <2>1. pc' \in [Threads -> {"idle", "queue"} \cup AtFront \cup Out]
      BY <1>2, <1>7 DEF WriteInv, WriteTypeOK
    <2> QED
      BY <1>1, <1>5, <2>1, Zenon DEF WriteInv, WriteTypeOK, IsStore
  <1>15. Once'
    <2>1. Once
      BY Zenon DEF WriteInv, WritersOK
    <2> QED
      BY <1>5, <1>6, <2>1, Zenon DEF Once
  <1>16. \A i \in DOMAIN writers' : Waits(i)'
    <2> TAKE i \in DOMAIN writers'
    <2>1. CASE i \in DOMAIN writers
      <3>1. Waits(i)
        BY <2>1, Zenon DEF WriteInv, WritersOK
      <3>2. writers'[i] = writers[i] /\ writers[i] \in Threads /\ writers[i] # t
        BY <1>5, <1>6, <2>1, Zenon
      <3>3. pc'[writers'[i]] = pc[writers[i]] /\ writer'[writers'[i]].done = writer[writers[i]].done
        BY <1>1, <1>3, <3>2, Zenon
      <3> QED
        BY <3>1, <3>2, <3>3, Zenon DEF Waits
    <2>2. CASE i = last
      <3>1. ~writer[t].done
        BY <1>1, Zenon DEF WriteInv, WritersOK, PlaceOK
      <3>2. pc'[t] = x
        BY <1>3, Zenon
      <3>3. x = "queue" \/ (i = 1 /\ x \in AtFront)
        BY <1>2, <1>5, <1>7, <2>2, Zenon
      <3> QED
        BY <1>1, <1>5, <2>2, <3>1, <3>2, <3>3, Zenon DEF Waits
    <2> QED
      BY <1>5, <2>1, <2>2, Zenon
  <1>17. \A u \in Threads : PlaceOK(u)'
    <2> TAKE u \in Threads
    <2>1. PlaceOK(u)
      BY Zenon DEF WriteInv, WritersOK
    <2>2. CASE u = t
      BY <1>3, <1>7, <1>8, <2>2, Zenon DEF PlaceOK
    <2>3. CASE u # t
      BY <1>1, <1>3, <1>8, <2>1, <2>3, Zenon DEF PlaceOK
    <2> QED
      BY <2>2, <2>3, Zenon
  <1> QED
    BY <1>12, <1>13, <1>14, <1>15, <1>16, <1>17, SameKeepsInv, Zenon DEF WritersOK

-----------------------------------------------------------------------------
\* Threads leave the queue.

LEMMA QueueCut ==
    ASSUME NEW q \in Seq(Threads), NEW n \in DOMAIN q, NEW p, p = SubSeq(q, n + 1, Len(q))
    PROVE  /\ p \in Seq(Threads)
           /\ \A i \in DOMAIN p : i + n \in DOMAIN q /\ p[i] = q[i + n] /\ i + n > n /\ i + n > 1
           /\ \A j \in DOMAIN q : j > n => j - n \in DOMAIN p /\ p[j - n] = q[j]
  BY SMTT(30)

LEMMA WriterDone ==
    ASSUME NEW ok \in BOOLEAN, NEW v, v = [done |-> TRUE, ok |-> ok, signal |-> TRUE]
    PROVE  v \in WriterType /\ v.done = TRUE /\ v.ok = ok
  BY DEF WriterType

\* Where a writer is, and who is in front of it or is it.
Position(last) == CHOOSE i \in DOMAIN writers : writers[i] = last
Taken(last, u) == \E i \in DOMAIN writers : i <= Position(last) /\ writers[i] = u

LEMMA PositionIn ==
    ASSUME NEW last, InQueue(last)
    PROVE  Position(last) \in DOMAIN writers /\ writers[Position(last)] = last
  BY Zenon DEF InQueue, Position

LEMMA MembersAreTaken ==
    ASSUME WriteInv, InQueue(group.last), NEW u
    PROVE  Member(u) <=> Taken(group.last, u)
  <1>1. \A n \in DOMAIN writers : writers[n] = group.last => n = Position(group.last)
    BY PositionIn, Zenon DEF WriteInv, WritersOK, Once
  <1> QED
    BY <1>1, PositionIn, Zenon DEF Member, Taken

\* What they find in their Writer.
Told(t, last, ok) ==
    /\ writer' \in [Threads -> WriterType]
    /\ \A u \in Threads : Taken(last, u) => writer'[u].ok = ok /\ (u # t => writer'[u].done = TRUE)
    /\ \A u \in Threads : ~Taken(last, u) => writer'[u].ok = writer[u].ok
                                             /\ writer'[u].done = writer[u].done
    /\ writer'[t].done = writer[t].done

LEMMA LeftWriters ==
    ASSUME WriteInv, NEW t \in Threads, NEW last, NEW ok \in BOOLEAN, pc[t] \in AtFront,
           InQueue(last), LeaveQueue(t, last, ok)
    PROVE  Told(t, last, ok)
  <1> DEFINE n == Position(last)
             taken == {writers[i] : i \in 2 .. n}
             head == {writers[i] : i \in {n + 1} \cap DOMAIN writers}
  <1>1. writer' = [w \in Threads |->
               IF w \in taken THEN [done |-> TRUE, ok |-> ok, signal |-> TRUE]
               ELSE [writer[w] EXCEPT !.ok = IF w = t THEN ok ELSE @, !.signal = @ \/ w \in head]]
    BY Zenon DEF LeaveQueue, Position
  <1>2. n \in DOMAIN writers /\ 1 \in DOMAIN writers /\ writers[1] = t
    BY PositionIn, FrontIsFirst, Zenon
  <1>3. writers \in Seq(Threads) /\ writer \in [Threads -> WriterType]
    BY Zenon DEF WriteInv, WriteTypeOK
  <1> HIDE DEF n
  <1>4. \A u : u \in taken <=> \E i \in 2 .. n : writers[i] = u
    BY Zenon
  <1>5. \A i : i \in DOMAIN writers /\ i <= n => i = 1 \/ i \in 2 .. n
    BY <1>2, <1>3
  <1>6. \A i : i \in 2 .. n => i \in DOMAIN writers /\ i <= n /\ i # 1
    BY <1>2, <1>3
  <1>7. 1 <= n
    BY <1>2, <1>3
  <1>8. \A u \in Threads : Taken(last, u) <=> (u \in taken \/ u = t)
    BY <1>2, <1>4, <1>5, <1>6, <1>7, Zenon DEF Taken, n
  <1>9. t \notin taken
    <2> SUFFICES ASSUME t \in taken PROVE FALSE
      OBVIOUS
    <2>1. PICK i \in 2 .. n : writers[i] = t
      BY <1>4, Zenon
    <2>2. Once
      BY Zenon DEF WriteInv, WritersOK
    <2> QED
      BY <1>2, <1>6, <2>1, <2>2, Zenon DEF Once
  <1> HIDE DEF taken, head
  <1>10. ASSUME NEW u \in taken, u \in Threads
         PROVE  writer'[u] \in WriterType /\ writer'[u].done = TRUE /\ writer'[u].ok = ok
    <2>1. writer'[u] = [done |-> TRUE, ok |-> ok, signal |-> TRUE]
      BY <1>1, <1>10, Zenon
    <2> QED
      BY <2>1, WriterDone
  <1>11. ASSUME NEW u \in Threads, u \notin taken
         PROVE  writer'[u] \in WriterType /\ writer'[u].done = writer[u].done
                /\ writer'[u].ok = IF u = t THEN ok ELSE writer[u].ok
    <2> DEFINE o == IF u = t THEN ok ELSE writer[u].ok
               s == writer[u].signal \/ u \in head
    <2>1. writer'[u] = [writer[u] EXCEPT !.ok = o, !.signal = s]
      BY <1>1, <1>11, Zenon
    <2>2. writer[u] \in WriterType
      BY <1>3
    <2>3. o \in BOOLEAN
      BY <2>2 DEF WriterType
    <2>4. s \in BOOLEAN
      BY Zenon
    <2> HIDE DEF o, s
    <2>5. writer'[u] \in WriterType /\ writer'[u].done = writer[u].done /\ writer'[u].ok = o
      BY <2>1, <2>2, <2>3, <2>4 DEF WriterType
    <2> QED
      BY <2>5 DEF o
  <1>12. writer' \in [Threads -> WriterType]
    <2>1. \A u \in Threads : writer'[u] \in WriterType
      BY <1>10, <1>11, Zenon
    <2>2. writer' = [u \in Threads |-> writer'[u]]
      BY <1>1
    <2> QED
      BY <2>1, <2>2
  <1> QED
    BY <1>8, <1>9, <1>10, <1>11, <1>12, Zenon DEF Told

\* Everyone up to last is gone; nobody leads any more.
Left(t, last) ==
    /\ writers' \in Seq(Threads)
    /\ pc' \in [Threads -> {"idle", "queue"} \cup AtFront \cup Out]
    /\ \A u \in Threads : Taken(last, u) => InQueue(u)
    /\ Taken(last, t)
    /\ \A u \in Threads : Gone(u)' <=> (Gone(u) \/ Taken(last, u))
    /\ \A u \in Threads : ~Leads(u)'
    /\ WritersOK'

LEMMA LeftQueue ==
    ASSUME WriteInv, NEW t \in Threads, NEW last, NEW ok \in BOOLEAN, pc[t] \in AtFront,
           InQueue(last), LeaveQueue(t, last, ok), UNCHANGED call
    PROVE  Left(t, last)
  <1> DEFINE n == Position(last)
             x == Returned(t, ok)
  <1>1. pc' = [pc EXCEPT ![t] = x] /\ writers' = SubSeq(writers, n + 1, Len(writers))
    BY Zenon DEF LeaveQueue, Position
  <1>2. n \in DOMAIN writers /\ 1 \in DOMAIN writers /\ writers[1] = t
        /\ \A u \in Threads : pc[u] \in AtFront => u = t
    BY PositionIn, FrontIsFirst, Zenon
  <1>3. writers \in Seq(Threads)
    BY Zenon DEF WriteInv, WriteTypeOK
  <1>4. x \in Out /\ x \in Resting /\ (x \in {"imm_check", "imm_wait"} => call[t].compact)
    BY ReturnedIn, Zenon
  <1>5. x \notin AtFront /\ x # "queue" /\ x # "idle" /\ x \notin Grouped
    BY <1>4 DEF Out, AtFront, Grouped
  <1> HIDE DEF n, x
  <1>6. \A u \in Threads : pc'[u] = IF u = t THEN x ELSE pc[u]
    BY <1>1 DEF WriteInv, WriteTypeOK
  <1>7. pc' \in [Threads -> {"idle", "queue"} \cup AtFront \cup Out]
    BY <1>1, <1>4, PlacesDiffer DEF WriteInv, WriteTypeOK
  <1>8. /\ writers' \in Seq(Threads)
        /\ \A i \in DOMAIN writers' : i + n \in DOMAIN writers /\ writers'[i] = writers[i + n]
                                      /\ i + n > n /\ i + n > 1
        /\ \A j \in DOMAIN writers : j > n => j - n \in DOMAIN writers' /\ writers'[j - n] = writers[j]
    BY <1>1, <1>2, <1>3, QueueCut
  <1>9. \A i, j \in DOMAIN writers : /\ (i <= j <=> ~(i > j))
                                     /\ i > 1 => i # 1
    BY <1>3
  <1>10. Once
    BY Zenon DEF WriteInv, WritersOK
  <1>11. \A u \in Threads : Taken(last, u) => InQueue(u)
    BY Zenon DEF Taken, InQueue
  <1>12. Taken(last, t)
    <2>1. 1 <= n
      BY <1>2, <1>3
    <2> QED
      BY <1>2, <2>1, Zenon DEF Taken, n
  <1>13. \A i \in DOMAIN writers : i > n => ~Taken(last, writers[i])
    BY <1>2, <1>9, <1>10, Zenon DEF Taken, Once, n
  <1>14. ASSUME NEW u \in Threads PROVE InQueue(u)' <=> (InQueue(u) /\ ~Taken(last, u))
    <2>1. ASSUME InQueue(u)' PROVE InQueue(u) /\ ~Taken(last, u)
      BY <1>8, <1>13, <2>1, Zenon DEF InQueue
    <2>2. ASSUME InQueue(u), ~Taken(last, u) PROVE InQueue(u)'
      <3>1. PICK j \in DOMAIN writers : writers[j] = u
        BY <2>2, Zenon DEF InQueue
      <3>2. j > n
        BY <1>2, <1>9, <2>2, <3>1, Zenon DEF Taken, n
      <3> QED
        BY <1>8, <3>1, <3>2, Zenon DEF InQueue
    <2> QED
      BY <2>1, <2>2, Zenon
  <1>15. \A i \in DOMAIN writers : Waits(i)
    BY Zenon DEF WriteInv, WritersOK
  <1>16. \A u \in Threads : Gone(u)' <=> (Gone(u) \/ Taken(last, u))
    <2> TAKE u \in Threads
    <2>1. ASSUME InQueue(u) PROVE pc[u] # "idle"
      <3>1. "idle" # "queue" /\ "idle" \notin AtFront
        BY DEF AtFront, Grouped
      <3> QED
        BY <1>15, <2>1, <3>1, Zenon DEF InQueue, Waits
    <2>2. pc'[u] = "idle" <=> pc[u] = "idle"
      <3>1. t \in Threads /\ InQueue(t)
        BY <1>11, <1>12, Zenon
      <3>2. pc[t] # "idle"
        BY DEF AtFront, Grouped
      <3> QED
        BY <1>5, <1>6, <3>2, Zenon
    <2> QED
      BY <1>11, <1>14, <2>1, <2>2, Zenon DEF Gone
  <1>17. \A u \in Threads : ~Leads(u)'
    BY <1>2, <1>5, <1>6, LeaderIsFirst, Zenon DEF Leads
  <1>21. \A u \in Threads :
            /\ Taken(last, u) /\ u # t => writer'[u].done = TRUE
            /\ ~Taken(last, u) => writer'[u].done = writer[u].done
    <2>1. Told(t, last, ok)
      BY LeftWriters, Zenon
    <2> QED
      BY <2>1, Zenon DEF Told
  <1>18. Once'
    <2> SUFFICES ASSUME NEW i \in DOMAIN writers', NEW j \in DOMAIN writers', writers'[i] = writers'[j]
                 PROVE  i = j
      BY Zenon DEF Once
    <2>1. i + n = j + n
      BY <1>8, <1>10, Zenon DEF Once
    <2> QED
      BY <1>2, <1>3, <1>8, <2>1
  <1>19. \A i \in DOMAIN writers' : Waits(i)'
    <2> TAKE i \in DOMAIN writers'
    <2>1. i + n \in DOMAIN writers /\ writers'[i] = writers[i + n] /\ i + n > n /\ i + n # 1
      BY <1>2, <1>8, <1>9, Zenon
    <2> DEFINE u == writers[i + n]
    <2>2. u \in Threads
      BY <1>3, <2>1
    <2>3. ~writer[u].done /\ pc[u] = "queue" /\ ~Taken(last, u)
      BY <1>13, <1>15, <2>1, Zenon DEF Waits
    <2>4. pc'[u] = "queue"
      <3>1. "queue" \notin AtFront
        BY DEF AtFront, Grouped
      <3> QED
        BY <1>6, <2>2, <2>3, <3>1, Zenon
    <2>5. ~writer'[u].done
      BY <1>21, <2>2, <2>3, Zenon
    <2> QED
      BY <2>1, <2>4, <2>5, Zenon DEF Waits
  <1>20. \A u \in Threads : PlaceOK(u)'
    <2> TAKE u \in Threads
    <2>1. PlaceOK(u)
      BY Zenon DEF WriteInv, WritersOK
    <2>2. CASE u = t
      BY <1>4, <1>5, <1>6, <2>2, Zenon DEF PlaceOK
    <2>3. CASE u # t
      <3>1. pc'[u] = pc[u] /\ pc[u] \notin AtFront
        BY <1>2, <1>6, <2>3, Zenon
      <3>2. CASE Taken(last, u)
        <4>1. pc[u] = "queue"
          <5>1. PICK i \in DOMAIN writers : writers[i] = u
            BY <1>11, <3>2, Zenon DEF InQueue
          <5>2. Waits(i)
            BY <1>15, Zenon
          <5> QED
            BY <3>1, <5>1, <5>2, Zenon DEF Waits
        <4>2. writer'[u].done = TRUE
          BY <1>21, <2>3, <3>2, Zenon
        <4> QED
          BY <3>1, <4>1, <4>2, Zenon DEF PlaceOK
      <3>3. CASE ~Taken(last, u)
        <4>1. writer'[u].done = writer[u].done
          BY <1>21, <3>3, Zenon
        <4> QED
          BY <1>14, <2>1, <3>1, <3>3, <4>1, Zenon DEF PlaceOK
      <3> QED
        BY <3>2, <3>3
    <2> QED
      BY <2>2, <2>3
  <1> QED
    BY <1>7, <1>8, <1>11, <1>12, <1>16, <1>17, <1>18, <1>19, <1>20, Zenon DEF WritersOK, Left

LEMMA LeaveAloneInv ==
    ASSUME WriteInv, NEW t \in Threads, NEW ok \in BOOLEAN, pc[t] = "room", ok => call[t].batch = 0,
           LeaveQueue(t, t, ok), UNCHANGED <<call, group, tmp_batch, store>>
    PROVE  WriteInv'
  <1>1. pc[t] \in AtFront /\ pc[t] \notin Grouped
    BY DEF AtFront, Grouped
  <1>2. writers[1] = t /\ 1 \in DOMAIN writers /\ InQueue(t)
        /\ \A u \in Threads : pc[u] \in AtFront => u = t
    BY <1>1, FrontIsFirst, Zenon
  <1>3. Told(t, t, ok)
    BY <1>1, <1>2, LeftWriters, Zenon
  <1>4. Left(t, t)
    BY <1>1, <1>2, LeftQueue, Zenon
  <1>5. \A u \in Threads : Taken(t, u) <=> u = t
    <2>1. Position(t) = 1
      BY <1>2, PositionIn, Zenon DEF WriteInv, WritersOK, Once
    <2>2. \A i \in DOMAIN writers : i <= 1 <=> i = 1
      BY DEF WriteInv, WriteTypeOK
    <2> QED
      BY <1>2, <2>1, <2>2, Zenon DEF Taken
  <1>6. ~SomeLeader
    BY <1>1, <1>2, Zenon DEF SomeLeader, Leads, AtFront
  <1>7. \A u \in Threads : Leads(u)' <=> Leads(u)
    BY <1>4, <1>6, Zenon DEF SomeLeader, Left
  <1>8. \A u \in Threads : Gone(u) => Gone(u)'
    BY <1>4, Zenon DEF Left
  <1>9. ASSUME NEW u \in Threads, Gone(u)' /\ writer'[u].ok
        PROVE  (Gone(u) /\ writer[u].ok) \/ call[u].batch = 0
    <2>1. CASE u = t
      <3>1. writer'[t].ok = ok
        BY <1>3, <1>5, Zenon DEF Told
      <3> QED
        BY <1>9, <2>1, <3>1, Zenon
    <2>2. CASE u # t
      <3>1. writer'[u].ok = writer[u].ok
        BY <1>3, <1>5, <2>2, Zenon DEF Told
      <3> QED
        BY <1>4, <1>5, <1>9, <2>2, <3>1, Zenon DEF Left
    <2> QED
      BY <2>1, <2>2
  <1>10. SameGroup
    BY <1>6, <1>7, <1>8, <1>9, Zenon DEF SameGroup, SomeLeader
  <1>11. WriteTypeOK'
    BY <1>3, <1>4, Zenon DEF WriteInv, WriteTypeOK, IsStore, Told, Left
  <1> QED
    BY <1>4, <1>10, <1>11, SameStore, SameKeepsInv, Zenon DEF Left

LEMMA NoRoomErrorInv ==
    ASSUME WriteInv, NEW t \in Threads, NoRoomError(t) PROVE WriteInv'
  <1>1. pc[t] = "room" /\ LeaveQueue(t, t, FALSE) /\ UNCHANGED <<call, group, tmp_batch, store>>
    BY Zenon DEF NoRoomError
  <1>2. PICK ok \in BOOLEAN : ok = FALSE
    BY Zenon
  <1>3. LeaveQueue(t, t, ok)
    BY <1>1, <1>2, Zenon
  <1> QED
    BY <1>1, <1>2, <1>3, LeaveAloneInv, Zenon

-----------------------------------------------------------------------------
\* How many writers a group has.

LEMMA LeastOf ==
    ASSUME NEW S, S \subseteq Nat, S # {} PROVE \E m \in S : \A x \in S : m <= x
  <1> DEFINE less == OpToRel(<, Nat)
  <1>1. \A x, y \in Nat : <<x, y>> \in less <=> x < y
    BY DEF OpToRel
  <1>2. IsWellFoundedOn(less, Nat)
    BY NatLessThanWellFounded, Zenon
  <1> HIDE DEF less
  <1>3. PICK m \in S : \A x \in S : ~(<<x, m>> \in less)
    BY <1>2, WFMin
  <1>4. ASSUME NEW x \in S PROVE m <= x
    <2>1. x \in Nat /\ m \in Nat
      OBVIOUS
    <2>2. ~(x < m)
      BY <1>1, <1>3, <2>1
    <2> QED
      BY <2>1, <2>2
  <1> QED
    BY <1>4

LEMMA GreatestOf ==
    ASSUME NEW S, NEW b \in Nat, S \subseteq 1 .. b, S # {} PROVE Max(S) \in S
  <1> DEFINE U == {u \in Nat : \A x \in S : x <= u}
  <1>1. b \in U
    OBVIOUS
  <1>2. PICK u \in U : \A v \in U : u <= v
    <2>1. U \subseteq Nat /\ U # {}
      BY <1>1
    <2> HIDE DEF U
    <2> QED
      BY <2>1, LeastOf
  <1>3. u \in S
    <2> SUFFICES ASSUME u \notin S PROVE FALSE
      OBVIOUS
    <2>1. \A x \in S : x <= u - 1 /\ x >= 1
      OBVIOUS
    <2>2. u - 1 \in Nat
      <3>1. PICK x \in S : TRUE
        OBVIOUS
      <3> QED
        BY <2>1, <3>1
    <2>3. u - 1 \in U
      BY <2>1, <2>2
    <2> QED
      BY <1>2, <2>3
  <1>4. \A y \in S : u >= y
    BY <1>2
  <1> QED
    BY <1>3, <1>4, Zenon DEF Max

\* Those that join have no need of a sync that the front one does not make.
LEMMA GroupSizeIn ==
    ASSUME WriteInv, 1 \in DOMAIN writers
    PROVE  GroupSize \in DOMAIN writers
           /\ \A i \in 2 .. GroupSize : ~NeedsOwnSync(writers[1], writers[i])
  <1> DEFINE first == writers[1]
             size(n) == FoldLeft(LAMBDA sum, t : sum + call[t].batch, 0, SubSeq(writers, 1, n))
             max_size == IF size(1) <= SmallBatch THEN size(1) + SmallBatch ELSE MaxBatch
             joins(i) == /\ ~NeedsOwnSync(first, writers[i])
                         /\ call[writers[i]].compact \/ size(i) <= max_size
             J == {n \in DOMAIN writers : \A i \in 2 .. n : joins(i)}
  <1>1. GroupSize = Max(J)
    BY DEF GroupSize
  <1> HIDE DEF size, max_size
  <1>2. J \subseteq 1 .. Len(writers) /\ Len(writers) \in Nat
    BY DEF WriteInv, WriteTypeOK
  <1>3. J # {}
    <2>1. 2 .. 1 = {}
      OBVIOUS
    <2> QED
      BY <2>1, Zenon
  <1> HIDE DEF J
  <1>4. Max(J) \in J
    BY <1>2, <1>3, GreatestOf, Zenon
  <1> QED
    BY <1>1, <1>4, Zenon DEF J

-----------------------------------------------------------------------------
\* What FlattenSeq makes of the batches of a group.

\* Nothing is in two places of the batches; s has the entries of the first m of them.
Has(s, x) == \E k \in DOMAIN s : s[k] = x
NoneTwice(B) == \A i, j \in DOMAIN B : \A k \in DOMAIN B[i], l \in DOMAIN B[j] :
                   B[i][k] = B[j][l] => i = j /\ k = l
Joined(s, B, m) ==
    /\ s \in Seq(Ops)
    /\ \A x : Has(s, x) <=> \E i \in 1 .. m : Has(B[i], x)
    /\ \A j, k \in DOMAIN s : s[j] = s[k] => j = k

Concats(s, b, c) ==
    /\ c \in Seq(Ops) /\ Len(s) \in Nat
    /\ \A k \in DOMAIN c : \/ k \in DOMAIN s /\ c[k] = s[k]
                           \/ k - Len(s) \in DOMAIN b /\ c[k] = b[k - Len(s)] /\ k \in Nat
    /\ \A k \in DOMAIN s : k \in DOMAIN c /\ c[k] = s[k]
    /\ \A k \in DOMAIN b : k + Len(s) \in DOMAIN c /\ c[k + Len(s)] = b[k]

LEMMA Concatenated ==
    ASSUME NEW s \in Seq(Ops), NEW b \in Seq(Ops) PROVE Concats(s, b, s \o b)
  BY DEF Concats

LEMMA JoinedFirst ==
    ASSUME NEW B \in Seq(Seq(Ops)), 1 \in DOMAIN B, NoneTwice(B) PROVE Joined(B[1], B, 1)
  <1>1. B[1] \in Seq(Ops)
    OBVIOUS
  <1>2. \A i : i \in 1 .. 1 <=> i = 1
    OBVIOUS
  <1>3. \A j, k \in DOMAIN B[1] : B[1][j] = B[1][k] => j = k
    BY Zenon DEF NoneTwice
  <1>4. \A x : Has(B[1], x) <=> \E i \in 1 .. 1 : Has(B[i], x)
    <2> TAKE x
    <2>1. ASSUME Has(B[1], x) PROVE \E i \in 1 .. 1 : Has(B[i], x)
      BY <1>2, <2>1, Zenon
    <2>2. ASSUME NEW i \in 1 .. 1, Has(B[i], x) PROVE Has(B[1], x)
      BY <1>2, <2>2, Zenon
    <2> QED
      BY <2>1, <2>2, Zenon
  <1> QED
    BY <1>1, <1>3, <1>4, Zenon DEF Joined

LEMMA JoinedNext ==
    ASSUME NEW B \in Seq(Seq(Ops)), NEW m \in Nat, m + 1 \in DOMAIN B, m # 0, NoneTwice(B),
           NEW s, Joined(s, B, m)
    PROVE  Joined(s \o B[m + 1], B, m + 1)
  <1> DEFINE b == B[m + 1]
             c == s \o b
  <1>1. s \in Seq(Ops) /\ b \in Seq(Ops)
    BY DEF Joined
  <1>2. Concats(s, b, c)
    BY <1>1, Concatenated, Zenon
  <1> HIDE DEF c
  <1>3. \A i : i \in 1 .. m + 1 <=> (i \in 1 .. m \/ i = m + 1)
    OBVIOUS
  <1>4. (m + 1) \notin 1 .. m /\ \A i \in 1 .. m : i \in DOMAIN B
    OBVIOUS
  <1>5. \A x : Has(c, x) <=> Has(s, x) \/ Has(b, x)
    <2> TAKE x
    <2>1. ASSUME Has(c, x) PROVE Has(s, x) \/ Has(b, x)
      BY <1>2, <2>1, Zenon DEF Has, Concats
    <2>2. ASSUME Has(s, x) PROVE Has(c, x)
      BY <1>2, <2>2, Zenon DEF Has, Concats
    <2>3. ASSUME Has(b, x) PROVE Has(c, x)
      BY <1>2, <2>3, Zenon DEF Has, Concats
    <2> QED
      BY <2>1, <2>2, <2>3, Zenon
  <1>6. \A x : Has(c, x) <=> \E i \in 1 .. m + 1 : Has(B[i], x)
    <2> TAKE x
    <2>1. Has(s, x) <=> \E i \in 1 .. m : Has(B[i], x)
      BY Zenon DEF Joined
    <2>2. ASSUME NEW i \in 1 .. m + 1, Has(B[i], x) PROVE Has(c, x)
      BY <1>3, <1>5, <2>1, <2>2, Zenon
    <2>3. ASSUME Has(c, x) PROVE \E i \in 1 .. m + 1 : Has(B[i], x)
      <3>1. CASE Has(b, x)
        <4>1. m + 1 \in 1 .. m + 1
          OBVIOUS
        <4> QED
          BY <3>1, <4>1, Zenon
      <3>2. CASE Has(s, x)
        BY <1>3, <2>1, <3>2, Zenon
      <3> QED
        BY <1>5, <2>3, <3>1, <3>2, Zenon
    <2> QED
      BY <2>2, <2>3, Zenon
  <1>7. ASSUME NEW k \in DOMAIN s, NEW l \in DOMAIN b, s[k] = b[l] PROVE FALSE
    <2>1. Has(s, s[k])
      BY Zenon DEF Has
    <2>2. PICK i \in 1 .. m : Has(B[i], s[k])
      BY <2>1, Zenon DEF Joined
    <2>3. PICK j \in DOMAIN B[i] : B[i][j] = s[k]
      BY <2>2, Zenon DEF Has
    <2>4. i \in DOMAIN B /\ i # m + 1
      BY <1>4, Zenon
    <2> QED
      <3>1. PICK l1 \in DOMAIN B[m + 1] : B[i][j] = B[m + 1][l1]
        BY <1>7, <2>3, Zenon
      <3>2. m + 1 \in DOMAIN B /\ j \in DOMAIN B[i]
        BY <2>3, Zenon
      <3>3. NoneTwice(B)
        OBVIOUS
      <3>4. i = m + 1
        BY <2>4, <3>1, <3>2, <3>3, Zenon DEF NoneTwice
      <3> QED
        BY <2>4, <3>4, Zenon
  <1>8. ASSUME NEW j \in DOMAIN c, NEW k \in DOMAIN c, c[j] = c[k] PROVE j = k
    <2>1. CASE j \in DOMAIN s /\ c[j] = s[j] /\ k \in DOMAIN s /\ c[k] = s[k]
      BY <1>8, <2>1, Zenon DEF Joined
    <2>2. CASE /\ j - Len(s) \in DOMAIN b /\ c[j] = b[j - Len(s)] /\ j \in Nat
               /\ k - Len(s) \in DOMAIN b /\ c[k] = b[k - Len(s)] /\ k \in Nat
      <3>1. \A x, y \in DOMAIN b : b[x] = b[y] => x = y
        BY DEF NoneTwice
      <3> HIDE DEF b
      <3>2. j - Len(s) = k - Len(s)
        BY <1>8, <2>2, <3>1, Zenon
      <3> QED
        BY <1>2, <2>2, <3>2 DEF Concats
    <2> QED
      BY <1>2, <1>7, <1>8, <2>1, <2>2, Zenon DEF Concats
  <1>9. Joined(c, B, m + 1)
    BY <1>2, <1>6, <1>8, Zenon DEF Joined, Concats
  <1> QED
    BY <1>9 DEF c

\* The recursive function of FlattenSeq, up to the m-th batch.
Flattens(f, B, m) ==
    f = [i \in 1 .. m |-> IF i = 1 THEN B[i] ELSE f[i - 1] \o B[i]]

LEMMA FlattensNext ==
    ASSUME NEW B, NEW m \in Nat, m # 0, NEW f, Flattens(f, B, m) PROVE \E g : Flattens(g, B, m + 1)
  <1> DEFINE g == [i \in 1 .. m + 1 |-> IF i = m + 1 THEN f[m] \o B[m + 1] ELSE f[i]]
  <1>1. \A i \in 1 .. m + 1 : g[i] = IF i = 1 THEN B[i] ELSE g[i - 1] \o B[i]
    <2> TAKE i \in 1 .. m + 1
    <2>1. CASE i = m + 1
      <3>1. m \in 1 .. m + 1 /\ m # m + 1 /\ m + 1 # 1 /\ (m + 1) - 1 = m /\ m + 1 \in 1 .. m + 1
        OBVIOUS
      <3>2. g[m + 1] = f[m] \o B[m + 1] /\ g[m] = f[m]
        BY <3>1, Zenon
      <3> HIDE DEF g
      <3> QED
        BY <2>1, <3>1, <3>2, Zenon
    <2>2. CASE i \in 1 .. m
      <3>1. f[i] = IF i = 1 THEN B[i] ELSE f[i - 1] \o B[i]
        BY <2>2, Zenon DEF Flattens
      <3>2. g[i] = f[i] /\ (i # 1 => g[i - 1] = f[i - 1])
        BY <2>2
      <3> HIDE DEF g
      <3> QED
        BY <3>1, <3>2, Zenon
    <2> QED
      BY <2>1, <2>2
  <1>2. g = [i \in 1 .. m + 1 |-> g[i]]
    OBVIOUS
  <1> HIDE DEF g
  <1>3. Flattens(g, B, m + 1)
    BY <1>1, <1>2 DEF Flattens
  <1> QED
    BY <1>3, Zenon

LEMMA FlattensSome ==
    ASSUME NEW B, NEW n \in Nat, n # 0 PROVE \E f : Flattens(f, B, n)
  <1> DEFINE bad == {m \in Nat : m # 0 /\ ~\E f : Flattens(f, B, m)}
  <1> SUFFICES ASSUME bad # {} PROVE FALSE
    BY Zenon
  <1>1. PICK m \in bad : \A x \in bad : m <= x
    <2>1. bad \subseteq Nat
      OBVIOUS
    <2> HIDE DEF bad
    <2> QED
      BY <2>1, LeastOf
  <1>2. CASE m = 1
    <2>1. Flattens([i \in 1 .. 1 |-> B[i]], B, 1)
      BY DEF Flattens
    <2> QED
      BY <1>2, <2>1, Zenon
  <1>3. CASE m # 1
    <2>1. m - 1 \in Nat /\ m - 1 # 0 /\ ~(m <= m - 1) /\ (m - 1) + 1 = m
      BY <1>3
    <2>2. (m - 1) \notin bad
      BY <1>1, <2>1, Zenon
    <2>3. \E f : Flattens(f, B, m - 1)
      BY <2>1, <2>2, Zenon
    <2>4. \E f : Flattens(f, B, m)
      BY <2>1, <2>3, FlattensNext, Zenon
    <2> QED
      BY <2>4, Zenon
  <1> QED
    BY <1>2, <1>3

\* Every entry of the batches is in the sequence, once, and nothing else.
LEMMA FlattenSeqJoins ==
    ASSUME NEW B \in Seq(Seq(Ops)), Len(B) # 0, NoneTwice(B)
    PROVE  Joined(FlattenSeq(B), B, Len(B))
  <1> DEFINE n == Len(B)
             f == CHOOSE g : Flattens(g, B, n)
             bad == {m \in 1 .. n : ~Joined(f[m], B, m)}
  <1>1. FlattenSeq(B) = f[n]
    BY Zenon DEF FlattenSeq, Flattens
  <1>2. n \in Nat /\ n # 0
    OBVIOUS
  <1>3. Flattens(f, B, n)
    BY <1>2, FlattensSome, Zenon
  <1> HIDE DEF f
  <1>4. f[1] = B[1] /\ \A i \in 2 .. n : f[i] = f[i - 1] \o B[i]
    <2>1. \A i \in 1 .. n : f[i] = IF i = 1 THEN B[i] ELSE f[i - 1] \o B[i]
      BY <1>3, Zenon DEF Flattens
    <2>2. 1 \in 1 .. n /\ \A i \in 2 .. n : i \in 1 .. n /\ i # 1
      BY <1>2
    <2> HIDE DEF n
    <2> QED
      BY <2>1, <2>2, Zenon
  <1> SUFFICES ASSUME bad # {} PROVE FALSE
    <2>1. n \in 1 .. n
      BY <1>2
    <2> QED
      BY <1>1, <2>1, Zenon
  <1>5. PICK m \in bad : \A x \in bad : m <= x
    <2>1. bad \subseteq Nat
      OBVIOUS
    <2> HIDE DEF bad
    <2> QED
      BY <2>1, LeastOf
  <1>6. CASE m = 1
    <2>1. 1 \in DOMAIN B
      BY <1>2
    <2> QED
      BY <1>4, <1>6, <2>1, JoinedFirst, Zenon
  <1>7. CASE m # 1
    <2> DEFINE k == m - 1
    <2>1. k \in Nat /\ k # 0 /\ ~(m <= k) /\ k + 1 = m /\ k \in 1 .. n /\ m \in 2 .. n /\ m \in DOMAIN B
      BY <1>7
    <2>2. f[m] = f[k] \o B[m]
      BY <1>4, <2>1, Zenon
    <2> HIDE DEF k
    <2>3. Joined(f[k], B, k)
      BY <1>5, <2>1, Zenon
    <2>4. Joined(f[m], B, m)
      BY <2>1, <2>2, <2>3, JoinedNext, Zenon
    <2> QED
      BY <2>4, Zenon
  <1> QED
    BY <1>6, <1>7

-----------------------------------------------------------------------------
\* The front writer forms its group.

LEMMA EntriesOf ==
    ASSUME WriteInv, NEW t \in Threads
    PROVE  /\ Entries(t) \in Seq(Ops) /\ call[t].batch \in Nat
           /\ DOMAIN Entries(t) = 1 .. call[t].batch
           /\ \A i \in 1 .. call[t].batch : Entries(t)[i] = Op(t, i)
           /\ \A i : Op(t, i).thread = t /\ Op(t, i).index = i
  <1>1. call[t] \in Call
    BY Zenon DEF WriteInv, WriteTypeOK
  <1>2. call[t].batch \in Nat
    BY <1>1 DEF Call
  <1>3. \A i \in 1 .. call[t].batch : Op(t, i) \in Ops
    BY <1>2 DEF Op, Ops
  <1>4. Entries(t) = [i \in 1 .. call[t].batch |-> Op(t, i)]
    BY Zenon DEF Entries, Op
  <1>5. Entries(t) \in Seq(Ops)
    BY <1>2, <1>3, <1>4
  <1>6. \A i : Op(t, i).thread = t /\ Op(t, i).index = i
    BY DEF Op
  <1> QED
    BY <1>2, <1>4, <1>5, <1>6, Zenon

BatchesOf(n) == [i \in 1 .. n |-> Entries(writers[i])]

LEMMA BatchesJoin ==
    ASSUME WriteInv, NEW n \in DOMAIN writers
    PROVE  BatchesOf(n) \in Seq(Seq(Ops)) /\ Len(BatchesOf(n)) = n /\ NoneTwice(BatchesOf(n))
           /\ n \in Nat /\ n # 0 /\ 1 \in DOMAIN BatchesOf(n)
           /\ \A i \in 1 .. n : BatchesOf(n)[i] = Entries(writers[i]) /\ i \in DOMAIN writers
  <1>1. writers \in Seq(Threads)
    BY Zenon DEF WriteInv, WriteTypeOK
  <1>2. n \in Nat /\ n # 0 /\ 1 \in 1 .. n /\ \A i \in 1 .. n : i \in DOMAIN writers /\ writers[i] \in Threads
    BY <1>1
  <1>3. \A i \in 1 .. n : BatchesOf(n)[i] = Entries(writers[i])
    BY Zenon DEF BatchesOf
  <1>4. DOMAIN BatchesOf(n) = 1 .. n
    BY Zenon DEF BatchesOf
  <1>5. \A i \in 1 .. n : Entries(writers[i]) \in Seq(Ops)
    BY <1>2, EntriesOf, Zenon
  <1>6. BatchesOf(n) \in Seq(Seq(Ops)) /\ Len(BatchesOf(n)) = n
    BY <1>2, <1>5 DEF BatchesOf
  <1>7. ASSUME NEW i \in 1 .. n, NEW j \in 1 .. n,
               NEW k \in DOMAIN Entries(writers[i]), NEW l \in DOMAIN Entries(writers[j]),
               Entries(writers[i])[k] = Entries(writers[j])[l]
        PROVE  i = j /\ k = l
    <2>1. writers[i] \in Threads /\ writers[j] \in Threads /\ i \in DOMAIN writers /\ j \in DOMAIN writers
      BY <1>2, Zenon
    <2>2. Entries(writers[i])[k] = Op(writers[i], k)
      BY <2>1, EntriesOf, Zenon
    <2>3. Entries(writers[j])[l] = Op(writers[j], l)
      BY <2>1, EntriesOf, Zenon
    <2>4. Op(writers[i], k) = Op(writers[j], l)
      BY <1>7, <2>2, <2>3, Zenon
    <2>5. writers[i] = writers[j] /\ k = l
      BY <2>4 DEF Op
    <2> QED
      BY <2>1, <2>5, Zenon DEF WriteInv, WritersOK, Once
  <1>8. NoneTwice(BatchesOf(n))
    <2> SUFFICES ASSUME NEW i \in 1 .. n, NEW j \in 1 .. n,
                        NEW k \in DOMAIN BatchesOf(n)[i], NEW l \in DOMAIN BatchesOf(n)[j],
                        BatchesOf(n)[i][k] = BatchesOf(n)[j][l]
                 PROVE  i = j /\ k = l
      BY <1>4, Zenon DEF NoneTwice
    <2>1. BatchesOf(n)[i] = Entries(writers[i]) /\ BatchesOf(n)[j] = Entries(writers[j])
      BY <1>3, Zenon
    <2>2. k \in DOMAIN Entries(writers[i]) /\ l \in DOMAIN Entries(writers[j])
          /\ Entries(writers[i])[k] = Entries(writers[j])[l]
      BY <2>1, Zenon
    <2> QED
      BY <1>7, <2>2, Zenon
  <1> QED
    BY <1>2, <1>3, <1>4, <1>6, <1>8, Zenon

\* Either way the group has the entries of all its writers.
LEMMA GroupJoined ==
    ASSUME WriteInv, tmp_batch = <<>>, NEW n \in DOMAIN writers, NEW others, NEW ops,
           others = {i \in 2 .. n : ~call[writers[i]].compact},
           ops = IF others = {} THEN BatchesOf(n)[1] ELSE tmp_batch \o FlattenSeq(BatchesOf(n))
    PROVE  Joined(ops, BatchesOf(n), n)
  <1> DEFINE B == BatchesOf(n)
  <1>1. B \in Seq(Seq(Ops)) /\ Len(B) = n /\ NoneTwice(B) /\ n \in Nat /\ n # 0 /\ 1 \in DOMAIN B
        /\ \A i \in 1 .. n : B[i] = Entries(writers[i]) /\ i \in DOMAIN writers
    BY BatchesJoin, Zenon
  <1> HIDE DEF B
  <1>2. CASE others # {}
    <2>1. Joined(FlattenSeq(B), B, n)
      BY <1>1, FlattenSeqJoins
    <2>2. FlattenSeq(B) \in Seq(Ops)
      BY <2>1, Zenon DEF Joined
    <2>3. <<>> \o FlattenSeq(B) = FlattenSeq(B)
      BY <2>2
    <2>4. ops = FlattenSeq(B)
      BY <1>2, <2>3, Zenon DEF B
    <2> QED
      BY <2>1, <2>4, Zenon DEF B
  <1>3. CASE others = {}
    <2>1. Joined(B[1], B, 1)
      BY <1>1, JoinedFirst, Zenon
    <2>2. ASSUME NEW i \in 2 .. n, NEW x PROVE ~Has(B[i], x)
      <3>1. call[writers[i]].compact
        BY <1>3, Zenon
      <3>2. i \in 1 .. n
        BY <1>1
      <3>3. i \in DOMAIN writers /\ B[i] = Entries(writers[i])
        BY <1>1, <3>2, Zenon
      <3>4. writers[i] \in Threads
        BY <3>3 DEF WriteInv, WriteTypeOK
      <3>5. call[writers[i]].batch = 0
        BY <3>1, <3>4, Zenon DEF WriteInv, WriteTypeOK
      <3>6. DOMAIN B[i] = 1 .. 0
        BY <3>3, <3>4, <3>5, EntriesOf, Zenon
      <3> QED
        BY <3>6 DEF Has
    <2>3. \A i : (i \in 1 .. n <=> i = 1 \/ i \in 2 .. n) /\ (i \in 1 .. 1 <=> i = 1)
      BY <1>1
    <2>4. \A x : Has(B[1], x) <=> \E i \in 1 .. n : Has(B[i], x)
      BY <2>2, <2>3, Zenon
    <2>5. Joined(B[1], B, n)
      BY <2>1, <2>4, Zenon DEF Joined
    <2> QED
      BY <1>3, <2>5, Zenon DEF B
  <1> QED
    BY <1>2, <1>3

\* The front writer goes on; the queue stays.
FrontStep(t, x) == /\ pc[t] \in AtFront /\ x \in AtFront /\ pc' = [pc EXCEPT ![t] = x]
                   /\ UNCHANGED <<call, writer, writers>>
OnlyLeader(t, x) ==
    /\ \A u \in Threads : (InQueue(u)' <=> InQueue(u)) /\ (Gone(u)' <=> Gone(u))
    /\ pc'[t] = x /\ pc' \in [Threads -> {"idle", "queue"} \cup AtFront \cup Out]
    /\ \A u \in Threads : Leads(u)' <=> (u = t /\ x \in Grouped)
    /\ \A u \in Threads : Leads(u) <=> (u = t /\ pc[t] \in Grouped)
    /\ (SomeLeader' <=> x \in Grouped) /\ (SomeLeader <=> pc[t] \in Grouped)
    /\ WritersOK'

LEMMA FrontStepOK ==
    ASSUME WriteInv, NEW t \in Threads, NEW x, FrontStep(t, x) PROVE OnlyLeader(t, x)
  <1>1. pc[t] \in AtFront /\ x \in AtFront /\ pc' = [pc EXCEPT ![t] = x]
        /\ UNCHANGED <<call, writer, writers>>
    BY Zenon DEF FrontStep
  <1>2. writers[1] = t /\ InQueue(t) /\ \A u \in Threads : pc[u] \in AtFront => u = t
    BY <1>1, FrontIsFirst, Zenon
  <1>3. \A u \in Threads : pc'[u] = IF u = t THEN x ELSE pc[u]
    BY <1>1 DEF WriteInv, WriteTypeOK
  <1>4. pc' \in [Threads -> {"idle", "queue"} \cup AtFront \cup Out]
    BY <1>1 DEF WriteInv, WriteTypeOK
  <1>5. \A y \in AtFront : y # "idle" /\ y # "queue" /\ y \notin {"imm_check", "imm_wait"}
    BY DEF AtFront, Grouped
  <1>6. \A u \in Threads : InQueue(u)' <=> InQueue(u)
    BY <1>1, Zenon DEF InQueue
  <1>7. \A u \in Threads : Gone(u)' <=> Gone(u)
    BY <1>1, <1>3, <1>5, <1>6, Zenon DEF Gone
  <1>8. \A u \in Threads : Leads(u) <=> (u = t /\ pc[t] \in Grouped)
    BY <1>2, Zenon DEF Leads, AtFront
  <1>9. \A u \in Threads : Leads(u)' <=> (u = t /\ x \in Grouped)
    BY <1>2, <1>3, Zenon DEF Leads, AtFront
  <1>10. (SomeLeader' <=> x \in Grouped) /\ (SomeLeader <=> pc[t] \in Grouped)
    BY <1>8, <1>9, Zenon DEF SomeLeader
  <1>11. Once'
    BY <1>1, Zenon DEF WriteInv, WritersOK, Once
  <1>12. \A i \in DOMAIN writers' : Waits(i)'
    <2> SUFFICES ASSUME NEW i \in DOMAIN writers PROVE Waits(i)'
      BY <1>1, Zenon
    <2>1. writers[i] \in Threads
      BY DEF WriteInv, WriteTypeOK
    <2>2. Waits(i)
      BY Zenon DEF WriteInv, WritersOK
    <2>3. pc'[writers[i]] = pc[writers[i]] \/ (writers[i] = t /\ pc'[writers[i]] = x)
      BY <1>3, <2>1, Zenon
    <2> QED
      BY <1>1, <1>5, <2>2, <2>3, Zenon DEF Waits
  <1>13. \A u \in Threads : PlaceOK(u)'
    <2> TAKE u \in Threads
    <2>1. PlaceOK(u)
      BY Zenon DEF WriteInv, WritersOK
    <2>2. CASE u = t
      BY <1>1, <1>2, <1>3, <1>5, <1>6, <2>2, Zenon DEF PlaceOK
    <2>3. CASE u # t
      BY <1>1, <1>3, <1>6, <2>1, <2>3, Zenon DEF PlaceOK
    <2> QED
      BY <2>2, <2>3
  <1> QED
    BY <1>3, <1>4, <1>6, <1>7, <1>8, <1>9, <1>10, <1>11, <1>12, <1>13, Zenon DEF WritersOK, OnlyLeader

\* While nobody leads, all that is stored or logged is of threads that are gone.
LEMMA NoLeader ==
    ASSUME WriteInv, ~SomeLeader
    PROVE  /\ \A e \in Stored : Gone(e.op.thread) /\ e.seq <= store.last_sequence
           /\ \A r \in DOMAIN store.log : \A k \in DOMAIN store.log[r].ops :
                 Gone(store.log[r].ops[k].thread)
           /\ tmp_batch = <<>>
  <1>1. \A e \in Stored : e.seq <= store.last_sequence
    <2> TAKE e \in Stored
    <2>1. ~(e.seq > store.last_sequence)
      BY Zenon DEF WriteInv, StoredOK, RestInserted
    <2>2. e.seq \in Nat /\ store.last_sequence \in Nat
      BY DEF Stored, WriteInv, WriteTypeOK, IsStore, Stamped
    <2> QED
      BY <2>1, <2>2
  <1>2. \A e \in Stored : Gone(e.op.thread)
    BY <1>1, Zenon DEF WriteInv, StoredOK, VisibleGone
  <1>3. \A r \in DOMAIN store.log : \A k \in DOMAIN store.log[r].ops :
            Gone(store.log[r].ops[k].thread)
    BY Zenon DEF WriteInv, LogOK, LogFrom, SomeLeader
  <1>4. tmp_batch = <<>>
    BY Zenon DEF WriteInv, GroupOK
  <1> QED
    BY <1>1, <1>2, <1>3, <1>4, Zenon

\* What BuildBatchGroup leaves.
Built(n) ==
    /\ n \in DOMAIN writers /\ group'.last = writers[n] /\ group' \in GroupType
    /\ group'.seq = store.last_sequence + 1 /\ group'.inserted = 0 /\ group'.ok = TRUE
    /\ Joined(group'.ops, BatchesOf(n), n) /\ tmp_batch' \in {<<>>, group'.ops}
    /\ \A i \in 2 .. n : ~NeedsOwnSync(writers[1], writers[i])

LEMMA BuildBatchGroupOK ==
    ASSUME WriteInv, tmp_batch = <<>>, 1 \in DOMAIN writers, BuildBatchGroup PROVE Built(GroupSize)
  <1> DEFINE n == GroupSize
             others == {i \in 2 .. n : ~call[writers[i]].compact}
             ops == IF others = {} THEN BatchesOf(n)[1] ELSE tmp_batch \o FlattenSeq(BatchesOf(n))
             seq == store.last_sequence + 1
  <1>1. n \in DOMAIN writers /\ \A i \in 2 .. n : ~NeedsOwnSync(writers[1], writers[i])
    BY GroupSizeIn, Zenon
  <1>2. tmp_batch' = (IF others = {} THEN tmp_batch ELSE tmp_batch \o FlattenSeq(BatchesOf(n)))
    BY Zenon DEF BuildBatchGroup, BatchesOf
  <1>3. group' = [NoGroup EXCEPT !.last = writers[n], !.seq = store.last_sequence + 1,
                                 !.ops = IF others = {} THEN BatchesOf(n)[1] ELSE tmp_batch']
    BY Zenon DEF BuildBatchGroup, BatchesOf
  <1> HIDE DEF n
  <1>4. group' = [NoGroup EXCEPT !.last = writers[n], !.seq = seq, !.ops = ops]
    BY <1>2, <1>3, Zenon
  <1>5. Joined(ops, BatchesOf(n), n)
    BY <1>1, GroupJoined, Zenon
  <1>6. tmp_batch' \in {<<>>, ops}
    BY <1>2, Zenon
  <1> HIDE DEF ops, others
  <1>7. ops \in Seq(Ops)
    BY <1>5, Zenon DEF Joined
  <1>8. writers[n] \in Threads
    BY <1>1 DEF WriteInv, WriteTypeOK
  <1>9. seq \in Nat
    BY DEF WriteInv, WriteTypeOK, IsStore
  <1> HIDE DEF seq
  <1>10. group' \in GroupType /\ group'.last = writers[n] /\ group'.seq = seq
         /\ group'.ops = ops /\ group'.inserted = 0 /\ group'.ok = TRUE
    BY <1>4, <1>7, <1>8, <1>9 DEF NoGroup, GroupType
  <1>11. Built(n)
    BY <1>1, <1>5, <1>6, <1>10, Zenon DEF Built, seq
  <1> QED
    BY <1>11, Zenon DEF n

LEMMA HaveRoomInv ==
    ASSUME WriteInv, NEW t \in Threads, HaveRoom(t) PROVE WriteInv'
  <1>1. pc[t] = "room" /\ UNCHANGED <<call, room, bg, store>>
    BY Zenon DEF HaveRoom, NoRoom, InRoom
  <1>2. CASE call[t].compact
    <2>1. LeaveQueue(t, t, TRUE) /\ UNCHANGED <<group, tmp_batch>>
      BY <1>2, Zenon DEF HaveRoom
    <2>2. PICK ok \in BOOLEAN : ok = TRUE
      BY Zenon
    <2>3. LeaveQueue(t, t, ok)
      BY <2>1, <2>2, Zenon
    <2>4. call[t].batch = 0
      BY <1>2, Zenon DEF WriteInv, WriteTypeOK
    <2> QED
      BY <1>1, <2>1, <2>3, <2>4, LeaveAloneInv, Zenon
  <1>3. CASE ~call[t].compact
    <2>1. BuildBatchGroup /\ pc' = [pc EXCEPT ![t] = "log"] /\ UNCHANGED <<writers, writer>>
      BY <1>3, Zenon DEF HaveRoom
    <2>2. "log" \in AtFront /\ "log" \in Grouped /\ pc[t] \in AtFront /\ pc[t] \notin Grouped
      BY <1>1 DEF AtFront, Grouped
    <2>3. FrontStep(t, "log")
      BY <1>1, <2>1, <2>2, Zenon DEF FrontStep
    <2>4. OnlyLeader(t, "log")
      BY <2>3, FrontStepOK, Zenon
    <2>5. ~SomeLeader
      BY <2>2, <2>4, Zenon DEF OnlyLeader
    <2>6. /\ \A e \in Stored : Gone(e.op.thread) /\ e.seq <= store.last_sequence
          /\ \A r \in DOMAIN store.log : \A k \in DOMAIN store.log[r].ops :
                Gone(store.log[r].ops[k].thread)
          /\ tmp_batch = <<>>
      BY <2>5, NoLeader, Zenon
    <2>7. writers[1] = t /\ 1 \in DOMAIN writers
      BY <2>2, FrontIsFirst, Zenon
    <2> DEFINE n == GroupSize
               B == BatchesOf(n)
    <2>8. Built(n)
      BY <2>1, <2>6, <2>7, BuildBatchGroupOK, Zenon
    <2> HIDE DEF n
    <2>9. \A i \in 1 .. n : B[i] = Entries(writers[i]) /\ i \in DOMAIN writers
      BY <2>8, BatchesJoin, Zenon DEF Built
    <2>10. \A i \in DOMAIN writers : (i <= n <=> i \in 1 .. n) /\ (i \in 1 .. n <=> i = 1 \/ i \in 2 .. n)
      BY <2>8 DEF Built, WriteInv, WriteTypeOK
    <2>11. \A m \in Threads : Member(m)' <=> \E i \in 1 .. n : writers[i] = m
      <3>1. \A j \in DOMAIN writers : writers[j] = group'.last <=> j = n
        BY <2>8, Zenon DEF Built, WriteInv, WritersOK, Once
      <3>2. n \in DOMAIN writers
        BY <2>8, Zenon DEF Built
      <3> QED
        <4>1. writers' = writers
          BY <2>1, Zenon
        <4>2. ASSUME NEW m \in Threads, Member(m)' PROVE \E i \in 1 .. n : writers[i] = m
          <5>1. PICK i, j \in DOMAIN writers : i <= j /\ writers[i] = m /\ writers[j] = group'.last
            BY <4>1, <4>2, Zenon DEF Member
          <5> QED
            BY <2>10, <3>1, <5>1, Zenon
        <4>3. ASSUME NEW m \in Threads, NEW i \in 1 .. n, writers[i] = m PROVE Member(m)'
          <5>1. i \in DOMAIN writers /\ i <= n /\ writers[n] = group'.last
            BY <2>9, <2>10, <3>1, <3>2, Zenon
          <5> QED
            BY <3>2, <4>1, <4>3, <5>1, Zenon DEF Member
        <4> QED
          BY <4>2, <4>3, Zenon
    <2>12. \A x : Has(group'.ops, x) <=> \E i \in 1 .. n : Has(Entries(writers[i]), x)
      <3>1. \A x : Has(group'.ops, x) <=> \E i \in 1 .. n : Has(B[i], x)
        BY <2>8, Zenon DEF Built, Joined
      <3> QED
        BY <2>9, <3>1, Zenon
    <2>13. Formed(t)'
      <3>1. InQueue(group.last)'
        BY <2>1, <2>8, Zenon DEF InQueue, Built
      <3>2. OfMembers'
        <4> SUFFICES ASSUME NEW k \in DOMAIN group'.ops
                     PROVE  (/\ Member(group.ops[k].thread)
                             /\ group.ops[k].index \in 1 .. call[group.ops[k].thread].batch)'
          BY Zenon DEF OfMembers
        <4>1. Has(group'.ops, group'.ops[k])
          BY Zenon DEF Has
        <4>2. PICK i \in 1 .. n : Has(Entries(writers[i]), group'.ops[k])
          BY <2>12, <4>1, Zenon
        <4>3. PICK j \in DOMAIN Entries(writers[i]) : Entries(writers[i])[j] = group'.ops[k]
          BY <4>2, Zenon DEF Has
        <4>4. PICK m \in Threads : m = writers[i]
          BY <2>9 DEF WriteInv, WriteTypeOK
        <4>5. group'.ops[k] = Op(m, j) /\ j \in 1 .. call[m].batch
          BY <4>3, <4>4, EntriesOf, Zenon
        <4>6. group'.ops[k].thread = m /\ group'.ops[k].index = j
          BY <4>5 DEF Op
        <4>7. Member(m)'
          BY <2>11, <4>4, Zenon
        <4> QED
          BY <1>1, <4>5, <4>6, <4>7, Zenon DEF Member
      <3>3. OpsDiffer'
        BY <2>8, Zenon DEF Built, Joined, OpsDiffer
      <3>4. OfAllMembers'
        <4> SUFFICES ASSUME NEW m \in Threads, Member(m)', NEW l \in 1 .. call[m].batch
                     PROVE  \E k \in DOMAIN group'.ops : group'.ops[k] = Op(m, l)
          BY <1>1, Zenon DEF OfAllMembers, Op
        <4>1. PICK i \in 1 .. n : writers[i] = m
          BY <2>11, Zenon
        <4>2. Has(Entries(writers[i]), Op(m, l))
          <5>1. l \in DOMAIN Entries(m) /\ Entries(m)[l] = Op(m, l)
            BY EntriesOf, Zenon
          <5>2. Has(Entries(m), Op(m, l))
            BY <5>1, Zenon DEF Has
          <5> QED
            BY <4>1, <5>2, Zenon
        <4>3. Has(group'.ops, Op(m, l))
          BY <2>12, <4>2, Zenon
        <4> QED
          BY <4>3, Zenon DEF Has
      <3>5. SyncedFor(t)'
        <4> SUFFICES ASSUME NEW m \in Threads, Member(m)', call[m].sync PROVE call[t].sync
          BY <1>1, Zenon DEF SyncedFor
        <4>1. PICK i \in 1 .. n : writers[i] = m
          BY <2>11, Zenon
        <4>2. i = 1 \/ i \in 2 .. n
          BY <2>9, <2>10, Zenon
        <4> QED
          BY <2>7, <2>8, <4>1, <4>2, Zenon DEF Built, NeedsOwnSync
      <3> QED
        BY <3>1, <3>2, <3>3, <3>4, <3>5, Zenon DEF Formed
    <2>14. Numbered(t)' /\ Logged(t)'
      <3>1. pc'[t] = "log" /\ store' = store
        BY <1>1, <2>4, Zenon DEF OnlyLeader
      <3>2. group'.seq = store.last_sequence + 1 /\ group'.inserted = 0 /\ group'.ok = TRUE
            /\ group' \in GroupType
        BY <2>8, Zenon DEF Built
      <3>3. 0 <= Len(group'.ops)
        BY <3>2 DEF GroupType
      <3>4. Numbered(t)'
        BY <3>1, <3>2, <3>3, Zenon DEF Numbered
      <3>5. Logged(t)'
        BY <3>1, Zenon DEF Logged, InLog
      <3> QED
        BY <3>4, <3>5
    <2>15. GroupOK'
      BY <2>2, <2>4, <2>8, <2>13, <2>14, Zenon DEF GroupOK, OnlyLeader, Built
    <2>16. WriteTypeOK'
      <3>1. tmp_batch' \in Seq(Ops)
        <4>1. group'.ops \in Seq(Ops) /\ <<>> \in Seq(Ops)
          BY <2>8 DEF Built, GroupType
        <4> QED
          BY <2>8, <4>1, Zenon DEF Built
      <3> QED
        BY <1>1, <2>1, <2>4, <2>8, <3>1, Zenon DEF WriteInv, WriteTypeOK, IsStore, OnlyLeader, Built
    <2>17. StoredOK'
      <3>1. StoredOK /\ Stored' = Stored /\ store' = store /\ call' = call /\ group'.inserted = 0
        BY <1>1, <2>8, Zenon DEF WriteInv, Stored, Built
      <3>2. IndexOK' /\ EntriesDiffer' /\ (~store'.has_imm => store'.imm = {})
        BY <3>1, Zenon DEF StoredOK, IndexOK, EntriesDiffer
      <3>3. \A u \in Threads : Gone(u)' <=> Gone(u)
        BY <2>4, Zenon DEF OnlyLeader
      <3>4. \A e \in Stored : (Gone(e.op.thread))'
        <4> TAKE e \in Stored
        <4>1. PICK m \in Threads : m = e.op.thread
          BY DEF Stored, WriteInv, WriteTypeOK, IsStore, Stamped, Ops
        <4>2. Gone(m)'
          BY <2>6, <3>3, <4>1, Zenon
        <4> QED
          BY <4>1, <4>2, Zenon DEF Gone, InQueue
      <3>5. VisibleGone'
        BY <3>1, <3>4, Zenon DEF VisibleGone
      <3>6. RestInserted'
        <4>1. \A e \in Stored : ~(e.seq > store.last_sequence)
          <5> TAKE e \in Stored
          <5>1. e.seq \in Nat /\ store.last_sequence \in Nat
            BY DEF Stored, WriteInv, WriteTypeOK, IsStore, Stamped
          <5>2. e.seq <= store.last_sequence
            BY <2>6, Zenon
          <5> QED
            BY <5>1, <5>2
        <4> QED
          BY <3>1, <4>1, Zenon DEF RestInserted
      <3>7. InsertedStored'
        <4>1. 1 .. 0 = {}
          OBVIOUS
        <4> QED
          BY <3>1, <4>1, Zenon DEF InsertedStored
      <3>8. WholeBatches'
        <4>1. WholeBatches
          BY <3>1, Zenon DEF StoredOK
        <4>2. ASSUME NEW m \in Threads, Gone(m)' PROVE (NotStored(m) \/ AllStored(m))'
          <5>1. NotStored(m) \/ AllStored(m)
            BY <3>3, <4>1, <4>2, Zenon DEF WholeBatches
          <5> QED
            BY <3>1, <5>1, Zenon DEF NotStored, AllStored, Op
        <4> QED
          BY <4>2, Zenon DEF WholeBatches
      <3> QED
        BY <3>2, <3>5, <3>6, <3>7, <3>8, Zenon DEF StoredOK
    <2>18. LogOK'
      <3>1. LogOK /\ Stored' = Stored /\ store' = store /\ call' = call /\ writer' = writer
        BY <1>1, <2>1, Zenon DEF WriteInv, Stored
      <3>2. \A u \in Threads : Gone(u)' <=> Gone(u)
        BY <2>4, Zenon DEF OnlyLeader
      <3>3. (store.synced <= Len(store.log))'
        BY <3>1, Zenon DEF LogOK
      <3>4. LogDiffers'
        <4>1. LogDiffers
          BY <3>1, Zenon DEF LogOK
        <4> QED
          BY <3>1, <4>1 DEF LogDiffers
      <3>5. LogFrom'
        <4> SUFFICES ASSUME NEW r \in DOMAIN store.log, NEW k \in DOMAIN store.log[r].ops
                     PROVE  (Gone(store.log[r].ops[k].thread))'
          BY <3>1, Zenon DEF LogFrom
        <4>1. store.log[r].ops[k] \in Ops
          BY LogHasOps, Zenon
        <4>2. PICK m \in Threads : m = store.log[r].ops[k].thread
          BY <4>1 DEF Ops
        <4>3. Gone(m)'
          BY <2>6, <3>2, <4>2, Zenon
        <4> QED
          BY <3>1, <4>2, <4>3, Zenon DEF Gone, InQueue
      <3>6. SuccessHeld'
        <4> SUFFICES ASSUME NEW u \in Threads, Gone(u)', writer[u].ok, NEW i \in 1 .. call[u].batch
                     PROVE  Held(u, i)'
          BY <3>1, Zenon DEF SuccessHeld
        <4>1. Held(u, i)
          BY <3>1, <3>2, Zenon DEF LogOK, SuccessHeld
        <4> QED
          BY <3>1, <4>1, HeldStays, Zenon
      <3> QED
        BY <3>3, <3>4, <3>5, <3>6, Zenon DEF LogOK
    <2> QED
      BY <2>4, <2>15, <2>16, <2>17, <2>18, Zenon DEF WriteInv, OnlyLeader
  <1> QED
    BY <1>2, <1>3

-----------------------------------------------------------------------------
\* The leader logs and inserts its group.

LEMMA LeaderGroup ==
    ASSUME WriteInv, NEW t \in Threads, pc[t] \in Grouped
    PROVE  /\ Leads(t) /\ SomeLeader /\ pc[t] \in AtFront
           /\ Formed(t) /\ Numbered(t) /\ Logged(t) /\ tmp_batch \in {<<>>, group.ops}
  BY Zenon DEF Leads, SomeLeader, AtFront, WriteInv, GroupOK

\* What the steps of the leader have in common; x is where it goes.
LeaderStep(t, x) ==
    /\ pc[t] \in Grouped /\ x \in Grouped \ {"log"} /\ FrontStep(t, x) /\ UNCHANGED tmp_batch
    /\ group' \in GroupType /\ group'.last = group.last /\ group'.ops = group.ops
    /\ group'.seq = group.seq /\ IsStore(store')

LEMMA LeaderStepOK ==
    ASSUME WriteInv, NEW t \in Threads, NEW x, LeaderStep(t, x)
    PROVE  /\ OnlyLeader(t, x) /\ Leads(t)' /\ Leads(t) /\ SomeLeader' /\ SomeLeader /\ pc'[t] = x
           /\ \A m \in Threads : (Member(m)' <=> Member(m)) /\ (Gone(m)' <=> Gone(m))
           /\ WriteTypeOK' /\ WritersOK' /\ Formed(t)'
           /\ UNCHANGED <<call, writer, writers>>
  <1>1. OnlyLeader(t, x)
    BY FrontStepOK, Zenon DEF LeaderStep
  <1>2. Leads(t)' /\ SomeLeader' /\ Leads(t) /\ SomeLeader /\ WritersOK' /\ pc'[t] = x
    BY <1>1, LeaderGroup, Zenon DEF OnlyLeader, LeaderStep
  <1>3. UNCHANGED <<call, writer, writers, tmp_batch>>
    BY Zenon DEF LeaderStep, FrontStep
  <1>4. group'.last = group.last /\ group'.ops = group.ops
    BY Zenon DEF LeaderStep
  <1>5. \A m : Member(m)' <=> Member(m)
    BY <1>3, <1>4, Zenon DEF Member
  <1>6. WriteTypeOK'
    BY <1>1, <1>3, Zenon DEF WriteInv, WriteTypeOK, LeaderStep, OnlyLeader, IsStore
  <1>7. Formed(t)
    BY LeaderGroup, Zenon DEF LeaderStep
  <1>8. InQueue(group.last)' /\ OpsDiffer'
    BY <1>3, <1>4, <1>7, Zenon DEF Formed, InQueue, OpsDiffer
  <1>9. OfMembers'
    <2> SUFFICES ASSUME NEW k \in DOMAIN group.ops
                 PROVE  (/\ Member(group.ops[k].thread)
                         /\ group.ops[k].index \in 1 .. call[group.ops[k].thread].batch)'
      BY <1>4, Zenon DEF OfMembers
    <2>1. Member(group.ops[k].thread) /\ group.ops[k].index \in 1 .. call[group.ops[k].thread].batch
      BY <1>7, Zenon DEF Formed, OfMembers
    <2> QED
      BY <1>3, <1>4, <2>1, Zenon DEF Member
  <1>10. OfAllMembers' /\ SyncedFor(t)'
    <2>1. OfAllMembers /\ SyncedFor(t) /\ call' = call
      BY <1>3, <1>7, Zenon DEF Formed
    <2>2. OfAllMembers'
      <3> SUFFICES ASSUME NEW m \in Threads, Member(m)', NEW i \in 1 .. call[m].batch
                   PROVE  \E k \in DOMAIN group'.ops : group'.ops[k] = Op(m, i)
        BY <2>1, Zenon DEF OfAllMembers, Op
      <3>1. PICK k \in DOMAIN group.ops : group.ops[k] = Op(m, i)
        BY <1>5, <2>1, Zenon DEF OfAllMembers
      <3> QED
        BY <1>4, <3>1, Zenon
    <2>3. SyncedFor(t)'
      BY <1>5, <2>1, Zenon DEF SyncedFor
    <2> QED
      BY <2>2, <2>3
  <1>11. \A m \in Threads : Gone(m)' <=> Gone(m)
    BY <1>1, Zenon DEF OnlyLeader
  <1>12. Formed(t)'
    BY <1>8, <1>9, <1>10, Zenon DEF Formed
  <1> QED
    BY <1>1, <1>2, <1>3, <1>5, <1>6, <1>11, <1>12, Zenon

LEMMA LeaderGroupOK ==
    ASSUME WriteInv, NEW t \in Threads, NEW x, LeaderStep(t, x), Numbered(t)', Logged(t)'
    PROVE  GroupOK'
  <1>1. OnlyLeader(t, x) /\ SomeLeader' /\ Formed(t)'
    BY LeaderStepOK, Zenon
  <1>2. tmp_batch \in {<<>>, group.ops}
    BY LeaderGroup, Zenon DEF LeaderStep
  <1>3. tmp_batch' = tmp_batch /\ group'.ops = group.ops
    BY Zenon DEF LeaderStep
  <1> QED
    BY <1>1, <1>2, <1>3, Zenon DEF GroupOK, OnlyLeader

\* A step that stores nothing.
LEMMA LeaderStoredOK ==
    ASSUME WriteInv, NEW t \in Threads, NEW x, LeaderStep(t, x), group'.inserted = group.inserted,
           Stored' = Stored, store'.last_sequence = store.last_sequence,
           ~store'.has_imm => store'.imm = {}
    PROVE  StoredOK'
  <1>1. StoredOK /\ SomeLeader' /\ SomeLeader /\ (\A m \in Threads : Gone(m)' <=> Gone(m)) /\ call' = call
    BY LeaderStepOK, Zenon DEF WriteInv
  <1>2. group'.ops = group.ops /\ group'.seq = group.seq
    BY Zenon DEF LeaderStep
  <1>3. IndexOK' /\ EntriesDiffer'
    BY <1>1, Zenon DEF StoredOK, IndexOK, EntriesDiffer
  <1>4. VisibleGone'
    <2> SUFFICES ASSUME NEW e \in Stored, e.seq <= store.last_sequence PROVE (Gone(e.op.thread))'
      BY Zenon DEF VisibleGone
    <2>1. PICK m \in Threads : m = e.op.thread
      BY DEF Stored, WriteInv, WriteTypeOK, IsStore, Stamped, Ops
    <2>2. Gone(m)'
      BY <1>1, <2>1, Zenon DEF StoredOK, VisibleGone
    <2> QED
      BY <2>1, <2>2, Zenon DEF Gone, InQueue
  <1>5. RestInserted'
    <2>1. RestInserted
      BY <1>1, Zenon DEF StoredOK
    <2>2. \A e : Inserted(e)' <=> Inserted(e)
      BY <1>2, Zenon DEF Inserted, Entry
    <2> QED
      BY <1>1, <2>1, <2>2, Zenon DEF RestInserted
  <1>6. InsertedStored'
    <2>1. InsertedStored
      BY <1>1, Zenon DEF StoredOK
    <2>2. \A k : Entry(k)' = Entry(k)
      BY <1>2, Zenon DEF Entry
    <2>3. \A k \in 1 .. group.inserted : Entry(k) \in Stored
      BY <1>1, <2>1, Zenon DEF InsertedStored
    <2> QED
      BY <2>2, <2>3, Zenon DEF InsertedStored
  <1>7. WholeBatches'
    <2>1. WholeBatches
      BY <1>1, Zenon DEF StoredOK
    <2>2. ASSUME NEW m \in Threads, Gone(m)' PROVE (NotStored(m) \/ AllStored(m))'
      <3>1. NotStored(m) \/ AllStored(m)
        BY <1>1, <2>1, <2>2, Zenon DEF WholeBatches
      <3> QED
        BY <1>1, <3>1, Zenon DEF NotStored, AllStored, Op
    <2> QED
      BY <2>2, Zenon DEF WholeBatches
  <1> QED
    BY <1>3, <1>4, <1>5, <1>6, <1>7, Zenon DEF StoredOK

\* A step that logs nothing.
LEMMA LeaderLogOK ==
    ASSUME WriteInv, NEW t \in Threads, NEW x, LeaderStep(t, x), store'.log = store.log,
           Stored \subseteq Stored', store'.synced \in {store.synced, Len(store.log)}
    PROVE  LogOK'
  <1>1. /\ LogOK /\ (\A m \in Threads : (Gone(m)' <=> Gone(m)) /\ (Member(m)' <=> Member(m)))
        /\ Leads(t)' /\ pc'[t] # "log" /\ UNCHANGED <<call, writer>>
    BY LeaderStepOK, Zenon DEF WriteInv, LeaderStep
  <1>2. \A r \in DOMAIN store.log : r <= store.synced => r <= store'.synced
    BY DEF WriteInv, WriteTypeOK, IsStore
  <1>3. (store.synced <= Len(store.log))'
    <2>1. Len(store.log) <= Len(store.log)
      BY DEF WriteInv, WriteTypeOK, IsStore
    <2> QED
      BY <1>1, <2>1, Zenon DEF LogOK
  <1>4. LogFrom'
    <2> SUFFICES ASSUME NEW r \in DOMAIN store.log, NEW k \in DOMAIN store.log[r].ops
                 PROVE  (\/ Gone(store.log[r].ops[k].thread)
                         \/ \E u \in Threads : Leads(u) /\ pc[u] # "log"
                                               /\ Member(store.log[r].ops[k].thread))'
      BY Zenon DEF LogFrom
    <2>1. store.log[r].ops[k] \in Ops
      BY LogHasOps, Zenon
    <2>2. PICK m \in Threads : m = store.log[r].ops[k].thread
      BY <2>1 DEF Ops
    <2>3. Gone(m) \/ Member(m)
      BY <1>1, <2>2, Zenon DEF LogOK, LogFrom
    <2>4. CASE Gone(m)
      <3>1. Gone(m)'
        BY <1>1, <2>4, Zenon
      <3>2. (Gone(store.log[r].ops[k].thread))'
        BY <2>2, <3>1, Zenon DEF Gone, InQueue
      <3> QED
        BY <3>2, Zenon
    <2>5. CASE Member(m)
      <3>1. Member(m)' /\ m = store'.log[r].ops[k].thread
        BY <1>1, <2>2, <2>5, Zenon
      <3>2. (Member(store.log[r].ops[k].thread))'
        BY <2>2, <3>1, Zenon DEF Member
      <3> QED
        BY <1>1, <3>2, Zenon
    <2> QED
      BY <2>3, <2>4, <2>5
  <1>5. LogDiffers'
    <2>1. LogDiffers
      BY <1>1, Zenon DEF LogOK
    <2> QED
      BY <2>1 DEF LogDiffers
  <1>6. SuccessHeld'
    <2> SUFFICES ASSUME NEW u \in Threads, Gone(u)', writer[u].ok, NEW i \in 1 .. call[u].batch
                 PROVE  Held(u, i)'
      BY <1>1, Zenon DEF SuccessHeld
    <2>1. Held(u, i)
      BY <1>1, Zenon DEF LogOK, SuccessHeld
    <2>2. PICK r \in DOMAIN store.log : \E k \in DOMAIN store.log[r].ops : HeldAt(u, i, r, k)
      BY <2>1, Zenon DEF Held
    <2>. PICK k \in DOMAIN store.log[r].ops : HeldAt(u, i, r, k)
      BY <2>2, Zenon
    <2>3. HeldAt(u, i, r, k)'
      BY <1>1, <1>2, Zenon DEF HeldAt, Op
    <2> QED
      BY <2>3, Zenon DEF Held
  <1> QED
    BY <1>3, <1>4, <1>5, <1>6, Zenon DEF LogOK

\* The write of the group fails.
LEMMA LeaderFails ==
    ASSUME WriteInv, NEW t \in Threads, pc[t] \in {"log", "sync"}, pc' = [pc EXCEPT ![t] = "relock"],
           UNCHANGED <<call, writer, writers, tmp_batch, store>>,
           group' \in GroupType, group'.ok = FALSE, group'.last = group.last, group'.ops = group.ops,
           group'.seq = group.seq, group'.inserted = group.inserted
    PROVE  WriteInv'
  <1>1. pc[t] \in Grouped /\ pc[t] \in AtFront /\ "relock" \in AtFront /\ "relock" \in Grouped \ {"log"}
    BY DEF Grouped, AtFront
  <1>2. IsStore(store')
    BY StoreTyped, Zenon DEF IsStore
  <1>3. LeaderStep(t, "relock")
    BY <1>1, <1>2, Zenon DEF LeaderStep, FrontStep
  <1>4. pc'[t] = "relock" /\ WriteTypeOK' /\ WritersOK'
    BY <1>3, LeaderStepOK, Zenon
  <1>5. Numbered(t)
    BY <1>1, LeaderGroup, Zenon
  <1>6. ~group'.ok
    BY Zenon
  <1>7. Numbered(t)'
    <2>1. pc[t] # "relock" /\ pc'[t] \notin {"log", "sync"}
      BY <1>4
    <2>2. group.inserted = 0
      BY <1>5, Zenon DEF Numbered
    <2> QED
      BY <1>4, <1>5, <1>6, <2>1, <2>2, Zenon DEF Numbered
  <1>8. Logged(t)'
    <2>1. pc'[t] \notin {"sync", "insert"}
      BY <1>4
    <2> QED
      BY <1>6, <2>1, Zenon DEF Logged, InLog
  <1>9. GroupOK'
    BY <1>3, <1>7, <1>8, LeaderGroupOK, Zenon
  <1>10. Stored' = Stored
    BY Zenon DEF Stored
  <1>11. StoredOK'
    BY <1>3, <1>10, StoreTyped, LeaderStoredOK, Zenon
  <1>12. LogOK'
    BY <1>3, <1>10, LeaderLogOK, Zenon
  <1> QED
    BY <1>4, <1>9, <1>11, <1>12, Zenon DEF WriteInv

LEMMA SyncLogInv ==
    ASSUME WriteInv, NEW t \in Threads, SyncLog(t) PROVE WriteInv'
  <1>1. pc[t] = "sync" /\ UNCHANGED <<call, writer, writers, tmp_batch>>
    BY Zenon DEF SyncLog
  <1>2. CASE group' = [group EXCEPT !.ok = FALSE, !.sync_error = TRUE]
             /\ pc' = [pc EXCEPT ![t] = "relock"] /\ UNCHANGED store
    <2>1. group \in GroupType
      BY Zenon DEF WriteInv, WriteTypeOK
    <2>2. group' \in GroupType /\ group'.ok = FALSE /\ group'.last = group.last
          /\ group'.ops = group.ops /\ group'.seq = group.seq /\ group'.inserted = group.inserted
      BY <1>2, <2>1 DEF GroupType
    <2> QED
      BY <1>1, <1>2, <2>2, LeaderFails, Zenon
  <1>3. CASE store' = [store EXCEPT !.synced = Len(store.log)]
             /\ pc' = [pc EXCEPT ![t] = "insert"] /\ UNCHANGED group
    <2>1. pc[t] \in Grouped /\ pc[t] \in AtFront /\ "insert" \in AtFront /\ "insert" \in Grouped \ {"log"}
      BY <1>1 DEF Grouped, AtFront
    <2>2. /\ IsStore(store')
          /\ store'.log = store.log /\ store'.synced = Len(store.log)
          /\ store'.last_sequence = store.last_sequence /\ store'.mem = store.mem
          /\ store'.imm = store.imm /\ store'.tables = store.tables
          /\ store'.has_imm = store.has_imm
      BY <1>3, StoreTyped DEF IsStore
    <2>3. group \in GroupType
      BY Zenon DEF WriteInv, WriteTypeOK
    <2>4. LeaderStep(t, "insert")
      BY <1>1, <1>3, <2>1, <2>2, <2>3, Zenon DEF LeaderStep, FrontStep
    <2>5. pc'[t] = "insert" /\ WriteTypeOK' /\ WritersOK'
      BY <2>4, LeaderStepOK, Zenon
    <2>6. Numbered(t) /\ Logged(t)
      BY <2>1, LeaderGroup, Zenon
    <2>7. Numbered(t)'
      <3>1. pc'[t] \notin {"log", "sync"} /\ pc'[t] # "relock" /\ pc[t] # "relock"
        BY <1>1, <2>5
      <3> QED
        BY <1>3, <2>2, <2>6, <3>1, Zenon DEF Numbered
    <2>8. Logged(t)'
      BY <1>1, <1>3, <2>2, <2>5, <2>6, Zenon DEF Logged, InLog, Record
    <2>9. GroupOK'
      BY <2>4, <2>7, <2>8, LeaderGroupOK, Zenon
    <2>10. Stored' = Stored
      BY <2>2, Zenon DEF Stored
    <2>11. StoredOK'
      BY <1>3, <2>2, <2>4, <2>10, StoreTyped, LeaderStoredOK, Zenon
    <2>12. LogOK'
      BY <2>2, <2>4, <2>10, LeaderLogOK, Zenon
    <2> QED
      BY <2>5, <2>9, <2>11, <2>12, Zenon DEF WriteInv
  <1> QED
    BY <1>2, <1>3, Zenon DEF SyncLog

\* A record was appended, of whose entries none was in the log.
LEMMA RecordLogOK ==
    ASSUME WriteInv, NEW t \in Threads, NEW x, LeaderStep(t, x), pc[t] = "log",
           store'.log = Append(store.log, Record), Stored' = Stored, store'.synced = store.synced
    PROVE  LogOK'
  <1> DEFINE last == Len(store.log) + 1
  <1>1. /\ LogOK /\ (\A m \in Threads : (Gone(m)' <=> Gone(m)) /\ (Member(m)' <=> Member(m)))
        /\ Leads(t)' /\ pc'[t] # "log" /\ UNCHANGED <<call, writer>>
    BY LeaderStepOK, Zenon DEF WriteInv, LeaderStep
  <1>2. store.log \in Seq(LogRecord) /\ Record \in LogRecord /\ Record.ops = group.ops
    BY DEF WriteInv, WriteTypeOK, IsStore, GroupType, Record, LogRecord
  <1>3. /\ store'.log \in Seq(LogRecord) /\ Len(store.log) \in Nat
        /\ DOMAIN store'.log = DOMAIN store.log \cup {last}
        /\ last \notin DOMAIN store.log
        /\ (\A i \in DOMAIN store.log : store'.log[i] = store.log[i])
        /\ store'.log[last] = Record /\ Len(store'.log) = last
    BY <1>2, Appended
  <1>4. store.synced <= last
    BY <1>1, <1>3 DEF LogOK, WriteInv, WriteTypeOK, IsStore
  <1> HIDE DEF last
  <1>5. ASSUME NEW r \in DOMAIN store.log, NEW k \in DOMAIN store.log[r].ops
        PROVE  store.log[r].ops[k].thread \in Threads /\ Gone(store.log[r].ops[k].thread)
    <2>1. store.log[r].ops[k] \in Ops
      BY LogHasOps, Zenon
    <2>2. store.log[r].ops[k].thread \in Threads
      BY <2>1 DEF Ops
    <2>3. \A u \in Threads : Leads(u) => u = t
      BY LeaderStepOK, Zenon DEF OnlyLeader
    <2> QED
      BY <1>1, <2>2, <2>3, Zenon DEF LogOK, LogFrom
  <1>6. ASSUME NEW k \in DOMAIN group.ops
        PROVE  /\ group.ops[k].thread \in Threads /\ Member(group.ops[k].thread)
               /\ ~Gone(group.ops[k].thread)
    <2>1. Formed(t)
      BY LeaderGroup, Zenon DEF LeaderStep
    <2>2. Member(group.ops[k].thread)
      BY <2>1, Zenon DEF Formed, OfMembers
    <2>4. group.ops[k] \in Ops
      BY DEF WriteInv, WriteTypeOK, GroupType
    <2>3. group.ops[k].thread \in Threads
      BY <2>4 DEF Ops
    <2> QED
      BY <2>2, <2>3, Zenon DEF Member, Gone, InQueue
  <1>7. LogFrom'
    <2> SUFFICES ASSUME NEW r \in DOMAIN store'.log, NEW k \in DOMAIN store'.log[r].ops
                 PROVE  (\/ Gone(store.log[r].ops[k].thread)
                         \/ \E u \in Threads : Leads(u) /\ pc[u] # "log"
                                               /\ Member(store.log[r].ops[k].thread))'
      BY Zenon DEF LogFrom
    <2>1. CASE r \in DOMAIN store.log
      <3>1. store'.log[r] = store.log[r]
        BY <1>3, <2>1, Zenon
      <3>2. k \in DOMAIN store.log[r].ops
        BY <3>1, Zenon
      <3>3. PICK m \in Threads : m = store.log[r].ops[k].thread
        BY <1>5, <2>1, <3>2, Zenon
      <3>4. Gone(m)' /\ m = store'.log[r].ops[k].thread
        BY <1>1, <1>5, <2>1, <3>1, <3>2, <3>3, Zenon
      <3> QED
        BY <3>4, Zenon DEF Gone, InQueue
    <2>2. CASE r = last
      <3>1. store'.log[r].ops = group.ops
        BY <1>2, <1>3, <2>2, Zenon
      <3>2. k \in DOMAIN group.ops
        BY <3>1, Zenon
      <3>3. PICK m \in Threads : m = group.ops[k].thread
        BY <1>6, <3>2, Zenon
      <3>4. Member(m)' /\ m = store'.log[r].ops[k].thread
        BY <1>1, <1>6, <3>1, <3>2, <3>3, Zenon
      <3>5. (Member(store.log[r].ops[k].thread))'
        BY <3>4, Zenon DEF Member
      <3> QED
        BY <1>1, <3>5, Zenon
    <2> QED
      BY <1>3, <2>1, <2>2, Zenon
  <1>8. LogDiffers'
    <2>1. \A r \in DOMAIN store.log : \A k \in DOMAIN store.log[r].ops, l \in DOMAIN group.ops :
              store.log[r].ops[k] # group.ops[l]
      BY <1>5, <1>6, Zenon
    <2>2. OpsDiffer
      BY LeaderGroup, Zenon DEF LeaderStep, Formed
    <2>3. LogDiffers
      BY <1>1, Zenon DEF LogOK
    <2> SUFFICES ASSUME NEW r \in DOMAIN store'.log, NEW s \in DOMAIN store'.log,
                        NEW k \in DOMAIN store'.log[r].ops, NEW l \in DOMAIN store'.log[s].ops,
                        store'.log[r].ops[k] = store'.log[s].ops[l]
                 PROVE  r = s /\ k = l
      BY Zenon DEF LogDiffers
    <2>4. CASE r \in DOMAIN store.log /\ s \in DOMAIN store.log
      <3>1. store'.log[r].ops = store.log[r].ops /\ store'.log[s].ops = store.log[s].ops
        BY <1>3, <2>4, Zenon
      <3>2. /\ k \in DOMAIN store.log[r].ops /\ l \in DOMAIN store.log[s].ops
            /\ store.log[r].ops[k] = store.log[s].ops[l]
        BY <3>1, Zenon
      <3> QED
        BY <2>3, <2>4, <3>2 DEF LogDiffers
    <2>5. CASE r \in DOMAIN store.log /\ s = last
      <3>1. store'.log[r].ops = store.log[r].ops /\ store'.log[s].ops = group.ops
        BY <1>2, <1>3, <2>5, Zenon
      <3>2. /\ k \in DOMAIN store.log[r].ops /\ l \in DOMAIN group.ops
            /\ store.log[r].ops[k] = group.ops[l]
        BY <3>1, Zenon
      <3> QED
        BY <2>1, <2>5, <3>2, Zenon
    <2>6. CASE r = last /\ s \in DOMAIN store.log
      <3>1. store'.log[r].ops = group.ops /\ store'.log[s].ops = store.log[s].ops
        BY <1>2, <1>3, <2>6, Zenon
      <3>2. /\ k \in DOMAIN group.ops /\ l \in DOMAIN store.log[s].ops
            /\ store.log[s].ops[l] = group.ops[k]
        BY <3>1, Zenon
      <3> QED
        BY <2>1, <2>6, <3>2, Zenon
    <2>7. CASE r = last /\ s = last
      <3>1. store'.log[r].ops = group.ops /\ store'.log[s].ops = group.ops
        BY <1>2, <1>3, <2>7, Zenon
      <3>2. k \in DOMAIN group.ops /\ l \in DOMAIN group.ops /\ group.ops[k] = group.ops[l]
        BY <3>1, Zenon
      <3> QED
        BY <2>2, <2>7, <3>2, Zenon DEF OpsDiffer
    <2> QED
      BY <1>3, <2>4, <2>5, <2>6, <2>7, Zenon
  <1>9. SuccessHeld'
    <2> SUFFICES ASSUME NEW u \in Threads, Gone(u)', writer[u].ok, NEW i \in 1 .. call[u].batch
                 PROVE  Held(u, i)'
      BY <1>1, Zenon DEF SuccessHeld
    <2>1. Held(u, i)
      BY <1>1, Zenon DEF LogOK, SuccessHeld
    <2>2. PICK r \in DOMAIN store.log : \E k \in DOMAIN store.log[r].ops : HeldAt(u, i, r, k)
      BY <2>1, Zenon DEF Held
    <2>. PICK k \in DOMAIN store.log[r].ops : HeldAt(u, i, r, k)
      BY <2>2, Zenon
    <2>3. store'.log[r] = store.log[r] /\ r \in DOMAIN store'.log
      BY <1>3, Zenon
    <2>4. HeldAt(u, i, r, k)'
      BY <1>1, <2>3, Zenon DEF HeldAt, Op
    <2> QED
      BY <2>3, <2>4, Zenon DEF Held
  <1> QED
    BY <1>3, <1>4, <1>7, <1>8, <1>9, Zenon DEF LogOK

LEMMA AddRecordInv ==
    ASSUME WriteInv, NEW t \in Threads, AddRecord(t) PROVE WriteInv'
  <1>1. pc[t] = "log" /\ UNCHANGED <<call, writer, writers, tmp_batch>>
    BY Zenon DEF AddRecord
  <1>2. CASE group' = [group EXCEPT !.ok = FALSE] /\ pc' = [pc EXCEPT ![t] = "relock"] /\ UNCHANGED store
    <2>1. group \in GroupType
      BY Zenon DEF WriteInv, WriteTypeOK
    <2>2. group' \in GroupType /\ group'.ok = FALSE /\ group'.last = group.last
          /\ group'.ops = group.ops /\ group'.seq = group.seq /\ group'.inserted = group.inserted
      BY <1>2, <2>1 DEF GroupType
    <2> QED
      BY <1>1, <1>2, <2>2, LeaderFails, Zenon
  <1>3. CASE store' = [store EXCEPT !.log = Append(@, [seq |-> group.seq, ops |-> group.ops])]
             /\ pc' = [pc EXCEPT ![t] = IF call[t].sync THEN "sync" ELSE "insert"] /\ UNCHANGED group
    <2> DEFINE x == IF call[t].sync THEN "sync" ELSE "insert"
    <2>1. pc[t] \in Grouped /\ pc[t] \in AtFront /\ x \in AtFront /\ x \in Grouped \ {"log"}
          /\ x # "relock"
      BY <1>1 DEF Grouped, AtFront
    <2>2. store' = [store EXCEPT !.log = Append(store.log, Record)]
      BY <1>3, Zenon DEF Record
    <2>3. group \in GroupType
      BY Zenon DEF WriteInv, WriteTypeOK
    <2>4. Record \in LogRecord
      BY <2>3 DEF GroupType, Record, LogRecord
    <2>5. store.log \in Seq(LogRecord)
      BY StoreTyped DEF IsStore
    <2>6. Append(store.log, Record) \in Seq(LogRecord) /\ Append(store.log, Record) # <<>>
          /\ Append(store.log, Record)[Len(Append(store.log, Record))] = Record
      BY <2>4, <2>5
    <2>7. /\ IsStore(store')
          /\ store'.log = Append(store.log, Record) /\ store'.synced = store.synced
          /\ store'.last_sequence = store.last_sequence /\ store'.mem = store.mem
          /\ store'.imm = store.imm /\ store'.tables = store.tables
          /\ store'.has_imm = store.has_imm
      BY <2>2, <2>6, StoreTyped DEF IsStore
    <2> HIDE DEF x
    <2>8. LeaderStep(t, x)
      BY <1>1, <1>3, <2>1, <2>3, <2>7, Zenon DEF LeaderStep, FrontStep, x
    <2>9. pc'[t] = x /\ WriteTypeOK' /\ WritersOK'
      BY <2>8, LeaderStepOK, Zenon
    <2>10. Numbered(t) /\ Logged(t)
      BY <2>1, LeaderGroup, Zenon
    <2>11. Numbered(t)'
      <3>1. pc[t] \in {"log", "sync"} /\ pc[t] # "relock"
        BY <1>1
      <3> QED
        BY <1>3, <2>1, <2>7, <2>9, <2>10, <3>1, Zenon DEF Numbered
    <2>12. Logged(t)'
      <3>1. call'[t].sync /\ x # "sync" => FALSE
        BY <1>1, Zenon DEF x
      <3> QED
        BY <1>3, <2>6, <2>7, <2>9, <3>1, Zenon DEF Logged, InLog, Record
    <2>13. GroupOK'
      BY <2>8, <2>11, <2>12, LeaderGroupOK, Zenon
    <2>14. Stored' = Stored
      BY <2>7, Zenon DEF Stored
    <2>15. StoredOK'
      BY <1>3, <2>7, <2>8, <2>14, StoreTyped, LeaderStoredOK, Zenon
    <2>16. LogOK'
      BY <1>1, <2>7, <2>8, <2>14, RecordLogOK, Zenon
    <2> QED
      BY <2>9, <2>13, <2>15, <2>16, Zenon DEF WriteInv
  <1> QED
    BY <1>2, <1>3, Zenon DEF AddRecord

\* The next entry of the group is stored.
LEMMA NextStoredOK ==
    ASSUME WriteInv, NEW t \in Threads, NEW x, LeaderStep(t, x),
           group.inserted < Len(group.ops), group'.inserted = group.inserted + 1,
           Stored' = Stored \cup {Entry(group.inserted + 1)},
           store'.last_sequence = store.last_sequence, ~store'.has_imm => store'.imm = {}
    PROVE  StoredOK'
  <1> DEFINE k0 == group.inserted + 1
             e0 == Entry(k0)
             o == group.ops[k0]
  <1>1. StoredOK /\ SomeLeader' /\ SomeLeader /\ (\A m \in Threads : Gone(m)' <=> Gone(m)) /\ call' = call
    BY LeaderStepOK, Zenon DEF WriteInv
  <1>2. group'.ops = group.ops /\ group'.seq = group.seq
    BY Zenon DEF LeaderStep
  <1>3. Formed(t) /\ Numbered(t)
    BY LeaderGroup, Zenon DEF LeaderStep
  <1>4. /\ group.ops \in Seq(Ops) /\ group.seq \in Nat /\ group.inserted \in Nat
        /\ store.last_sequence \in Nat /\ group.seq = store.last_sequence + 1
    BY <1>3 DEF WriteInv, WriteTypeOK, GroupType, IsStore, Numbered
  <1>5. k0 \in DOMAIN group.ops /\ k0 \in Nat /\ k0 \notin 1 .. group.inserted
        /\ \A k : k \in 1 .. group.inserted + 1 <=> (k \in 1 .. group.inserted \/ k = k0)
    BY <1>4
  <1>6. \A k \in 1 .. group.inserted : k \in DOMAIN group.ops /\ group.seq + k - 1 < group.seq + k0 - 1
    BY <1>4
  <1>7. group.seq + k0 - 1 > store.last_sequence /\ ~(group.seq + k0 - 1 <= store.last_sequence)
        /\ \A n \in Nat : n <= store.last_sequence => n # group.seq + k0 - 1
    BY <1>4
  <1>8. \A k : Entry(k).op = group.ops[k] /\ Entry(k).seq = group.seq + k - 1
    BY DEF Entry
  <1>9. \A k : Entry(k)' = Entry(k)
    BY <1>2, Zenon DEF Entry
  <1>10. o \in Ops
    BY <1>4, <1>5
  <1>11. o.thread \in Threads
    BY <1>10 DEF Ops
  <1>12. Member(o.thread) /\ o.index \in 1 .. call[o.thread].batch
    BY <1>3, <1>5, Zenon DEF Formed, OfMembers
  <1>13. ~Gone(o.thread)
    BY <1>12, Zenon DEF Member, Gone, InQueue
  <1>14. \A e \in Stored : e.seq \in Nat /\ e.op \in Ops /\ e.op.thread \in Threads
    BY DEF Stored, WriteInv, WriteTypeOK, IsStore, Stamped, Ops
  <1>15. e0.op = o /\ e0.seq = group.seq + k0 - 1
    BY <1>8, Zenon
  <1> HIDE DEF k0, e0, o
  <1>16. Stored' = Stored \cup {e0}
    BY DEF e0, k0
  <1>17. IndexOK'
    <2> SUFFICES ASSUME NEW e \in Stored', e = e0 \/ e \in Stored
                 PROVE  e.op.index \in 1 .. call[e.op.thread].batch
      BY <1>1, <1>16, Zenon DEF IndexOK
    <2> QED
      BY <1>1, <1>12, <1>15, Zenon DEF StoredOK, IndexOK
  <1>18. VisibleGone'
    <2> SUFFICES ASSUME NEW e \in Stored, e.seq <= store.last_sequence PROVE (Gone(e.op.thread))'
      BY <1>7, <1>15, <1>16, Zenon DEF VisibleGone
    <2>1. PICK m \in Threads : m = e.op.thread
      BY <1>14, Zenon
    <2>2. Gone(m)'
      BY <1>1, <2>1, Zenon DEF StoredOK, VisibleGone
    <2> QED
      BY <2>1, <2>2, Zenon DEF Gone, InQueue
  <1>19. RestInserted'
    <2> SUFFICES ASSUME NEW e \in Stored', e = e0 \/ e \in Stored, e.seq > store.last_sequence
                 PROVE  Inserted(e)'
      BY <1>1, <1>16, Zenon DEF RestInserted
    <2>1. \A k \in 1 .. group.inserted + 1 : e = Entry(k) => Inserted(e)'
      BY <1>9, Zenon DEF Inserted
    <2>2. CASE e = e0
      <3>1. k0 \in 1 .. group.inserted + 1 /\ e = Entry(k0)
        BY <1>5, <2>2, Zenon DEF e0
      <3> QED
        BY <2>1, <3>1, Zenon
    <2>3. CASE e \in Stored
      <3>1. PICK k \in 1 .. group.inserted : e = Entry(k)
        BY <1>1, <2>3, Zenon DEF StoredOK, RestInserted, Inserted
      <3> QED
        BY <1>5, <2>1, <3>1, Zenon
    <2> QED
      BY <2>2, <2>3
  <1>20. InsertedStored'
    <2> SUFFICES ASSUME NEW k \in 1 .. group.inserted + 1 PROVE Entry(k) \in Stored'
      BY <1>9, Zenon DEF InsertedStored
    <2>1. CASE k = k0
      BY <1>16, <2>1, Zenon DEF e0
    <2>2. CASE k \in 1 .. group.inserted
      BY <1>1, <1>16, <2>2, Zenon DEF StoredOK, InsertedStored
    <2> QED
      BY <1>5, <2>1, <2>2, Zenon
  <1>21. ASSUME NEW f \in Stored PROVE f.seq # e0.seq /\ f.op # e0.op
    <2>1. CASE f.seq <= store.last_sequence
      <3>1. Gone(f.op.thread)
        BY <1>1, <2>1, Zenon DEF StoredOK, VisibleGone
      <3>2. f.op # o
        BY <1>13, <3>1, Zenon
      <3> QED
        BY <1>7, <1>14, <1>15, <2>1, <3>2, Zenon
    <2>2. CASE f.seq > store.last_sequence
      <3>1. PICK k \in 1 .. group.inserted : f = Entry(k)
        BY <1>1, <2>2, Zenon DEF StoredOK, RestInserted, Inserted
      <3>2. f.op = group.ops[k] /\ f.seq = group.seq + k - 1 /\ k \in DOMAIN group.ops /\ k # k0
        BY <1>5, <1>6, <1>8, <3>1, Zenon
      <3>3. group.ops[k] # o
        BY <1>3, <1>5, <3>2, Zenon DEF Formed, OpsDiffer, o
      <3>4. group.seq + k - 1 # group.seq + k0 - 1
        BY <1>4, <1>5, <3>2
      <3> QED
        BY <1>15, <3>2, <3>3, <3>4, Zenon
    <2>3. f.seq <= store.last_sequence \/ f.seq > store.last_sequence
      BY <1>4, <1>14
    <2> QED
      BY <2>1, <2>2, <2>3, Zenon
  <1>22. EntriesDiffer'
    <2> SUFFICES ASSUME NEW e \in Stored', NEW f \in Stored', e.seq = f.seq \/ e.op = f.op PROVE e = f
      BY Zenon DEF EntriesDiffer
    <2>1. CASE e \in Stored /\ f \in Stored
      BY <1>1, <2>1, Zenon DEF StoredOK, EntriesDiffer
    <2>2. (e \in Stored \/ e = e0) /\ (f \in Stored \/ f = e0)
      BY <1>16, Zenon
    <2> QED
      BY <1>21, <2>1, <2>2, Zenon
  <1>23. WholeBatches'
    <2> SUFFICES ASSUME NEW u \in Threads, Gone(u)' PROVE (NotStored(u) \/ AllStored(u))'
      BY Zenon DEF WholeBatches
    <2>1. Gone(u) /\ u # o.thread
      BY <1>1, <1>13, Zenon
    <2>2. CASE NotStored(u)
      BY <1>15, <1>16, <2>1, <2>2, Zenon DEF NotStored
    <2>3. CASE AllStored(u)
      BY <1>1, <1>16, <2>3, Zenon DEF AllStored, Op
    <2> QED
      BY <1>1, <2>1, <2>2, <2>3, Zenon DEF StoredOK, WholeBatches
  <1> QED
    BY <1>17, <1>18, <1>19, <1>20, <1>22, <1>23, Zenon DEF StoredOK

LEMMA InsertIntoInv ==
    ASSUME WriteInv, NEW t \in Threads, InsertInto(t) PROVE WriteInv'
  <1>1. pc[t] = "insert" /\ UNCHANGED <<call, writer, writers, tmp_batch>>
    BY Zenon DEF InsertInto
  <1>2. pc[t] \in Grouped /\ pc[t] \in AtFront /\ "insert" \in Grouped \ {"log"}
        /\ "relock" \in Grouped \ {"log"} /\ "relock" \in AtFront
    BY <1>1 DEF Grouped, AtFront
  <1>3. Numbered(t) /\ Logged(t) /\ Formed(t) /\ group \in GroupType
    BY <1>2, LeaderGroup, Zenon DEF WriteInv, WriteTypeOK
  <1>4. CASE group.inserted < Len(group.ops)
    <2> DEFINE e == NextEntry
    <2>1. store' = [store EXCEPT !.mem = @ \cup {e}] /\ group' = [group EXCEPT !.inserted = @ + 1]
          /\ UNCHANGED pc
      BY <1>4, Zenon DEF InsertInto
    <2>2. e \in Stamped /\ e = Entry(group.inserted + 1)
      <3>1. group.ops \in Seq(Ops) /\ group.seq \in Nat /\ group.inserted \in Nat
        BY <1>3 DEF GroupType
      <3>2. group.ops[group.inserted + 1] \in Ops /\ group.seq + group.inserted \in Nat
            /\ group.seq + group.inserted = group.seq + (group.inserted + 1) - 1
        BY <1>4, <3>1
      <3> QED
        BY <3>2 DEF Stamped, NextEntry, Entry
    <2> HIDE DEF e
    <2>3. /\ IsStore(store')
          /\ store'.log = store.log /\ store'.synced = store.synced
          /\ store'.last_sequence = store.last_sequence /\ store'.mem = store.mem \cup {e}
          /\ store'.imm = store.imm /\ store'.tables = store.tables
          /\ store'.has_imm = store.has_imm
      BY <2>1, <2>2, StoreTyped DEF IsStore
    <2>4. /\ group' \in GroupType /\ group'.last = group.last /\ group'.ops = group.ops
          /\ group'.seq = group.seq /\ group'.inserted = group.inserted + 1 /\ group'.ok = group.ok
      <3>1. group \in GroupType /\ group' = [group EXCEPT !.inserted = group.inserted + 1]
        BY <1>3, <2>1, Zenon
      <3> QED
        BY <3>1 DEF GroupType
    <2>5. pc' = [pc EXCEPT ![t] = "insert"]
      BY <1>1, <2>1 DEF WriteInv, WriteTypeOK
    <2>6. LeaderStep(t, "insert")
      BY <1>1, <1>2, <2>3, <2>4, <2>5, Zenon DEF LeaderStep, FrontStep
    <2>7. pc'[t] = "insert" /\ WriteTypeOK' /\ WritersOK'
      BY <2>6, LeaderStepOK, Zenon
    <2>8. Numbered(t)'
      <3>1. pc'[t] \notin {"log", "sync"} /\ pc'[t] # "relock" /\ pc[t] # "relock"
        BY <1>1, <2>7
      <3>2. group.inserted + 1 <= Len(group.ops)
        BY <1>3, <1>4 DEF GroupType
      <3> QED
        BY <1>3, <2>3, <2>4, <3>1, <3>2, Zenon DEF Numbered
    <2>9. Logged(t)'
      <3>1. pc[t] \in {"sync", "insert"} /\ pc[t] # "sync" /\ pc'[t] \in {"sync", "insert"} /\ pc'[t] # "sync"
        BY <1>1, <2>7
      <3> QED
        BY <1>1, <1>3, <2>3, <2>4, <3>1, Zenon DEF Logged, InLog, Record
    <2>10. GroupOK'
      BY <2>6, <2>8, <2>9, LeaderGroupOK, Zenon
    <2>11. Stored' = Stored \cup {e}
      BY <2>3 DEF Stored
    <2>12. StoredOK'
      BY <1>4, <2>2, <2>3, <2>4, <2>6, <2>11, StoreTyped, NextStoredOK, Zenon
    <2>13. LogOK'
      BY <2>3, <2>6, <2>11, LeaderLogOK, Zenon
    <2> QED
      BY <2>7, <2>10, <2>12, <2>13, Zenon DEF WriteInv
  <1>5. CASE ~(group.inserted < Len(group.ops))
    <2>1. pc' = [pc EXCEPT ![t] = "relock"] /\ UNCHANGED <<store, group>>
      BY <1>5, Zenon DEF InsertInto
    <2>2. LeaderStep(t, "relock")
      BY <1>1, <1>2, <1>3, <2>1, StoreTyped, Zenon DEF LeaderStep, FrontStep, IsStore
    <2>3. pc'[t] = "relock" /\ WriteTypeOK' /\ WritersOK'
      BY <2>2, LeaderStepOK, Zenon
    <2>4. group.inserted = Len(group.ops)
      BY <1>3, <1>5 DEF GroupType, Numbered
    <2>5. Numbered(t)'
      <3>1. pc'[t] \notin {"log", "sync"} /\ pc[t] # "relock"
        BY <1>1, <2>3
      <3> QED
        BY <1>3, <2>1, <2>4, <3>1, Zenon DEF Numbered
    <2>6. Logged(t)'
      <3>1. pc[t] \in {"sync", "insert"} /\ pc[t] # "sync"
        BY <1>1
      <3> QED
        BY <1>1, <1>3, <2>1, <3>1, Zenon DEF Logged, InLog, Record
    <2>7. GroupOK'
      BY <2>2, <2>5, <2>6, LeaderGroupOK, Zenon
    <2>8. Stored' = Stored
      BY <2>1, Zenon DEF Stored
    <2>9. StoredOK'
      BY <2>1, <2>2, <2>8, StoreTyped, LeaderStoredOK, Zenon
    <2>10. LogOK'
      BY <2>1, <2>2, <2>8, LeaderLogOK, Zenon
    <2> QED
      BY <2>3, <2>7, <2>9, <2>10, Zenon DEF WriteInv
  <1> QED
    BY <1>4, <1>5

-----------------------------------------------------------------------------
\* The group becomes visible and leaves.

\* What FinishWrite does, apart from the errors of the background.
Finishes(t) ==
    /\ pc[t] = "relock" /\ LeaveQueue(t, group.last, group.ok)
    /\ group' = NoGroup /\ tmp_batch' = ClearTmpBatch(group.ops) /\ UNCHANGED call
    /\ store' = [store EXCEPT !.last_sequence = group.seq + Len(group.ops) - 1]

\* Those of the group are gone, and what it stored is seen.
Finished(t) ==
    /\ \A u \in Threads : Gone(u)' <=> (Gone(u) \/ Member(u))
    /\ \A u \in Threads : Member(u) => writer'[u].ok = group.ok
    /\ \A u \in Threads : ~Member(u) => writer'[u].ok = writer[u].ok
    /\ ~SomeLeader' /\ call' = call /\ Stored' = Stored
    /\ store'.log = store.log /\ store'.synced = store.synced
    /\ store'.has_imm = store.has_imm /\ store'.imm = store.imm
    /\ store'.last_sequence = group.seq + Len(group.ops) - 1

LEMMA FinishedFacts ==
    ASSUME WriteInv, NEW t \in Threads, Finishes(t)
    PROVE  WriteTypeOK' /\ WritersOK' /\ Finished(t) /\ pc[t] \in Grouped /\ SomeLeader
  <1>1. pc[t] \in Grouped /\ pc[t] \in AtFront
    BY DEF Finishes, Grouped, AtFront
  <1>2. Formed(t) /\ Numbered(t) /\ SomeLeader
    BY <1>1, LeaderGroup, Zenon
  <1>3. InQueue(group.last)
    BY <1>2, Zenon DEF Formed
  <1>4. group \in GroupType
    BY Zenon DEF WriteInv, WriteTypeOK
  <1>5. group.ok \in BOOLEAN /\ group.seq \in Nat /\ Len(group.ops) \in Nat
    BY <1>4 DEF GroupType
  <1>6. LeaveQueue(t, group.last, group.ok) /\ call' = call
    BY Zenon DEF Finishes
  <1>7. Told(t, group.last, group.ok)
    BY <1>1, <1>3, <1>5, <1>6, LeftWriters, Zenon
  <1>8. Left(t, group.last)
    BY <1>1, <1>3, <1>5, <1>6, LeftQueue, Zenon
  <1>9. \A u : Member(u) <=> Taken(group.last, u)
    BY <1>3, MembersAreTaken, Zenon
  <1>10. group.seq + Len(group.ops) - 1 \in Nat
    <2>1. group.seq = store.last_sequence + 1 /\ store.last_sequence \in Nat
      BY <1>2, StoreTyped DEF Numbered, IsStore
    <2> QED
      BY <1>5, <2>1
  <1>11. store' = [store EXCEPT !.last_sequence = group.seq + Len(group.ops) - 1]
    BY Zenon DEF Finishes
  <1>12. /\ IsStore(store')
         /\ store'.log = store.log /\ store'.synced = store.synced
         /\ store'.last_sequence = group.seq + Len(group.ops) - 1 /\ store'.mem = store.mem
         /\ store'.imm = store.imm /\ store'.tables = store.tables
         /\ store'.has_imm = store.has_imm
    BY <1>10, <1>11, StoreTyped DEF IsStore
  <1>13. Stored' = Stored
    BY <1>12, Zenon DEF Stored
  <1>14. ~SomeLeader'
    BY <1>8, Zenon DEF Left, SomeLeader
  <1>15. Finished(t)
    BY <1>6, <1>7, <1>8, <1>9, <1>12, <1>13, <1>14, Zenon DEF Finished, Told, Left
  <1>16. group' \in GroupType
    BY DEF Finishes, NoGroup, GroupType
  <1>17. tmp_batch' \in Seq(Ops)
    <2>1. <<>> \in Seq(Ops) /\ tmp_batch \in Seq(Ops)
      BY DEF WriteInv, WriteTypeOK
    <2> QED
      BY <2>1, Zenon DEF Finishes, ClearTmpBatch
  <1>18. WriteTypeOK'
    BY <1>6, <1>7, <1>8, <1>12, <1>16, <1>17, Zenon DEF WriteInv, WriteTypeOK, IsStore, Told, Left
  <1> QED
    BY <1>1, <1>2, <1>8, <1>15, <1>18, Zenon DEF Left

LEMMA FinishedGroupOK ==
    ASSUME WriteInv, NEW t \in Threads, Finishes(t) PROVE GroupOK'
  <1>1. ~SomeLeader' /\ pc[t] \in Grouped
    BY FinishedFacts, Zenon DEF Finished
  <1>2. tmp_batch \in {<<>>, group.ops}
    BY <1>1, LeaderGroup, Zenon
  <1>3. tmp_batch' = <<>>
    BY <1>2, Zenon DEF Finishes, ClearTmpBatch
  <1> QED
    BY <1>1, <1>3, Zenon DEF GroupOK, SomeLeader

LEMMA EntryThreads ==
    ASSUME WriteInv, NEW t \in Threads, Formed(t), NEW k \in DOMAIN group.ops
    PROVE  group.ops[k].thread \in Threads /\ Member(group.ops[k].thread)
  <1>1. group.ops[k] \in Ops
    BY DEF WriteInv, WriteTypeOK, GroupType
  <1>2. group.ops[k].thread \in Threads
    BY <1>1 DEF Ops
  <1> QED
    BY <1>2, Zenon DEF Formed, OfMembers

\* Where the entries of the group are.
LEMMA GroupEntries ==
    ASSUME WriteInv, NEW t \in Threads, pc[t] = "relock"
    PROVE  /\ group.ok => \A k \in DOMAIN group.ops : Entry(k) \in Stored
           /\ \A e \in Stored : e.seq > store.last_sequence =>
                 group.ok /\ \E k \in DOMAIN group.ops : e = Entry(k)
           /\ \A k \in DOMAIN group.ops :
                 group.ops[k].thread \in Threads /\ Member(group.ops[k].thread)
  <1>1. pc[t] \in Grouped
    BY DEF Grouped
  <1>2. Formed(t) /\ Numbered(t) /\ SomeLeader
    BY <1>1, LeaderGroup, Zenon
  <1>3. group \in GroupType
    BY Zenon DEF WriteInv, WriteTypeOK
  <1>4. group.ops \in Seq(Ops)
    BY <1>3 DEF GroupType
  <1>5. CASE group.ok
    <2>1. group.inserted = Len(group.ops)
      BY <1>2, <1>5, Zenon DEF Numbered
    <2>2. DOMAIN group.ops = 1 .. group.inserted
      BY <1>4, <2>1
    <2>3. \A k \in DOMAIN group.ops : Entry(k) \in Stored
      BY <1>2, <2>2, Zenon DEF WriteInv, StoredOK, InsertedStored
    <2>4. \A e \in Stored : e.seq > store.last_sequence => \E k \in DOMAIN group.ops : e = Entry(k)
      BY <2>2, Zenon DEF WriteInv, StoredOK, RestInserted, Inserted
    <2> QED
      BY <1>2, <1>4, <1>5, <2>3, <2>4, EntryThreads, Zenon
  <1>6. CASE ~group.ok
    <2>1. group.inserted = 0
      BY <1>2, <1>6, Zenon DEF Numbered
    <2>2. 1 .. group.inserted = {}
      BY <2>1
    <2>3. \A e \in Stored : ~(e.seq > store.last_sequence)
      BY <2>2, Zenon DEF WriteInv, StoredOK, RestInserted, Inserted
    <2> QED
      BY <1>2, <1>4, <1>6, <2>3, EntryThreads, Zenon
  <1> QED
    BY <1>5, <1>6

LEMMA FinishedStoredOK ==
    ASSUME WriteInv, NEW t \in Threads, Finishes(t) PROVE StoredOK'
  <1>1. Finished(t) /\ pc[t] = "relock" /\ pc[t] \in Grouped
    BY FinishedFacts, Zenon DEF Finishes
  <1>2. /\ \A u \in Threads : Gone(u)' <=> (Gone(u) \/ Member(u))
        /\ ~SomeLeader' /\ call' = call /\ Stored' = Stored
        /\ store'.has_imm = store.has_imm /\ store'.imm = store.imm
        /\ store'.last_sequence = group.seq + Len(group.ops) - 1
    BY <1>1, Zenon DEF Finished
  <1>3. StoredOK /\ Formed(t) /\ Numbered(t)
    BY <1>1, LeaderGroup, Zenon DEF WriteInv
  <1>4. /\ group.ok => \A k \in DOMAIN group.ops : Entry(k) \in Stored
        /\ \A e \in Stored : e.seq > store.last_sequence =>
              group.ok /\ \E k \in DOMAIN group.ops : e = Entry(k)
        /\ \A k \in DOMAIN group.ops :
              group.ops[k].thread \in Threads /\ Member(group.ops[k].thread)
    BY <1>1, GroupEntries, Zenon
  <1>5. \A k : Entry(k).op = group.ops[k] /\ Entry(k).seq = group.seq + k - 1
    BY DEF Entry
  <1>6. /\ group.ops \in Seq(Ops) /\ group.seq = store.last_sequence + 1 /\ store.last_sequence \in Nat
        /\ group.seq \in Nat
    BY <1>3 DEF WriteInv, WriteTypeOK, GroupType, IsStore, Numbered
  <1>7. \A e \in Stored : e.seq \in Nat /\ e.op.thread \in Threads
    BY DEF Stored, WriteInv, WriteTypeOK, IsStore, Stamped, Ops
  <1>8. ASSUME NEW e \in Stored
        PROVE  (Gone(e.op.thread) \/ Member(e.op.thread)) /\ ~(e.seq > store'.last_sequence)
    <2>1. CASE e.seq <= store.last_sequence
      <3>1. Gone(e.op.thread)
        BY <1>3, <2>1, Zenon DEF StoredOK, VisibleGone
      <3>2. e.seq \in Nat /\ Len(group.ops) \in Nat
        BY <1>6, <1>7
      <3>3. ~(e.seq > group.seq + Len(group.ops) - 1)
        BY <1>6, <2>1, <3>2
      <3> QED
        BY <1>2, <3>1, <3>3, Zenon
    <2>2. CASE e.seq > store.last_sequence
      <3>1. PICK k \in DOMAIN group.ops : e = Entry(k)
        BY <1>4, <2>2, Zenon
      <3>2. e.op = group.ops[k] /\ e.seq = group.seq + k - 1
        BY <1>5, <3>1, Zenon
      <3>3. ~(group.seq + k - 1 > group.seq + Len(group.ops) - 1)
        BY <1>6
      <3> QED
        BY <1>2, <1>4, <3>2, <3>3, Zenon
    <2>3. e.seq <= store.last_sequence \/ e.seq > store.last_sequence
      BY <1>6, <1>7
    <2> QED
      BY <2>1, <2>2, <2>3
  <1>9. IndexOK' /\ EntriesDiffer' /\ (~store'.has_imm => store'.imm = {})
    BY <1>2, <1>3, Zenon DEF StoredOK, IndexOK, EntriesDiffer
  <1>10. VisibleGone'
    <2> SUFFICES ASSUME NEW e \in Stored PROVE (Gone(e.op.thread))'
      BY <1>2, Zenon DEF VisibleGone
    <2>1. PICK m \in Threads : m = e.op.thread
      BY <1>7, Zenon
    <2>2. Gone(m)'
      BY <1>2, <1>8, <2>1, Zenon
    <2> QED
      BY <2>1, <2>2, Zenon DEF Gone, InQueue
  <1>11. RestInserted'
    BY <1>2, <1>8, Zenon DEF RestInserted
  <1>12. InsertedStored'
    BY <1>2, Zenon DEF InsertedStored
  <1>13. WholeBatches'
    <2> SUFFICES ASSUME NEW u \in Threads, Gone(u)' PROVE NotStored(u) \/ AllStored(u)
      BY <1>2, Zenon DEF WholeBatches, NotStored, AllStored, Op
    <2>1. CASE Gone(u)
      BY <1>3, <2>1, Zenon DEF StoredOK, WholeBatches
    <2>2. CASE Member(u) /\ ~Gone(u) /\ group.ok
      <3> SUFFICES ASSUME NEW i \in 1 .. call[u].batch PROVE \E e \in Stored : e.op = Op(u, i)
        BY Zenon DEF AllStored
      <3>1. PICK k \in DOMAIN group.ops : group.ops[k] = Op(u, i)
        BY <1>3, <2>2, Zenon DEF Formed, OfAllMembers
      <3>2. Entry(k) \in Stored /\ Entry(k).op = Op(u, i)
        BY <1>4, <1>5, <2>2, <3>1, Zenon
      <3> QED
        BY <3>2, Zenon
    <2>3. CASE Member(u) /\ ~Gone(u) /\ ~group.ok
      <3> SUFFICES ASSUME NEW e \in Stored, e.op.thread = u PROVE FALSE
        BY Zenon DEF NotStored
      <3>1. ~(e.seq > store.last_sequence)
        BY <1>4, <2>3, Zenon
      <3>2. e.seq <= store.last_sequence
        BY <1>6, <1>7, <3>1
      <3> QED
        BY <1>3, <2>3, <3>2, Zenon DEF StoredOK, VisibleGone
    <2> QED
      BY <1>2, <2>1, <2>2, <2>3, Zenon
  <1> QED
    BY <1>9, <1>10, <1>11, <1>12, <1>13, Zenon DEF StoredOK

LEMMA FinishedLogOK ==
    ASSUME WriteInv, NEW t \in Threads, Finishes(t) PROVE LogOK'
  <1>1. Finished(t) /\ pc[t] = "relock" /\ pc[t] \in Grouped
    BY FinishedFacts, Zenon DEF Finishes
  <1>2. /\ \A u \in Threads : Gone(u)' <=> (Gone(u) \/ Member(u))
        /\ call' = call /\ Stored' = Stored
        /\ store'.log = store.log /\ store'.synced = store.synced
    BY <1>1, Zenon DEF Finished
  <1>3. LogOK /\ Formed(t) /\ Numbered(t) /\ Logged(t)
    BY <1>1, LeaderGroup, Zenon DEF WriteInv
  <1>4. group.ok => \A k \in DOMAIN group.ops : Entry(k) \in Stored
    BY <1>1, GroupEntries, Zenon
  <1>5. LogFrom'
    <2> SUFFICES ASSUME NEW r \in DOMAIN store.log, NEW k \in DOMAIN store.log[r].ops
                 PROVE  (Gone(store.log[r].ops[k].thread))'
      BY <1>2, Zenon DEF LogFrom
    <2>1. store.log[r].ops[k] \in Ops
      BY LogHasOps, Zenon
    <2>2. PICK m \in Threads : m = store.log[r].ops[k].thread
      BY <2>1 DEF Ops
    <2>3. Gone(m) \/ Member(m)
      BY <1>3, <2>2, Zenon DEF LogOK, LogFrom
    <2>4. Gone(m)'
      BY <1>2, <2>3, Zenon
    <2> QED
      BY <1>2, <2>2, <2>4, Zenon DEF Gone, InQueue
  <1>6. LogDiffers'
    <2>1. LogDiffers
      BY <1>3, Zenon DEF LogOK
    <2> QED
      BY <1>2, <2>1 DEF LogDiffers
  <1>7. SuccessHeld'
    <2> SUFFICES ASSUME NEW u \in Threads, Gone(u)', writer'[u].ok, NEW i \in 1 .. call[u].batch
                 PROVE  Held(u, i)'
      BY <1>2, Zenon DEF SuccessHeld
    <2>1. ASSUME ~Member(u) PROVE Held(u, i)
      <3>1. Gone(u) /\ writer[u].ok
        BY <1>1, <1>2, <2>1, Zenon DEF Finished
      <3> QED
        BY <1>3, <3>1, Zenon DEF LogOK, SuccessHeld
    <2>2. ASSUME Member(u) PROVE Held(u, i)
      <3>1. group.ok
        BY <1>1, <2>2, Zenon DEF Finished
      <3>2. store.log # <<>> /\ store.log[Len(store.log)] = Record
        BY <1>1, <1>3, <3>1, Zenon DEF Logged, InLog
      <3>3. Record.ops = group.ops /\ Record.seq = group.seq
        BY DEF Record
      <3>4. PICK k \in DOMAIN group.ops : group.ops[k] = Op(u, i)
        BY <1>3, <2>2, Zenon DEF Formed, OfAllMembers
      <3>5. Len(store.log) \in DOMAIN store.log /\ Len(store.log) <= Len(store.log)
        <4>1. store.log \in Seq(LogRecord)
          BY StoreTyped DEF IsStore
        <4> QED
          BY <3>2, <4>1
      <3>6. call[u].sync => Len(store.log) <= store.synced
        <4>1. call[u].sync => call[t].sync
          BY <1>3, <2>2, Zenon DEF Formed, SyncedFor
        <4>2. call[t].sync => store.synced = Len(store.log)
          <5>1. pc[t] # "sync"
            BY <1>1
          <5> QED
            BY <1>1, <1>3, <3>1, <5>1, Zenon DEF Logged, InLog
        <4> QED
          BY <3>5, <4>1, <4>2, Zenon
      <3>7. [op |-> Op(u, i), seq |-> group.seq + k - 1] \in Stored
        <4>1. Entry(k) \in Stored
          BY <1>4, <3>1, Zenon
        <4> QED
          BY <3>4, <4>1, Zenon DEF Entry
      <3>8. HeldAt(u, i, Len(store.log), k)
        BY <3>2, <3>3, <3>4, <3>6, <3>7, Zenon DEF HeldAt
      <3>9. k \in DOMAIN store.log[Len(store.log)].ops
        BY <3>2, <3>3, Zenon
      <3> QED
        BY <3>5, <3>8, <3>9, Zenon DEF Held
    <2>3. Held(u, i)
      BY <2>1, <2>2
    <2>4. PICK r \in DOMAIN store.log : \E k \in DOMAIN store.log[r].ops : HeldAt(u, i, r, k)
      BY <2>3, Zenon DEF Held
    <2>5. PICK k \in DOMAIN store.log[r].ops : HeldAt(u, i, r, k)
      BY <2>4, Zenon
    <2>6. HeldAt(u, i, r, k)'
      BY <1>2, <2>5, Zenon DEF HeldAt, Op
    <2>7. r \in DOMAIN store'.log /\ k \in DOMAIN store'.log[r].ops
      BY <1>2, <2>5, Zenon
    <2> QED
      BY <2>6, <2>7, Zenon DEF Held
  <1>8. (store.synced <= Len(store.log))'
    BY <1>2, <1>3, Zenon DEF LogOK
  <1> QED
    BY <1>5, <1>6, <1>7, <1>8, Zenon DEF LogOK

LEMMA FinishWriteInv ==
    ASSUME WriteInv, NEW t \in Threads, FinishWrite(t) PROVE WriteInv'
  <1>1. Finishes(t)
    BY Zenon DEF FinishWrite, Finishes
  <1> QED
    BY <1>1, FinishedFacts, FinishedGroupOK, FinishedStoredOK, FinishedLogOK, Zenon DEF WriteInv

-----------------------------------------------------------------------------
\* The theorems.

LEMMA StartsRight ==
    ASSUME NEW c \in Calls, WriteInit(c) PROVE WriteInv
  <1>1. /\ call \in [Threads -> Call] /\ \A t \in Threads : call[t].compact => call[t].batch = 0
        /\ pc = [t \in Threads |-> "idle"] /\ writers = <<>>
        /\ writer = [t \in Threads |-> [done |-> FALSE, ok |-> TRUE, signal |-> FALSE]]
        /\ group = NoGroup /\ tmp_batch = <<>>
        /\ store = [log |-> <<>>, synced |-> 0, mem |-> {}, imm |-> {}, has_imm |-> FALSE,
                    tables |-> {}, level0 |-> 0, last_sequence |-> 0]
    BY CallsAssumption, Zenon DEF WriteInit
  <1>2. WriteTypeOK
    <2>1. writer \in [Threads -> WriterType]
      BY <1>1 DEF WriterType
    <2>2. writers \in Seq(Threads) /\ tmp_batch \in Seq(Ops)
      BY <1>1
    <2>3. group \in GroupType
      BY <1>1 DEF GroupType, NoGroup
    <2>4. IsStore(store)
      BY <1>1 DEF IsStore
    <2>5. pc \in [Threads -> {"idle", "queue"} \cup AtFront \cup Out]
      BY <1>1
    <2> QED
      BY <1>1, <2>1, <2>2, <2>3, <2>4, <2>5, Zenon DEF WriteTypeOK
  <1>3. DOMAIN writers = {} /\ DOMAIN store.log = {} /\ Len(store.log) = 0 /\ store.synced = 0
    BY <1>1
  <1>4. \A t \in Threads : pc[t] = "idle" /\ ~writer[t].done /\ ~Gone(t) /\ ~Leads(t)
    BY <1>1 DEF Gone, Leads, Grouped
  <1>5. ~SomeLeader
    BY <1>4, Zenon DEF SomeLeader
  <1>6. WritersOK
    <2>1. Once /\ \A i \in DOMAIN writers : Waits(i)
      BY <1>3, Zenon DEF Once
    <2>2. \A t \in Threads : PlaceOK(t)
      BY <1>4 DEF PlaceOK, AtFront, Grouped
    <2> QED
      BY <2>1, <2>2, Zenon DEF WritersOK
  <1>7. GroupOK
    BY <1>1, <1>4, <1>5, Zenon DEF GroupOK
  <1>8. StoredOK
    <2>1. Stored = {} /\ store.imm = {}
      BY <1>1 DEF Stored
    <2>2. IndexOK /\ VisibleGone /\ RestInserted /\ EntriesDiffer
      BY <2>1, Zenon DEF IndexOK, VisibleGone, RestInserted, EntriesDiffer
    <2>3. InsertedStored /\ WholeBatches
      BY <1>4, <1>5, Zenon DEF InsertedStored, WholeBatches
    <2> QED
      BY <2>1, <2>2, <2>3, Zenon DEF StoredOK
  <1>9. LogOK
    <2>1. LogFrom /\ LogDiffers
      BY <1>3, Zenon DEF LogFrom, LogDiffers
    <2>2. SuccessHeld
      BY <1>4, Zenon DEF SuccessHeld
    <2>3. store.synced <= Len(store.log)
      BY <1>3
    <2> QED
      BY <2>1, <2>2, <2>3, Zenon DEF LogOK
  <1> QED
    BY <1>2, <1>6, <1>7, <1>8, <1>9, Zenon DEF WriteInv

LEMMA ThreadKeepsInv ==
    ASSUME WriteInv, NEW t \in Threads, Thread(t) PROVE WriteInv'
  <1>1. CASE Write(t)
    BY <1>1, WriteActionInv, Zenon
  <1>2. CASE QueueWake(t)
    BY <1>2, QueueWakeInv, Zenon
  <1>3. CASE Delay(t) \/ Slept(t) \/ WaitForRoom(t) \/ RoomWake(t)
    BY <1>3, DelayInv, Zenon
  <1>4. CASE HaveRoom(t)
    BY <1>4, HaveRoomInv, Zenon
  <1>5. CASE SwitchMemTable(t)
    BY <1>5, SwitchMemTableInv, Zenon
  <1>6. CASE NoRoomError(t)
    BY <1>6, NoRoomErrorInv, Zenon
  <1>7. CASE AddRecord(t)
    BY <1>7, AddRecordInv, Zenon
  <1>8. CASE SyncLog(t)
    BY <1>8, SyncLogInv, Zenon
  <1>9. CASE InsertInto(t)
    BY <1>9, InsertIntoInv, Zenon
  <1>10. CASE FinishWrite(t)
    BY <1>10, FinishWriteInv, Zenon
  <1>11. CASE ImmWake(t)
    BY <1>11, ImmWakeInv, Zenon
  <1> QED
    BY <1>1, <1>2, <1>3, <1>4, <1>5, <1>6, <1>7, <1>8, <1>9, <1>10, <1>11, Zenon DEF Thread

\* The invariant above holds in every reachable state of the writers and the background
\* thread of DBImpl, whatever fails and in whatever order they take the mutex.
THEOREM WriteInvHolds == WriteSpec => []WriteInv
  <1>1. (\E c \in Calls : WriteInit(c)) => WriteInv
    BY StartsRight, Zenon
  <1>2. WriteInv /\ [WriteNext]_writeVars => WriteInv'
    <2> SUFFICES ASSUME WriteInv, [WriteNext]_writeVars PROVE WriteInv'
      OBVIOUS
    <2>1. CASE \E t \in Threads : Thread(t)
      BY <2>1, ThreadKeepsInv, Zenon
    <2>2. CASE Background \/ Close \/ Closed
      BY <2>2, BackgroundInv, Zenon
    <2>3. CASE UNCHANGED writeVars
      <3>1. UNCHANGED <<call, pc, writer, writers, group, tmp_batch>> /\ UNCHANGED store
        BY <2>3, Zenon DEF writeVars
      <3>2. IsStore(store')
        BY <3>1, StoreTyped, Zenon DEF IsStore
      <3> QED
        BY <3>1, <3>2, SameStore, StoreRetyped, StoreStepKeepsInv, Zenon
    <2> QED
      BY <2>1, <2>2, <2>3, Zenon DEF WriteNext
  <1> QED
    BY <1>1, <1>2, PTL DEF WriteSpec

LEMMA InvGivesAtomic == ASSUME WriteInv PROVE BatchesAreAtomic
  <1> DEFINE seen == {e \in Stored : e.seq <= store.last_sequence}
             index(t) == {e.op.index : e \in {x \in seen : x.op.thread = t}}
  <1>1. StoredOK
    BY Zenon DEF WriteInv
  <1>2. \A e \in Stored : e.op \in Ops /\ (e.seq <= store.last_sequence \/ e.seq > store.last_sequence)
    BY DEF Stored, WriteInv, WriteTypeOK, IsStore, Stamped
  <1>3. ASSUME NEW t \in Threads, index(t) # {} PROVE index(t) = 1 .. call[t].batch
    <2>1. PICK e \in seen : e.op.thread = t
      BY <1>3, Zenon
    <2>2. Gone(t) /\ ~NotStored(t)
      BY <1>1, <2>1, Zenon DEF StoredOK, VisibleGone, NotStored
    <2>3. AllStored(t)
      BY <1>1, <2>2, Zenon DEF StoredOK, WholeBatches
    <2>4. ~\E i \in DOMAIN writers : writers[i] = t
      BY <2>2, Zenon DEF Gone, InQueue
    <2>5. index(t) \subseteq 1 .. call[t].batch
      BY <1>1, Zenon DEF StoredOK, IndexOK
    <2>6. ASSUME NEW i \in 1 .. call[t].batch PROVE i \in index(t)
      <3>1. PICK f \in Stored : f.op = Op(t, i)
        BY <2>3, Zenon DEF AllStored
      <3>2. f.op.thread = t /\ f.op.index = i
        BY <3>1 DEF Op
      <3>3. ~(f.seq > store.last_sequence)
        <4>1. SUFFICES ASSUME f.seq > store.last_sequence PROVE FALSE
          OBVIOUS
        <4>2. SomeLeader /\ Inserted(f)
          BY <1>1, <4>1, Zenon DEF StoredOK, RestInserted
        <4>3. PICK u \in Threads : Leads(u) /\ Formed(u) /\ Numbered(u)
          BY <4>2, Zenon DEF SomeLeader, WriteInv, GroupOK
        <4>4. PICK k \in 1 .. group.inserted : f = Entry(k)
          BY <4>2, Zenon DEF Inserted
        <4>5. k \in DOMAIN group.ops
          BY <4>3, <4>4 DEF WriteInv, WriteTypeOK, GroupType, Numbered
        <4>6. group.ops[k] = f.op
          BY <4>4 DEF Entry
        <4>7. Member(t)
          BY <3>2, <4>3, <4>5, <4>6, Zenon DEF Formed, OfMembers
        <4> QED
          BY <2>4, <4>7, Zenon DEF Member
      <3>4. f \in seen
        BY <1>2, <3>3, Zenon
      <3> QED
        BY <3>2, <3>4, Zenon
    <2> QED
      BY <2>5, <2>6, Zenon
  <1>4. \A t \in Threads : index(t) \in {{}, 1 .. call[t].batch}
    BY <1>3, Zenon
  <1>5. \A e, f \in Stored : e.seq = f.seq \/ e.op = f.op => e = f
    BY <1>1, Zenon DEF StoredOK, EntriesDiffer
  <1> QED
    BY <1>4, <1>5, Zenon DEF BatchesAreAtomic

\* A reader between any two steps of the writers sees of each batch all of its entries or
\* none, and no two entries share a sequence number, however batches are put into groups.
THEOREM BatchesStayAtomic == WriteSpec => []BatchesAreAtomic
  BY WriteInvHolds, InvGivesAtomic, PTL

LEMMA InvGivesLogged == ASSUME WriteInv PROVE SuccessIsLogged
  <1> SUFFICES ASSUME NEW t \in Threads, writer[t].ok, writer[t].done \/ pc[t] = "done",
                      NEW i \in 1 .. call[t].batch
               PROVE  LET in(ops) == {k \in DOMAIN ops : ops[k] = [thread |-> t, index |-> i]}
                          places == UNION {{<<r, k>> : k \in in(store.log[r].ops)} :
                                              r \in DOMAIN store.log}
                      IN  /\ Cardinality(places) = 1
                          /\ \A p \in places :
                                 /\ call[t].sync => p[1] <= store.synced
                                 /\ [op |-> [thread |-> t, index |-> i],
                                     seq |-> store.log[p[1]].seq + p[2] - 1] \in Stored
    BY Zenon DEF SuccessIsLogged
  <1> DEFINE in(ops) == {k \in DOMAIN ops : ops[k] = [thread |-> t, index |-> i]}
             places == UNION {{<<r, k>> : k \in in(store.log[r].ops)} : r \in DOMAIN store.log}
  <1>1. Gone(t)
    <2>1. pc[t] # "idle"
      BY DEF WriteInv, WritersOK, PlaceOK
    <2>2. ASSUME NEW j \in DOMAIN writers, writers[j] = t PROVE FALSE
      <3>1. ~writer[t].done /\ (pc[t] = "queue" \/ pc[t] \in AtFront)
        BY <2>2, Zenon DEF WriteInv, WritersOK, Waits
      <3>2. pc[t] # "done"
        BY <3>1 DEF AtFront, Grouped
      <3> QED
        BY <3>1, <3>2
    <2> QED
      BY <2>1, <2>2, Zenon DEF Gone, InQueue
  <1>2. Held(t, i) /\ LogDiffers
    BY <1>1, Zenon DEF WriteInv, LogOK, SuccessHeld
  <1>3. PICK r \in DOMAIN store.log : \E k \in DOMAIN store.log[r].ops : HeldAt(t, i, r, k)
    BY <1>2, Zenon DEF Held
  <1>4. PICK k \in DOMAIN store.log[r].ops : HeldAt(t, i, r, k)
    BY <1>3, Zenon
  <1>5. places = {<<r, k>>}
    <2>1. <<r, k>> \in places
      <3>1. k \in in(store.log[r].ops)
        BY <1>4, Zenon DEF HeldAt, Op
      <3>2. <<r, k>> \in {<<r, l>> : l \in in(store.log[r].ops)}
        BY <3>1, Zenon
      <3> HIDE DEF in
      <3> QED
        BY <3>2, Zenon
    <2>2. ASSUME NEW p \in places PROVE p = <<r, k>>
      <3>1. PICK s \in DOMAIN store.log : \E l \in in(store.log[s].ops) : p = <<s, l>>
        BY <2>2, Zenon
      <3>2. PICK l \in in(store.log[s].ops) : p = <<s, l>>
        BY <3>1, Zenon
      <3>3. l \in DOMAIN store.log[s].ops /\ store.log[s].ops[l] = store.log[r].ops[k]
        BY <1>4, <3>2, Zenon DEF HeldAt, Op
      <3>4. s = r /\ l = k
        <4> HIDE DEF in, places
        <4> QED
          BY <1>2, <3>3 DEF LogDiffers
      <3> QED
        BY <3>2, <3>4, Zenon
    <2> QED
      BY <2>1, <2>2, Zenon
  <1>6. Cardinality(places) = 1
    BY <1>5, FS_Singleton, Zenon
  <1>7. ASSUME NEW p \in places
        PROVE  /\ call[t].sync => p[1] <= store.synced
               /\ [op |-> [thread |-> t, index |-> i],
                   seq |-> store.log[p[1]].seq + p[2] - 1] \in Stored
    <2>1. p[1] = r /\ p[2] = k
      BY <1>5
    <2> QED
      BY <1>4, <2>1, Zenon DEF HeldAt, Op
  <1> QED
    BY <1>6, <1>7, Zenon

\* Whoever wrote its batch for it, a call that reports success is in the log exactly once, as
\* it was written to memory, and synced if it asked for that.
THEOREM SuccessesAreLogged == WriteSpec => []SuccessIsLogged
  BY WriteInvHolds, InvGivesLogged, PTL
=============================================================================
