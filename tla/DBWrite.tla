------------------------------ MODULE DBWrite ------------------------------
(***************************************************************************)
(* The threads of an open LevelDB database (db/db_impl.cc): writers that     *)
(* queue up and commit in groups, the background thread, and the destructor.  *)
(* They share mutex_ and two kinds of condition variables.  A step is what a  *)
(* thread does between two points where it may lose the mutex; while it holds *)
(* the mutex for longer, mutex names it.                                      *)
(***************************************************************************)
EXTENDS Integers, Sequences, FiniteSets, FiniteSetsExt, SequencesExt

CONSTANTS Threads,            \* the threads that call Write or TEST_CompactMemTable
          Calls,              \* the sets of calls to be checked: a call for each thread
          WriteBufferSize,    \* entries a memtable may hold before it is full
          SmallBatch, MaxBatch, \* 128 KB and 1 MB of BuildBatchGroup, in entries
          CompactionTrigger, SlowdownTrigger, StopTrigger, \* kL0_... of config
          CompactionKeys      \* bound: turns of the loop of DoCompactionWork

\* What a thread asks for: a batch of so many entries, or a compaction of the memtable.
Call == [batch : Nat, compact : BOOLEAN, sync : BOOLEAN]

\* Write(options, nullptr) has no batch.
ASSUME CallsAssumption ==
    \A c \in Calls : c \in [Threads -> Call] /\ \A t \in Threads : c[t].compact => c[t].batch = 0

VARIABLES call, pc, mutex,
          writer,     \* DBImpl::Writer: done, the status returned, whether cv was signalled
          writers,    \* writers_
          room,       \* locals of MakeRoomForWrite: force, allow_delay
          group,      \* of the group being written: writers, first sequence number, entries
                      \* inserted so far, whether the log was written and synced
          tmp_batch,  \* tmp_batch_
          bg,         \* the background thread, background_compaction_scheduled_ and so on
          store       \* logs, memtables, tables, last sequence number

writeVars == <<call, pc, mutex, writer, writers, room, group, tmp_batch, bg, store>>

\* An entry of a batch, and a batch of a call.
Entries(t) == [i \in 1 .. call[t].batch |-> [thread |-> t, index |-> i]]

NoGroup == [last |-> 0, ops |-> <<>>, seq |-> 0, inserted |-> 0, ok |-> TRUE, sync_error |-> FALSE]

WriteInit(c) ==
    /\ call = c
    /\ pc = [t \in Threads |-> "idle"]
    /\ mutex = {}
    /\ writer = [t \in Threads |-> [done |-> FALSE, ok |-> TRUE, signal |-> FALSE]]
    /\ writers = <<>>
    /\ room = [t \in Threads |-> [force |-> FALSE, allow_delay |-> FALSE]]
    /\ group = NoGroup /\ tmp_batch = <<>>
    /\ bg = [at |-> "idle", signal |-> {}, error |-> FALSE, inputs |-> 0, turns |-> 0,
             closing |-> FALSE, closed |-> FALSE]
    /\ store = [log |-> <<>>, synced |-> 0, mem |-> {}, imm |-> {}, has_imm |-> FALSE,
                tables |-> {}, level0 |-> 0, last_sequence |-> 0]

Free == mutex = {}

-----------------------------------------------------------------------------
\* Wake-ups.  The threads that wait for background_work_finished_signal_ are in bg.signal
\* once it was signalled.

BgWaiters == {t \in Threads : pc[t] \in {"room_wait", "imm_wait"}}
SignalAll(b) == [b EXCEPT !.signal = @ \cup BgWaiters]

RecordBackgroundError(b) == IF b.error THEN b ELSE SignalAll([b EXCEPT !.error = TRUE])

\* MaybeScheduleCompaction, with NeedsCompaction for the number of files in level 0.
MaybeScheduleCompaction(b, s) ==
    IF b.at = "idle" /\ ~b.closing /\ ~b.error /\ (s.has_imm \/ s.level0 >= CompactionTrigger)
    THEN [b EXCEPT !.at = "queued"] ELSE b

-----------------------------------------------------------------------------
\* DBImpl::Write.

\* Enters the queue; waits unless it is at the front.
Write(t) ==
    /\ pc[t] = "idle" /\ Free
    /\ writers' = Append(writers, t)
    /\ room' = [room EXCEPT ![t] = [force |-> call[t].compact, allow_delay |-> ~call[t].compact]]
    /\ IF writers = <<>>
       THEN pc' = [pc EXCEPT ![t] = "room"] /\ mutex' = {t}
       ELSE pc' = [pc EXCEPT ![t] = "queue"] /\ UNCHANGED mutex
    /\ UNCHANGED <<call, writer, group, tmp_batch, bg, store>>

\* After Write(nullptr) TEST_CompactMemTable waits for the flush.
Returned(t, ok) == IF call[t].compact /\ ok THEN "imm_check" ELSE "done"

\* w.cv was signalled: another thread did the work, or it is this one's turn.
QueueWake(t) ==
    /\ pc[t] = "queue" /\ writer[t].signal /\ Free
    /\ writer' = [writer EXCEPT ![t].signal = FALSE]
    /\ IF writer[t].done
       THEN /\ pc' = [pc EXCEPT ![t] = Returned(t, writer[t].ok)]
            /\ UNCHANGED mutex
       ELSE /\ Head(writers) = t
            /\ pc' = [pc EXCEPT ![t] = "room"] /\ mutex' = {t}
    /\ UNCHANGED <<call, writers, room, group, tmp_batch, bg, store>>

\* Mutant: a writer that finds other writers done tells nobody.
NoNewHead(t, last, ok) ==
    LET n == CHOOSE i \in DOMAIN writers : writers[i] = last
        group_ == {writers[i] : i \in 2 .. n}
    IN  /\ writers' = SubSeq(writers, n + 1, Len(writers))
        /\ writer' = [w \in Threads |->
               IF w \in group_ THEN [done |-> TRUE, ok |-> ok, signal |-> TRUE]
               ELSE [writer[w] EXCEPT !.ok = IF w = t THEN ok ELSE @]]
        /\ pc' = [pc EXCEPT ![t] = Returned(t, ok)]

\* The end of Write: the writers up to last leave the queue with this thread's status, and
\* the new head is told.
LeaveQueue(t, last, ok) ==
    LET n == CHOOSE i \in DOMAIN writers : writers[i] = last
        group_ == {writers[i] : i \in 2 .. n}
        head == {writers[i] : i \in {n + 1} \cap DOMAIN writers}
    IN  /\ writers' = SubSeq(writers, n + 1, Len(writers))
        /\ writer' = [w \in Threads |->
               IF w \in group_ THEN [done |-> TRUE, ok |-> ok, signal |-> TRUE]
               ELSE [writer[w] EXCEPT !.ok = IF w = t THEN ok ELSE @, !.signal = @ \/ w \in head]]
        /\ pc' = [pc EXCEPT ![t] = Returned(t, ok)]

\* Mutant: a sync write joins any group.
IgnoreSync(first, w) == FALSE

\* "Do not include a sync write into a batch handled by a non-sync write."
NeedsOwnSync(first, w) == call[w].sync /\ ~call[first].sync

\* BuildBatchGroup: how many writers the front one takes along.  Calls without a batch go
\* along for free.
GroupSize ==
    LET first == writers[1]
        size(n) == FoldLeft(LAMBDA sum, t : sum + call[t].batch, 0, SubSeq(writers, 1, n))
        max_size == IF size(1) <= SmallBatch THEN size(1) + SmallBatch ELSE MaxBatch
        joins(i) == /\ ~NeedsOwnSync(first, writers[i])
                    /\ call[writers[i]].compact \/ size(i) <= max_size
    IN  Max({n \in DOMAIN writers : \A i \in 2 .. n : joins(i)})

\* The first batch alone is written as it is; a larger group is put together in tmp_batch_.
BuildBatchGroup ==
    LET n == GroupSize
        others == {i \in 2 .. n : ~call[writers[i]].compact}
        batches == [i \in 1 .. n |-> Entries(writers[i])]
    IN  /\ tmp_batch' = IF others = {} THEN tmp_batch ELSE tmp_batch \o FlattenSeq(batches)
        /\ group' = [NoGroup EXCEPT !.last = writers[n], !.seq = store.last_sequence + 1,
                                    !.ops = IF others = {} THEN batches[1] ELSE tmp_batch']

Full == Cardinality(store.mem) > WriteBufferSize

\* One turn of the loop of MakeRoomForWrite.
Delay(t) ==
    /\ pc[t] = "room" /\ ~bg.error /\ room[t].allow_delay /\ store.level0 >= SlowdownTrigger
    /\ mutex' = {} /\ pc' = [pc EXCEPT ![t] = "sleep"]
    /\ UNCHANGED <<call, writer, writers, room, group, tmp_batch, bg, store>>

Slept(t) ==
    /\ pc[t] = "sleep" /\ Free
    /\ room' = [room EXCEPT ![t].allow_delay = FALSE]
    /\ mutex' = {t} /\ pc' = [pc EXCEPT ![t] = "room"]
    /\ UNCHANGED <<call, writer, writers, group, tmp_batch, bg, store>>

InRoom(t) ==
    /\ pc[t] = "room" /\ ~bg.error
    /\ ~(room[t].allow_delay /\ store.level0 >= SlowdownTrigger)

NoRoom(t) == InRoom(t) /\ (room[t].force \/ Full)

\* There is room.  A call without a batch is done; otherwise the group is formed and the
\* mutex released.
HaveRoom(t) ==
    /\ InRoom(t) /\ ~NoRoom(t)
    /\ mutex' = {}
    /\ IF call[t].compact
       THEN LeaveQueue(t, t, TRUE) /\ UNCHANGED <<group, tmp_batch>>
       ELSE /\ BuildBatchGroup /\ pc' = [pc EXCEPT ![t] = "log"]
            /\ UNCHANGED <<writers, writer>>
    /\ UNCHANGED <<call, room, bg, store>>

\* The memtable is full and the other one is not flushed yet, or level 0 is full.
WaitForRoom(t) ==
    /\ NoRoom(t) /\ (store.has_imm \/ store.level0 >= StopTrigger)
    /\ mutex' = {} /\ pc' = [pc EXCEPT ![t] = "room_wait"]
    /\ UNCHANGED <<call, writer, writers, room, group, tmp_batch, bg, store>>

RoomWake(t) ==
    /\ pc[t] = "room_wait" /\ t \in bg.signal /\ Free
    /\ bg' = [bg EXCEPT !.signal = @ \ {t}]
    /\ mutex' = {t} /\ pc' = [pc EXCEPT ![t] = "room"]
    /\ UNCHANGED <<call, writer, writers, room, group, tmp_batch, store>>

SwitchMemTable(t) ==
    /\ NoRoom(t) /\ ~store.has_imm /\ store.level0 < StopTrigger
    /\ store' = [store EXCEPT !.imm = store.mem, !.has_imm = TRUE, !.mem = {}]
    /\ room' = [room EXCEPT ![t].force = FALSE]
    /\ bg' = MaybeScheduleCompaction(bg, store')
    /\ UNCHANGED <<call, pc, mutex, writer, writers, group, tmp_batch>>

\* A background error, or the new log file cannot be made: only this thread's call fails.
NoRoomError(t) ==
    /\ pc[t] = "room"
    /\ bg.error \/ (NoRoom(t) /\ ~store.has_imm /\ store.level0 < StopTrigger)
    /\ mutex' = {}
    /\ LeaveQueue(t, t, FALSE)
    /\ UNCHANGED <<call, room, group, tmp_batch, bg, store>>

\* AddRecord without the mutex.
AddRecord(t) ==
    /\ pc[t] = "log"
    /\ \/ /\ store' = [store EXCEPT !.log = Append(@, [seq |-> group.seq, ops |-> group.ops])]
          /\ pc' = [pc EXCEPT ![t] = IF call[t].sync THEN "sync" ELSE "insert"]
          /\ UNCHANGED group
       \/ /\ group' = [group EXCEPT !.ok = FALSE]
          /\ pc' = [pc EXCEPT ![t] = "relock"]
          /\ UNCHANGED store
    /\ UNCHANGED <<call, mutex, writer, writers, room, tmp_batch, bg>>

SyncLog(t) ==
    /\ pc[t] = "sync"
    /\ \/ /\ store' = [store EXCEPT !.synced = Len(store.log)]
          /\ pc' = [pc EXCEPT ![t] = "insert"]
          /\ UNCHANGED group
       \/ /\ group' = [group EXCEPT !.ok = FALSE, !.sync_error = TRUE]
          /\ pc' = [pc EXCEPT ![t] = "relock"]
          /\ UNCHANGED store
    /\ UNCHANGED <<call, mutex, writer, writers, room, tmp_batch, bg>>

NextEntry == [op |-> group.ops[group.inserted + 1], seq |-> group.seq + group.inserted]

\* Mutant: an entry is visible as soon as it is inserted.
PublishEach(t) ==
    /\ pc[t] = "insert"
    /\ IF group.inserted < Len(group.ops)
       THEN /\ store' = [store EXCEPT !.mem = @ \cup {NextEntry}, !.last_sequence = NextEntry.seq]
            /\ group' = [group EXCEPT !.inserted = @ + 1]
            /\ UNCHANGED pc
       ELSE pc' = [pc EXCEPT ![t] = "relock"] /\ UNCHANGED <<store, group>>
    /\ UNCHANGED <<call, mutex, writer, writers, room, tmp_batch, bg>>

\* InsertInto: the entries get consecutive sequence numbers, one Add at a time, while
\* readers may look.
InsertInto(t) ==
    /\ pc[t] = "insert"
    /\ IF group.inserted < Len(group.ops)
       THEN /\ store' = [store EXCEPT !.mem = @ \cup {NextEntry}]
            /\ group' = [group EXCEPT !.inserted = @ + 1]
            /\ UNCHANGED pc
       ELSE pc' = [pc EXCEPT ![t] = "relock"] /\ UNCHANGED <<store, group>>
    /\ UNCHANGED <<call, mutex, writer, writers, room, tmp_batch, bg>>

ClearTmpBatch(ops) == IF ops = tmp_batch THEN <<>> ELSE tmp_batch

\* The mutex again: the group becomes visible, and the queue moves on.
FinishWrite(t) ==
    /\ pc[t] = "relock" /\ Free
    /\ LET b == IF group.sync_error THEN RecordBackgroundError(bg) ELSE bg
       IN  bg' = b
    /\ tmp_batch' = ClearTmpBatch(group.ops)
    /\ store' = [store EXCEPT !.last_sequence = group.seq + Len(group.ops) - 1]
    /\ LeaveQueue(t, group.last, group.ok)
    /\ group' = NoGroup
    /\ UNCHANGED <<call, mutex, room>>

\* The loop at the end of TEST_CompactMemTable.
ImmWake(t) ==
    /\ pc[t] = "imm_check" \/ (pc[t] = "imm_wait" /\ t \in bg.signal)
    /\ Free
    /\ bg' = [bg EXCEPT !.signal = @ \ {t}]
    /\ IF store.has_imm /\ ~bg.error
       THEN pc' = [pc EXCEPT ![t] = "imm_wait"] /\ UNCHANGED writer
       ELSE /\ pc' = [pc EXCEPT ![t] = "done"]
            /\ writer' = [writer EXCEPT ![t].ok = ~store.has_imm]
    /\ UNCHANGED <<call, mutex, writers, room, group, tmp_batch, store>>

-----------------------------------------------------------------------------
\* The background thread.

\* The end of BackgroundCall.
Rescheduled(b, s) == SignalAll(MaybeScheduleCompaction([b EXCEPT !.at = "idle"], s))

bgUnchanged == UNCHANGED <<call, pc, mutex, writer, writers, room, group, tmp_batch>>

\* BackgroundCall and BackgroundCompaction up to where the mutex is released.
BackgroundCall ==
    /\ bg.at = "queued" /\ Free
    /\ bg' = IF bg.closing \/ bg.error THEN Rescheduled(bg, store)
             ELSE IF store.has_imm THEN [bg EXCEPT !.at = "flush"]
             ELSE IF store.level0 >= CompactionTrigger
                  THEN [bg EXCEPT !.at = "merge", !.inputs = store.level0,
                                     !.turns = CompactionKeys]
             ELSE Rescheduled(bg, store)
    /\ UNCHANGED store /\ bgUnchanged

\* CompactMemTable, by itself or in DoCompactionWork.
Flushed(ok) ==
    /\ bg.at \in {"flush", "merge_flush"} /\ Free
    /\ IF ok /\ ~bg.closing
       THEN \E level0 \in {0, 1} : store' =
                [store EXCEPT !.tables = @ \cup store.imm, !.imm = {}, !.has_imm = FALSE,
                              !.level0 = @ + (IF store.imm = {} THEN 0 ELSE level0)]
       ELSE UNCHANGED store
    /\ LET b == IF ok /\ ~bg.closing THEN bg ELSE RecordBackgroundError(bg)
       IN  bg' = IF bg.at = "flush" THEN Rescheduled(b, store')
                 ELSE SignalAll([b EXCEPT !.at = "merge"])
    /\ bgUnchanged

\* has_imm_ is looked at in every turn of the loop of DoCompactionWork, which has a turn for
\* each key and ends early when the database is closed.
NestedFlush ==
    /\ bg.at = "merge" /\ store.has_imm /\ bg.turns > 0 /\ ~bg.closing /\ Free
    /\ bg' = [bg EXCEPT !.at = "merge_flush", !.turns = @ - 1]
    /\ UNCHANGED store /\ bgUnchanged

Merged(ok) ==
    /\ bg.at = "merge" /\ Free
    /\ LET good == ok /\ ~bg.closing
           s == IF good THEN [store EXCEPT !.level0 = @ - bg.inputs] ELSE store
           b == IF good THEN bg ELSE RecordBackgroundError(bg)
       IN  store' = s /\ bg' = Rescheduled([b EXCEPT !.inputs = 0, !.turns = 0], s)
    /\ bgUnchanged

\* ~DBImpl, when no other call is under way: it waits for the background thread.
Close ==
    /\ \A t \in Threads : pc[t] = "done"
    /\ Free /\ ~bg.closing
    /\ bg' = [bg EXCEPT !.closing = TRUE]
    /\ UNCHANGED store /\ bgUnchanged

Closed ==
    /\ bg.closing /\ ~bg.closed /\ Free /\ bg.at = "idle"
    /\ bg' = [bg EXCEPT !.closed = TRUE]
    /\ UNCHANGED store /\ bgUnchanged

Thread(t) == \/ Write(t) \/ QueueWake(t) \/ Delay(t) \/ Slept(t) \/ HaveRoom(t)
             \/ WaitForRoom(t) \/ RoomWake(t) \/ SwitchMemTable(t) \/ NoRoomError(t)
             \/ AddRecord(t) \/ SyncLog(t) \/ InsertInto(t) \/ FinishWrite(t) \/ ImmWake(t)

Background == \/ BackgroundCall \/ NestedFlush
              \/ \E ok \in BOOLEAN : Flushed(ok) \/ Merged(ok)

WriteNext == (\E t \in Threads : Thread(t)) \/ Background \/ Close \/ Closed

WriteSpec == (\E c \in Calls : WriteInit(c)) /\ [][WriteNext]_writeVars

-----------------------------------------------------------------------------
\* Properties.

Stored == store.mem \cup store.imm \cup store.tables

\* A reader, who sees what has a sequence number up to the last one, sees of each batch all
\* or nothing, and no two entries share a number, although entries are inserted one by one
\* without the mutex and several batches share a group.
BatchesAreAtomic ==
    LET seen == {e \in Stored : e.seq <= store.last_sequence}
    IN  /\ \A t \in Threads : {e.op.index : e \in {x \in seen : x.op.thread = t}} \in
                                  {{}, 1 .. call[t].batch}
        /\ \A e, f \in Stored : e.seq = f.seq \/ e.op = f.op => e = f

\* A call that reports success is in the log exactly once, as written to memory, and synced
\* if it asked for that, whoever wrote it.
SuccessIsLogged ==
    \A t \in Threads : writer[t].ok /\ (writer[t].done \/ pc[t] = "done") =>
        \A i \in 1 .. call[t].batch :
            LET in(ops) == {k \in DOMAIN ops : ops[k] = [thread |-> t, index |-> i]}
                places == UNION {{<<r, k>> : k \in in(store.log[r].ops)} : r \in DOMAIN store.log}
            IN  /\ Cardinality(places) = 1
                /\ \A p \in places :
                       /\ call[t].sync => p[1] <= store.synced
                       /\ [op |-> [thread |-> t, index |-> i],
                           seq |-> store.log[p[1]].seq + p[2] - 1] \in Stored

\* Every call returns, whatever fails: nobody waits for a signal that does not come.  The
\* destructor returns too.
CallsReturn ==
    /\ \A t \in Threads : pc[t] # "idle" ~> pc[t] = "done"
    /\ bg.closing ~> bg.closed
=============================================================================
