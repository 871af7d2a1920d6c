------------------------------- MODULE DBTree -------------------------------
(***************************************************************************)
(* LevelDB's tree at work (db/db_impl.cc): writes go to a memtable, full    *)
(* memtables become tables, and the background thread compacts tables while *)
(* the application goes on writing, reading and holding snapshots.  How      *)
(* writers queue is in DBWrite, files and crashes are in DBFiles.            *)
(***************************************************************************)
EXTENDS Version

CONSTANTS MaxKey,       \* user keys are 1 .. MaxKey
          AllowedSeeks, \* FileMetaData::allowed_seeks of a new file
          Workloads     \* what the application does in a behaviour, with its bounds

\* The types of its updates and how many there are, the snapshots it holds at once, whether
\* its reads count as seeks, and the ranges and the number of its manual compactions.
Workload == [types : SUBSET Types, updates : 0 .. MaxSequenceNumber - 1, snapshots : Nat,
             seeks : BOOLEAN, ranges : SUBSET (Nat \X Nat), compactions : Nat]

ASSUME BoundsAssumption ==
    /\ {MaxKey, AllowedSeeks} \subseteq Nat
    /\ \A w \in Workloads : w \in Workload

Keys == 1 .. MaxKey
BeginKey == 0               \* a null begin and a null end of a range
EndKey == MaxKey + 1

VARIABLES mem, imm,         \* entries of mem_ and imm_
          has_imm,          \* imm_ != nullptr
          last_sequence,
          snapshots,        \* sequence numbers of snapshots_, the oldest first
          files,            \* the current version
          next_file,
          allowed_seeks,    \* file number -> seeks left
          file_to_compact,  \* of the current version: a set of at most one
          compact_pointer,  \* level -> largest key of its last compaction, as a set
          compaction,       \* what DoCompactionWork is at, as a set of at most one
          manual,           \* the call of TEST_CompactRange under way
          workload,         \* of this behaviour
          now, held         \* history: what the application must read, without a snapshot
                            \* and at each snapshot

vars == <<mem, imm, has_imm, last_sequence, snapshots, files, next_file, allowed_seeks,
          file_to_compact, compact_pointer, compaction, manual, workload, now, held>>
history == <<workload, now, held>>

NoFiles == [l \in Levels |-> {}]
NoManual == [at |-> "none", level |-> 0, begin |-> BeginKey, end |-> EndKey, calls |-> 0]

Init ==
    /\ mem = {} /\ imm = {} /\ has_imm = FALSE
    /\ last_sequence = 0 /\ snapshots = <<>>
    /\ files = NoFiles /\ next_file = 1 /\ allowed_seeks = <<>>
    /\ file_to_compact = {} /\ compact_pointer = NoFiles
    /\ compaction = {} /\ manual = NoManual /\ workload \in Workloads
    /\ now = [k \in Keys |-> 0] /\ held = <<>>

treeVars == <<files, next_file, allowed_seeks, file_to_compact>>

-----------------------------------------------------------------------------
\* The application.

Write(k, t) ==
    /\ last_sequence < workload.updates
    /\ last_sequence' = last_sequence + 1
    /\ mem' = MemTableAdd(mem, k, last_sequence + 1, t)
    /\ now' = [now EXCEPT ![k] = IF t = "value" THEN last_sequence + 1 ELSE 0]
    /\ UNCHANGED <<imm, has_imm, snapshots, treeVars, compact_pointer, compaction, manual,
                   workload, held>>

\* The last branch of MakeRoomForWrite.  When a memtable is full is left open.
SwitchMemTable ==
    /\ ~has_imm /\ mem # {}
    /\ imm' = mem /\ mem' = {} /\ has_imm' = TRUE
    /\ UNCHANGED <<last_sequence, snapshots, treeVars, compact_pointer, compaction, manual,
                   history>>

GetSnapshot ==
    /\ Len(snapshots) < workload.snapshots
    /\ snapshots' = Append(snapshots, last_sequence)
    /\ held' = Append(held, now)
    /\ UNCHANGED <<mem, imm, has_imm, last_sequence, treeVars, compact_pointer,
                   compaction, manual, workload, now>>

ReleaseSnapshot(i) ==
    /\ snapshots' = RemoveAt(snapshots, i)
    /\ held' = RemoveAt(held, i)
    /\ UNCHANGED <<mem, imm, has_imm, last_sequence, treeVars, compact_pointer,
                   compaction, manual, workload, now>>

\* DBImpl::Get: the entry that a read at sequence number s finds, as a set.
Get(k, s) ==
    IF MemTableGet(mem, k, s) # {} THEN MemTableGet(mem, k, s)
    ELSE IF has_imm /\ MemTableGet(imm, k, s) # {} THEN MemTableGet(imm, k, s)
    ELSE GetIn(files, k, s).found

\* GetApproximateSizes of the user keys from lo up to, and without, hi.
GetApproximateSize(lo, hi) ==
    Max({0, ApproximateOffsetOf(files, hi) - ApproximateOffsetOf(files, lo)})

\* UpdateStats: a file that has been charged often enough is to be compacted.  The seeks
\* left are counted down to 0.
UpdateStats(charged) ==
    /\ workload.seeks
    /\ \E c \in charged :
        /\ allowed_seeks' = [allowed_seeks EXCEPT ![c.file.number] = Max({0, @ - 1})]
        /\ file_to_compact' = IF allowed_seeks'[c.file.number] = 0 /\ file_to_compact = {}
                              THEN {c} ELSE file_to_compact
        /\ UNCHANGED <<mem, imm, has_imm, last_sequence, snapshots, files, next_file,
                       compact_pointer, compaction, manual, history>>

\* A read, of the present or of a snapshot, that goes down to the tables, and a sample an
\* iterator takes.
ReadTables(k, s) ==
    /\ MemTableGet(mem, k, s) = {}
    /\ has_imm => MemTableGet(imm, k, s) = {}
    /\ UpdateStats(GetIn(files, k, s).charged)

RecordReadSample(e) == UpdateStats(ReadSample(files, e.key, e.seq))

\* TEST_CompactRange, called by CompactRange for one level after another.
ManualCompaction(level, lo, hi) ==
    /\ manual.at = "none" /\ manual.calls < workload.compactions
    /\ level + 1 < NumLevels
    /\ manual' = [at |-> "waiting", level |-> level, begin |-> lo, end |-> hi,
                  calls |-> manual.calls + 1]
    /\ UNCHANGED <<mem, imm, has_imm, last_sequence, snapshots, treeVars, compact_pointer,
                   compaction, history>>

\* Its loop: manual_compaction_ is set whenever it is null and the call is not done.
ArmManual ==
    /\ manual.at = "waiting"
    /\ manual' = [manual EXCEPT !.at = "armed"]
    /\ UNCHANGED <<mem, imm, has_imm, last_sequence, snapshots, treeVars, compact_pointer,
                   compaction, history>>

-----------------------------------------------------------------------------
\* The background thread.

\* LogAndApply as far as the tree goes: the new version is built on the current one, an
\* added file may be sought AllowedSeeks times, and none has been chosen for its seeks.
Install(deleted, added) ==
    /\ files' = Apply(files, deleted, added)
    /\ LET numbers(v) == {f.number : f \in UNION {v[l] : l \in Levels}}
       IN  allowed_seeks' = [n \in 1 .. next_file' - 1 |->
               IF n \in numbers(added) THEN AllowedSeeks
               ELSE IF n \in numbers(files') THEN allowed_seeks[n] ELSE 0]
    /\ file_to_compact' = {}

\* The files of one level, and those of two neighbouring ones.
At(level, fs) == [NoFiles EXCEPT ![level] = fs]
AtBoth(level, fs, gs) == [NoFiles EXCEPT ![level] = fs, ![level + 1] = gs]

\* CompactMemTable and WriteLevel0Table.  It runs when the thread is idle, and in the
\* middle of a compaction.
CompactMemTable ==
    /\ has_imm
    /\ next_file' = next_file + 1
    /\ \E l \in {PickLevelForMemTableOutput(files, FirstOf(imm).key, LastOf(imm).key)} :
           Install(NoFiles, At(l, {[number |-> next_file, data |-> imm]}))
    /\ has_imm' = FALSE /\ imm' = {}
    /\ UNCHANGED <<mem, last_sequence, snapshots, compact_pointer, compaction, manual,
                   history>>

\* What a manual compaction still has to do once one of its steps is over.
AfterManual(isManual, c) ==
    IF isManual THEN [manual EXCEPT !.at = "waiting", !.begin = Largest(Last(c.in0)).key]
    ELSE manual

\* Its call is done when no file is left; mutant: the call is not told.
ManualNotDone == [manual EXCEPT !.at = "waiting"]
ManualDone == [NoManual EXCEPT !.calls = manual.calls]

\* BackgroundCompaction without imm_: a manual compaction that is over, the move of one
\* file to the next level, or the start of DoCompactionWork.
Background(isManual, c) ==
    /\ compact_pointer' = [compact_pointer EXCEPT ![c.level] = {c.largest}]
    /\ IF ~isManual /\ IsTrivialMove(c)
       THEN /\ UNCHANGED <<next_file, compaction>>
            /\ Install(At(c.level, ToSet(c.in0)), At(c.level + 1, ToSet(c.in0)))
       ELSE /\ compaction' = {[c |-> c, input |-> files, manual |-> isManual,
                               smallest_snapshot |-> IF snapshots = <<>> THEN last_sequence
                                                     ELSE Head(snapshots)]}
            /\ UNCHANGED treeVars
    /\ UNCHANGED <<mem, imm, has_imm, last_sequence, snapshots, manual, history>>

BackgroundCompaction ==
    /\ ~has_imm /\ compaction = {}
    /\ \/ /\ manual.at = "armed"
          /\ GetOverlappingInputs(files, manual.level, manual.begin, manual.end) = {}
          /\ manual' = ManualDone
          /\ UNCHANGED <<mem, imm, has_imm, last_sequence, snapshots, treeVars,
                         compact_pointer, compaction, history>>
       \/ /\ manual.at = "armed"
          /\ GetOverlappingInputs(files, manual.level, manual.begin, manual.end) # {}
          /\ \E c \in {CompactRange(files, manual.level, manual.begin, manual.end)} :
                 Background(TRUE, c)
       \/ /\ manual.at # "armed"
          /\ SizeCompaction(files) \/ file_to_compact # {}
          /\ \E c \in {PickCompaction(files, compact_pointer,
                 IF file_to_compact = {} THEN {} ELSE CHOOSE f \in file_to_compact : TRUE)} :
                 Background(FALSE, c)

\* The end of DoCompactionWork: its outputs replace its inputs (InstallCompactionResults).
\* What it writes was settled at its start: the input files, the version that
\* IsBaseLevelForKey looks at and the smallest snapshot do not change on the way.
FinishCompaction ==
    \E w \in compaction :
    \E outputs \in {DoCompactionWork(w.input, w.c, w.smallest_snapshot)} :
        /\ next_file' = next_file + Len(outputs)
        /\ Install(AtBoth(w.c.level, ToSet(w.c.in0), w.c.in1),
                   At(w.c.level + 1, {[number |-> next_file + i - 1,
                                       data |-> outputs[i]] : i \in DOMAIN outputs}))
        /\ compaction' = {}
        /\ manual' = AfterManual(w.manual, w.c)
        /\ UNCHANGED <<mem, imm, has_imm, last_sequence, snapshots, compact_pointer,
                       history>>

BackgroundThread == CompactMemTable \/ BackgroundCompaction \/ FinishCompaction

Application ==
    \/ \E k \in Keys, t \in workload.types : Write(k, t)
    \/ SwitchMemTable
    \/ GetSnapshot
    \/ \E i \in DOMAIN snapshots : ReleaseSnapshot(i)
    \/ \E k \in Keys, s \in {last_sequence} \cup Range(snapshots) : ReadTables(k, s)
    \/ \E e \in KeysOf(UNION {files[l] : l \in Levels}) : RecordReadSample(e)
    \/ \E l \in Levels, r \in workload.ranges : ManualCompaction(l, r[1], r[2])
    \/ ArmManual

Next == Application \/ BackgroundThread

Spec == Init /\ [][Next]_vars

\* Mutant: a version that is out of shape is not looked at.
NeedsOther == has_imm \/ manual.at = "armed" \/ compaction # {} \/ file_to_compact # {}

\* MaybeScheduleCompaction: the background thread has something to do.
NeedsWork == has_imm \/ manual.at = "armed" \/ compaction # {} \/ SizeCompaction(files)
             \/ file_to_compact # {}

\* The steps of BackgroundThread, told by what only they change.
BackgroundStep == \/ <<files, compaction>>' # <<files, compaction>>
                  \/ manual.at = "armed" /\ manual'.at # "armed"

\* The environment runs what is scheduled (weak fairness of BackgroundThread, written with
\* its guard), and the caller of TEST_CompactRange is woken after every background call.
FairSpec == /\ Spec
            /\ <>[]NeedsWork => []<><<BackgroundStep>>_vars
            /\ WF_vars(ArmManual)

-----------------------------------------------------------------------------
\* Properties.

\* The state is made of what the code keeps.
TypeOK ==
    LET entries == InternalKeys(Keys, 1 .. last_sequence)
    IN  /\ mem \cup imm \subseteq entries
        /\ has_imm \in BOOLEAN /\ last_sequence \in 0 .. workload.updates
        /\ \A i \in DOMAIN snapshots : snapshots[i] \in 0 .. last_sequence
        /\ files \in Versions(entries)
        /\ \A l \in Levels : \A f \in files[l] : f.number < next_file
        /\ \A w \in compaction : w.c \in Compactions(entries)

\* A read at the latest sequence number finds the last value written, and a read at a
\* snapshot the value of that time: memtable switches, flushes and compactions change no
\* answer, whatever they drop and while whatever else goes on.  The size of a range of keys is
\* that of the entries of the tables in the range.
ReadsAreRight ==
    LET value(e) == IF \E x \in e : x.type = "value" THEN (CHOOSE x \in e : TRUE).seq ELSE 0
    IN  \A k \in Keys :
            /\ value(Get(k, last_sequence)) = now[k]
            /\ \A i \in DOMAIN snapshots : value(Get(k, snapshots[i])) = held[i][k]
            /\ GetApproximateSize(k, EndKey) =
                   Cardinality({e \in KeysOf(UNION {files[l] : l \in Levels}) : e.key >= k})

\* "overlapping ranges in same level" (version_set.cc, Builder::SaveTo): below level 0 the
\* files of a level follow one another, although memtables become files of any of the first
\* levels while a compaction is writing files there.
LevelsDisjoint ==
    \A l \in Levels \ {0} :
        LET s == Sorted(files[l])
        IN  \A i \in 1 .. Len(s) - 1 : Before(Largest(s[i]), Smallest(s[i + 1]))

\* "Entries never hop across levels" (Version::Get): the updates of a key get older from the
\* memtables to level 0, through its files from the newest on, and down the levels, so the
\* first one a read meets is the right one.
NewerAbove ==
    LET newer(S, T) == \A e \in S, o \in T : e.key = o.key => e.seq > o.seq
    IN  /\ newer(mem, imm)
        /\ \A l \in Levels : newer(mem \cup imm, KeysOf(files[l]))
        /\ \A f, g \in files[0] : f.number > g.number => newer(f.data, g.data)
        /\ \A l, m \in Levels : l < m => newer(KeysOf(files[l]), KeysOf(files[m]))

\* A file chosen for its seeks is in the current version, and there is a level below it to
\* compact it into (the assertions of PickCompaction and GetOverlappingInputs).
SeekFileHasLevelBelow ==
    \A c \in file_to_compact : c.file \in files[c.level] /\ c.level + 1 < NumLevels

\* A manual compaction ends: its caller is not left waiting, although new files enter the
\* level it works on and automatic compactions come in between.
ManualCompactionEnds == manual.at # "none" ~> manual.at = "none"

\* Once the application stops writing, the tree comes to rest: compactions do not go on
\* making work for each other.
TreeSettles == <>[](compaction = {} /\ ~SizeCompaction(files))
=============================================================================
