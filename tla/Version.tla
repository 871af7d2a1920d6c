------------------------------ MODULE Version ------------------------------
(***************************************************************************)
(* Versions of LevelDB's tree of tables and the choice of compactions       *)
(* (db/version_set.cc).  A version maps each level to its set of files; the *)
(* order the code keeps, by smallest key, is Sorted.  A file carries its    *)
(* entries, and its size is their number.  A null bound of a key range is   *)
(* a key below or above all others.                                         *)
(***************************************************************************)
EXTENDS InternalKey

CONSTANTS NumLevels,          \* kNumLevels
          MaxMemCompactLevel, \* kMaxMemCompactLevel
          L0Trigger,          \* kL0_CompactionTrigger
          TargetFileSize,     \* max_file_size, in entries
          GrandparentFactor,  \* the 10 of MaxGrandParentOverlapBytes
          ExpandFactor,       \* the 25 of ExpandedCompactionByteSizeLimit
          LevelBase           \* MaxBytesForLevel(1), in entries

ASSUME LevelsAssumption ==
    /\ NumLevels \in Nat \ {0, 1} /\ MaxMemCompactLevel \in 0 .. NumLevels - 1
    /\ {L0Trigger, TargetFileSize, LevelBase} \subseteq Nat \ {0}

Levels == 0 .. NumLevels - 1

\* FileMetaData, Version and Compaction: a compaction has a level, its input files in order,
\* those of the next level, the last key of its inputs, and the files of the level after.
FileMetaData(entries) == [number : Nat \ {0}, data : (SUBSET entries) \ {{}}]
Versions(entries) == [Levels -> SUBSET FileMetaData(entries)]
Compactions(entries) ==
    [level : Levels, in0 : Seq(FileMetaData(entries)), in1 : SUBSET FileMetaData(entries),
     largest : entries, grandparents : Seq(FileMetaData(entries))]

Smallest(f) == FirstOf(f.data)
Largest(f)  == LastOf(f.data)

\* BySmallestKey, with ties broken by file number.
Sorted(fs) ==
    LET before(f, g) == \/ Before(Smallest(f), Smallest(g))
                        \/ Smallest(f) = Smallest(g) /\ f.number < g.number
    IN  [i \in 1 .. Cardinality(fs) |->
            CHOOSE f \in fs : Cardinality({g \in fs : before(g, f)}) = i - 1]

Size(f) == Cardinality(f.data)
TotalFileSize(fs) == MapThenSumSet(Size, fs)
MaxGrandParentOverlapBytes == GrandparentFactor * TargetFileSize
ExpandedCompactionByteSizeLimit == ExpandFactor * TargetFileSize

MaxBytesForLevel(level) ==
    LET bytes[l \in 0 .. level] == IF l <= 1 THEN LevelBase ELSE 10 * bytes[l - 1]
    IN  bytes[level]

\* The index, counted from 0, of the first file whose largest key is at or after the target.
FindFile(fs, target) ==
    LET halve(w) == LET mid == (w.left + w.right) \div 2
                    IN  IF w.left >= w.right THEN w
                        ELSE IF Before(Largest(fs[mid + 1]), target)
                             THEN [w EXCEPT !.left = mid + 1] ELSE [w EXCEPT !.right = mid]
        search[i \in 0 .. Len(fs)] ==
            IF i = 0 THEN [left |-> 0, right |-> Len(fs)] ELSE halve(search[i - 1])
    IN  search[Len(fs)].right

AfterFile(k, f)  == k > Largest(f).key
BeforeFile(k, f) == k < Smallest(f).key

\* kMaxSequenceNumber: above every sequence number in use.
MaxSequenceNumber == 1000000

SomeFileOverlapsRange(disjoint, fs, lo, hi) ==
    IF disjoint
    THEN LET sorted == Sorted(fs)
             index  == FindFile(sorted, LookupKey(lo, MaxSequenceNumber))
         IN  index < Len(sorted) /\ ~BeforeFile(hi, sorted[index + 1])
    ELSE \E f \in fs : ~AfterFile(lo, f) /\ ~BeforeFile(hi, f)

\* Mutant: only level 0 is searched.
OverlapInLevel0(v, level, lo, hi) == level = 0 /\ SomeFileOverlapsRange(FALSE, v[0], lo, hi)
OverlapInLevel(v, level, lo, hi) == SomeFileOverlapsRange(level > 0, v[level], lo, hi)

\* The files Version::Get and ForEachOverlapping look at, in their order, with their levels:
\* in level 0 every file that spans the key, the newest first; in each other level one.
FilesFor(v, k, s) ==
    LET level0 == {f \in v[0] : ~AfterFile(k, f) /\ ~BeforeFile(k, f)}
        newest == [i \in 1 .. Cardinality(level0) |->
                      [level |-> 0, file |-> CHOOSE f \in level0 :
                          Cardinality({g \in level0 : g.number > f.number}) = i - 1]]
        inLevel(l) == LET sorted == Sorted(v[l])
                          index  == FindFile(sorted, LookupKey(k, s))
                      IN  IF index < Len(sorted) /\ ~BeforeFile(k, sorted[index + 1])
                          THEN <<[level |-> l, file |-> sorted[index + 1]]>> ELSE <<>>
    IN  newest \o FlattenSeq([l \in 1 .. NumLevels - 1 |-> inLevel(l)])

\* Version::Get: the entry found, as a set, and the file the seek is charged to, if the
\* lookup read more than one (GetStats).
SearchIn(looked, k, s) ==
    LET hits  == {i \in DOMAIN looked : Seek(looked[i].file.data, k, s) # {}}
        reads == IF hits = {} THEN Len(looked) ELSE Min(hits)
    IN  [found |-> IF hits = {} THEN {} ELSE Seek(looked[reads].file.data, k, s),
         charged |-> IF reads >= 2 THEN {looked[1]} ELSE {}]
GetIn(v, k, s) == SearchIn(FilesFor(v, k, s), k, s)

\* Mutant: the last file that was sought is charged.
LastCharged(v, k, s) ==
    LET looked == FilesFor(v, k, s) IN IF Len(looked) >= 2 THEN {Last(looked)} ELSE {}

\* Version::RecordReadSample: the first of at least two files that may hold the key.
ReadSample(v, k, s) ==
    LET looked == FilesFor(v, k, s) IN IF Len(looked) >= 2 THEN {looked[1]} ELSE {}

\* The files of a level that overlap a range of user keys.  In level 0 a file found widens
\* the range and the search starts again.
GetOverlappingInputs(v, level, lo, hi) ==
    LET within(r) == {f \in v[level] : ~AfterFile(r[1], f) /\ ~BeforeFile(r[2], f)}
        range[i \in 0 .. Cardinality(v[level])] ==
            IF i = 0 THEN <<lo, hi>>
            ELSE LET r == range[i - 1]
                     w == within(r)
                 IN  <<Min({r[1]} \cup {Smallest(f).key : f \in w}),
                       Max({r[2]} \cup {Largest(f).key : f \in w})>>
    IN  within(IF level = 0 THEN range[Cardinality(v[0])] ELSE <<lo, hi>>)

\* The level a new table goes to: down, while nothing overlaps it there and the level
\* below that does not hold too much of its range.
PickLevelForMemTableOutput(v, lo, hi) ==
    LET mayPush(l) ==
            /\ l < MaxMemCompactLevel
            /\ ~OverlapInLevel(v, l + 1, lo, hi)
            /\ l + 2 < NumLevels =>
                   TotalFileSize(GetOverlappingInputs(v, l + 2, lo, hi))
                       <= MaxGrandParentOverlapBytes
    IN  IF OverlapInLevel(v, 0, lo, hi) THEN 0
        ELSE Min({l \in 0 .. MaxMemCompactLevel : ~mayPush(l)})

\* ApproximateOffsetOf the first internal key of a user key: files before it count, the file
\* it falls in counts as far as it goes before, and the first file after it ends a level,
\* except level 0.  A table's own offsets are exact: its blocks hold one entry.
ApproximateOffsetOf(v, k) ==
    LET target == LookupKey(k, MaxSequenceNumber)
        counts(f) == IF Before(target, Largest(f))
                     THEN Cardinality({e \in f.data : Before(e, target)}) ELSE Size(f)
        looked(l) == LET sorted == Sorted(v[l])
                         after  == {i \in DOMAIN sorted : Before(target, Smallest(sorted[i]))}
                     IN  IF l = 0 \/ after = {} THEN v[l]
                         ELSE {sorted[i] : i \in 1 .. Min(after)}
    IN  MapThenSumSet(LAMBDA l : MapThenSumSet(counts, looked(l)), Levels)

\* VersionSet::Builder: delete and add files, level by level.
Apply(v, deleted, added) == [l \in Levels |-> (v[l] \ deleted[l]) \cup added[l]]

\* The score of a level, as a fraction, and the first level with the highest (Finalize): a
\* level is better than those before it if its score is above the best of theirs.
Score(v, l) == IF l = 0 THEN <<Cardinality(v[0]), L0Trigger>>
                        ELSE <<TotalFileSize(v[l]), MaxBytesForLevel(l)>>
Above(a, b) == a[1] * b[2] > b[1] * a[2]
CompactionLevel(v) ==
    LET best[l \in 0 .. NumLevels - 2] ==
            IF l = 0 \/ Above(Score(v, l), Score(v, best[l - 1])) THEN l ELSE best[l - 1]
    IN  best[NumLevels - 2]
SizeCompaction(v) == LET s == Score(v, CompactionLevel(v)) IN s[1] >= s[2]

-----------------------------------------------------------------------------
\* The choice of a compaction.

KeysOf(fs) == UNION {f.data : f \in fs}

\* GetRange, GetRange2: the files of a level that overlap the range of the files fs.
Overlapping(v, level, fs) ==
    GetOverlappingInputs(v, level, FirstOf(KeysOf(fs)).key, LastOf(KeysOf(fs)).key)

\* Mutant: the inputs may end between two entries of a key.
NoBoundary(v, level, inputs) == inputs

\* AddBoundaryInputs: as long as a file of the level starts with older entries of the user
\* key at which the inputs end, that file is an input too.
AddBoundaryInputs(v, level, inputs) ==
    LET boundary(last) == {f \in v[level] : /\ Before(last, Smallest(f))
                                            /\ Smallest(f).key = last.key}
        add[i \in 0 .. Cardinality(v[level])] ==
            IF i = 0 THEN [files |-> inputs, last |-> LastOf(KeysOf(ToSet(inputs)))]
            ELSE LET prev == add[i - 1]
                     b    == boundary(prev.last)
                     f    == Sorted(b)[1]
                 IN  IF b = {} THEN prev
                     ELSE [files |-> Append(prev.files, f), last |-> Largest(f)]
    IN  IF inputs = <<>> THEN inputs ELSE add[Cardinality(v[level])].files

\* SetupOtherInputs: the boundary, the files of the next level, and more files of this level
\* if that takes no more of the next.  Its steps, from the last to the first.
CompactionOf(v, level, in0, in1) ==
    [level |-> level, in0 |-> in0, in1 |-> in1,
     largest |-> LastOf(KeysOf(ToSet(in0))),
     grandparents |-> IF level + 2 < NumLevels
                      THEN Sorted(Overlapping(v, level + 2, ToSet(in0) \cup in1))
                      ELSE <<>>]

Larger(v, level, in0, in1, exp0, exp1) ==
    LET grow == /\ in1 # {}
                /\ Len(exp0) > Len(in0)
                /\ TotalFileSize(in1) + TotalFileSize(ToSet(exp0))
                       < ExpandedCompactionByteSizeLimit
                /\ Cardinality(exp1) = Cardinality(in1)
    IN  CompactionOf(v, level, IF grow THEN exp0 ELSE in0, IF grow THEN exp1 ELSE in1)

Expand0(v, level, in0, in1, exp0) ==
    Larger(v, level, in0, in1, exp0, Overlapping(v, level + 1, ToSet(exp0)))

Expand(v, level, in0, in1) ==
    Expand0(v, level, in0, in1, AddBoundaryInputs(v, level,
        Sorted(Overlapping(v, level, ToSet(in0) \cup in1))))

WithNextLevel(v, level, in0) ==
    Expand(v, level, in0, Overlapping(v, level + 1, ToSet(in0)))

SetupOtherInputs(v, level, inputs) ==
    WithNextLevel(v, level, AddBoundaryInputs(v, level, inputs))

\* PickCompaction: the first file after the level's compaction pointer, or the file that
\* was charged with too many seeks; in level 0 with all that overlap it.
FileAfter(v, level, pointer) ==
    LET after == {f \in v[level] : pointer = {} \/
                     \E p \in pointer : Before(p, Largest(f))}
    IN  Sorted(IF after = {} THEN v[level] ELSE after)[1]

CompactionFrom(v, level, file) ==
    SetupOtherInputs(v, level,
        IF level = 0
        THEN Sorted(GetOverlappingInputs(v, 0, Smallest(file).key, Largest(file).key))
        ELSE <<file>>)

PickCompaction(v, compactPointer, fileToCompact) ==
    LET level == IF SizeCompaction(v) THEN CompactionLevel(v) ELSE fileToCompact.level
    IN  CompactionFrom(v, level,
            IF SizeCompaction(v) THEN FileAfter(v, level, compactPointer[level])
            ELSE fileToCompact.file)

\* CompactRange: the files of the level in the range, cut off, except in level 0, where
\* they reach the size of one output file.  Defined if there are any.
CutOff(level, all) ==
    LET full == {i \in DOMAIN all :
                    TotalFileSize({all[j] : j \in 1 .. i}) >= TargetFileSize}
    IN  IF level > 0 /\ full # {} THEN SubSeq(all, 1, Min(full)) ELSE all

CompactRange(v, level, lo, hi) ==
    SetupOtherInputs(v, level, CutOff(level, Sorted(GetOverlappingInputs(v, level, lo, hi))))

IsTrivialMove(c) ==
    /\ Len(c.in0) = 1 /\ c.in1 = {}
    /\ TotalFileSize(ToSet(c.grandparents)) <= MaxGrandParentOverlapBytes

\* No level below the compaction's output may hold the user key.
IsBaseLevelForKey(v, c, k) ==
    \A l \in c.level + 2 .. NumLevels - 1 :
        ~ \E f \in v[l] : ~AfterFile(k, f) /\ ~BeforeFile(k, f)

\* ShouldStopBefore: pass the grandparents that end before the key, and stop when the
\* output overlaps too much of them.
ShouldStopBefore(c, st, e) ==
    LET passed == {i \in DOMAIN c.grandparents :
                      i > st.grandparent /\ Before(Largest(c.grandparents[i]), e)}
        bytes  == st.overlapped + IF st.seen
                      THEN TotalFileSize({c.grandparents[i] : i \in passed}) ELSE 0
        stop   == bytes > MaxGrandParentOverlapBytes
    IN  [st EXCEPT !.grandparent = @ + Cardinality(passed), !.seen = TRUE,
                   !.overlapped = IF stop THEN 0 ELSE bytes, !.stop = stop]

\* Mutant: every entry behind a newer one of its key goes, whatever the snapshots.
DropShadowed(v, c, smallestSnapshot, st, e) ==
    \/ st.key = e.key
    \/ e.type = "deletion" /\ e.seq <= smallestSnapshot /\ IsBaseLevelForKey(v, c, e.key)

\* The loop body of DoCompactionWork up to the output: is the entry dropped?
Drop(v, c, smallestSnapshot, st, e) ==
    LET lastSeq == IF st.key = e.key THEN st.seq ELSE MaxSequenceNumber
    IN  \/ lastSeq <= smallestSnapshot
        \/ /\ e.type = "deletion" /\ e.seq <= smallestSnapshot
           /\ IsBaseLevelForKey(v, c, e.key)

\* FinishCompactionOutputFile.
FinishOutput(st) ==
    IF st.open = {} THEN st ELSE [st EXCEPT !.done = Append(@, st.open), !.open = {}]

\* The loop body from there: the entry goes into the open table, and a full one is finished.
Output(drop, st, e) ==
    LET open == IF drop THEN st.open ELSE st.open \cup {e}
        next == [st EXCEPT !.open = open, !.key = e.key, !.seq = e.seq]
    IN  IF Cardinality(open) >= TargetFileSize THEN FinishOutput(next) ELSE next

WorkOn(v, c, smallestSnapshot, st, e) ==
    Output(Drop(v, c, smallestSnapshot, st, e), IF st.stop THEN FinishOutput(st) ELSE st, e)

\* DoCompactionWork: the tables it writes, as a sequence of sets of entries.
DoCompactionWork(v, c, smallestSnapshot) ==
    LET start == [grandparent |-> 0, seen |-> FALSE, overlapped |-> 0, stop |-> FALSE,
                  key |-> -1, seq |-> 0, open |-> {}, done |-> <<>>]
        input == InOrder(KeysOf(ToSet(c.in0) \cup c.in1))
        work[i \in 0 .. Len(input)] ==
            IF i = 0 THEN start
            ELSE WorkOn(v, c, smallestSnapshot, ShouldStopBefore(c, work[i - 1], input[i]),
                        input[i])
    IN  FinishOutput(work[Len(input)]).done
=============================================================================
