----------------------------- MODULE PosixFile -----------------------------
(***************************************************************************)
(* Files of PosixEnv (util/env_posix.cc).  A PosixWritableFile: a buffer in   *)
(* front of a file that is written piece by piece, synced, closed, opened     *)
(* again and read back; its bytes are the numbers 1, 2, 3, ... in the order    *)
(* they were appended.  And files for random access: threads open them under  *)
(* two limits, on mappings and on descriptors that stay open, which they take *)
(* and give back one atomic operation at a time.                              *)
(***************************************************************************)
EXTENDS Integers, Sequences, FiniteSets, FiniteSetsExt, SequencesExt

CONSTANTS BufferSize,    \* kWritableFileBufferSize
          MaxBytes,      \* bound: bytes appended
          MaxOpens,      \* bound: how often the file is opened again
          FileNames,     \* names of files, with the directory and the kind they stand for
          Openers,       \* threads that open and close files for random access
          MaxMmaps, MaxOpenFiles \* the limits

VARIABLES wfile,   \* the file being written
          reader,  \* who reads it from the start: the position, and the bytes read
          opener,  \* what each thread has: at, where it is or what kind of file it holds
          allowed  \* acquires_allowed_ of the two limiters

fileVars == <<wfile, reader, opener, allowed>>

ASSUME SizeAssumption == BufferSize \in Nat /\ MaxBytes \in Nat
ASSUME LimitAssumption == IsFiniteSet(Openers) /\ MaxMmaps \in Nat /\ MaxOpenFiles \in Nat

-----------------------------------------------------------------------------
\* PosixWritableFile.

\* A path is a sequence of pieces; a piece "/" separates.
Separators(path) == {i \in DOMAIN path : path[i] = "/"}

Dirname(path) ==
    IF Separators(path) = {} THEN <<".">> ELSE SubSeq(path, 1, Max(Separators(path)) - 1)

Basename(path) ==
    IF Separators(path) = {} THEN path ELSE SubSeq(path, Max(Separators(path)) + 1, Len(path))

IsManifest(path) == IsPrefix(<<"MANIFEST">>, Basename(path))

\* What a name stands for is what its path says.
ASSUME NameAssumption ==
    \A n \in FileNames : n.manifest = IsManifest(n.path) /\ n.dir = Dirname(n.path)

NoReader == [pos |-> 0, got |-> <<>>, skipped |-> FALSE]

\* first counts the bytes that were appended before the file was last truncated.
FileInit ==
    /\ wfile \in {[buf |-> <<>>, data |-> <<>>, first |-> 0, appended |-> 0, durable |-> 0,
                   name |-> n, is_manifest |-> IsManifest(n.path), synced |-> {},
                   failed |-> FALSE, open |-> TRUE, opens |-> 0] : n \in FileNames}
    /\ reader = NoReader
    /\ opener = [t \in Openers |-> "none"]
    /\ allowed = [mmap |-> MaxMmaps, fd |-> MaxOpenFiles]

Bytes(n) == [i \in 1 .. n |-> wfile.appended + i]

\* The results of a call: the file and the status.
Ok(f) == [file |-> f, ok |-> TRUE]
Error(f) == [file |-> f, ok |-> FALSE]
OnSuccess(results, rest(_)) == UNION {IF r.ok THEN rest(r.file) ELSE {r} : r \in results}

\* All is written, or only a part and the call fails; write is repeated when it was
\* interrupted.
WriteUnbuffered(f, bytes) ==
    {Ok([f EXCEPT !.data = @ \o bytes])} \cup
    {Error([f EXCEPT !.data = @ \o SubSeq(bytes, 1, n)]) : n \in 0 .. Len(bytes) - 1}

\* Mutant: what is flushed stays in the buffer.
FlushAgain(f) == WriteUnbuffered(f, f.buf)

\* The buffer is empty afterwards, whether that worked or not.
FlushBuffer(f) == WriteUnbuffered([f EXCEPT !.buf = <<>>], f.buf)

\* A call ends with one of its results.
Return(results) ==
    \E r \in results : wfile' = [r.file EXCEPT !.failed = @ \/ ~r.ok]

\* The buffer is filled first; what does not fit goes there after a flush, or directly.
FileAppend(n) ==
    /\ wfile.open /\ wfile.appended + n <= MaxBytes
    /\ LET fits == IF n <= BufferSize - Len(wfile.buf) THEN n ELSE BufferSize - Len(wfile.buf)
           f == [wfile EXCEPT !.buf = @ \o SubSeq(Bytes(n), 1, fits), !.appended = @ + n]
           left == SubSeq(Bytes(n), fits + 1, n)
           store(g) == IF Len(left) < BufferSize THEN {Ok([g EXCEPT !.buf = left])}
                       ELSE WriteUnbuffered(g, left)
       IN  Return(IF left = <<>> THEN {Ok(f)} ELSE OnSuccess(FlushBuffer(f), store))

\* SyncFd of the directory of a MANIFEST.
SyncDirIfManifest(f) ==
    IF f.is_manifest THEN {Ok([f EXCEPT !.synced = @ \cup {Dirname(f.name.path)}]), Error(f)} ELSE {Ok(f)}

SyncFd(f) == {Ok([f EXCEPT !.durable = Len(f.data)]), Error(f)}

FileSync == wfile.open /\ Return(OnSuccess(OnSuccess(SyncDirIfManifest(wfile), FlushBuffer), SyncFd))

FileFlush == wfile.open /\ Return(FlushBuffer(wfile))

\* Close, and the destructor; close may fail as well.
FileClose ==
    /\ wfile.open
    /\ Return(OnSuccess(FlushBuffer([wfile EXCEPT !.open = FALSE]), LAMBDA f : {Ok(f), Error(f)}))

\* The file is opened again: NewWritableFile truncates it, NewAppendableFile goes on at its end.
Reopen(f) == [f EXCEPT !.open = TRUE, !.opens = @ + 1, !.is_manifest = IsManifest(f.name.path)]
CanReopen == ~wfile.open /\ wfile.opens < MaxOpens

NewWritableFile ==
    CanReopen /\ wfile' = [Reopen(wfile) EXCEPT !.data = <<>>, !.first = wfile.appended,
                                                !.durable = 0, !.failed = FALSE]
NewAppendableFile == CanReopen /\ wfile' = Reopen(wfile)

Writing == /\ \/ \E n \in 1 .. MaxBytes : FileAppend(n)
              \/ FileSync \/ FileFlush \/ FileClose
              \/ (NewWritableFile \/ NewAppendableFile)
           /\ reader' = NoReader
           /\ UNCHANGED <<opener, allowed>>

-----------------------------------------------------------------------------
\* PosixSequentialFile, of a file nobody has open for writing.

\* read gives what is left if that is less, and is repeated when it was interrupted.
SequentialRead(n) ==
    LET end == Min({reader.pos + n, Max({reader.pos, Len(wfile.data)})})
    IN  reader' = [reader EXCEPT !.pos = end, !.got = @ \o SubSeq(wfile.data, reader.pos + 1, end)]

\* lseek may go past the end.
Skip(n) == reader' = [reader EXCEPT !.pos = @ + n, !.skipped = TRUE]

NewSequentialFile == reader # NoReader /\ reader' = NoReader

Reading == /\ ~wfile.open
           /\ \/ \E n \in 1 .. BufferSize + 1 : SequentialRead(n)
              \/ reader.pos <= Len(wfile.data) /\ Skip(BufferSize)
              \/ NewSequentialFile
           /\ UNCHANGED <<wfile, opener, allowed>>

-----------------------------------------------------------------------------
\* NewRandomAccessFile.

Move(t, from, to) == opener[t] = from /\ opener' = [opener EXCEPT ![t] = to]

\* Limiter::Acquire: a counter is decremented, and incremented again if nothing was left.
FetchSub(t, from, limiter, got, none) ==
    /\ Move(t, from, IF allowed[limiter] > 0 THEN got ELSE none)
    /\ allowed' = [allowed EXCEPT ![limiter] = @ - 1]
FetchAdd(t, from, limiter, to) ==
    /\ Move(t, from, to)
    /\ allowed' = [allowed EXCEPT ![limiter] = @ + 1]

OpenFile(t) == \/ Move(t, "none", "opened") /\ UNCHANGED allowed
               \/ FetchSub(t, "opened", "mmap", "map", "no_map")
               \/ FetchAdd(t, "no_map", "mmap", "no_mmap")

\* The mapping: GetFileSize or mmap may fail, and then what was acquired is given back.
MapFile(t) == \/ Move(t, "map", "mapped") /\ UNCHANGED allowed
              \/ FetchAdd(t, "map", "mmap", "none")

\* PosixRandomAccessFile keeps its descriptor if it may, else it opens the file for every
\* read.
KeepDescriptor(t) == \/ FetchSub(t, "no_mmap", "fd", "permanent", "no_fd")
                     \/ FetchAdd(t, "no_fd", "fd", "temporary")
ReadTemporary(t) == \/ Move(t, "temporary", "reading") /\ UNCHANGED allowed
                    \/ Move(t, "reading", "temporary") /\ UNCHANGED allowed

\* Mutant: a mapping is not counted when it ends.
CloseQuietly(t) == \/ Move(t, "mapped", "none") /\ UNCHANGED allowed
                   \/ FetchAdd(t, "permanent", "fd", "none")
                   \/ Move(t, "temporary", "none") /\ UNCHANGED allowed

\* The destructors.
CloseFile(t) == \/ FetchAdd(t, "mapped", "mmap", "none")
                \/ FetchAdd(t, "permanent", "fd", "none")
                \/ Move(t, "temporary", "none") /\ UNCHANGED allowed

Opening == \E t \in Openers :
             /\ \/ OpenFile(t) \/ MapFile(t) \/ KeepDescriptor(t) \/ ReadTemporary(t)
                \/ CloseFile(t)
             /\ UNCHANGED <<wfile, reader>>

FileSpec == FileInit /\ [][Writing \/ Reading \/ Opening]_fileVars

-----------------------------------------------------------------------------
\* Properties.

\* While no call has failed, the file and the buffer together hold exactly the bytes that were
\* appended since it was created or truncated, in order, also over a close and a reopening for
\* append; a sync makes all of them durable, of a MANIFEST not before the directory it is in; a
\* close leaves none behind; a reader gets every byte it does not skip once; and a failure
\* never lets bytes in twice or out of order.
FileHoldsBytes ==
    LET f == wfile
    IN  /\ ~f.failed => f.data \o f.buf = [i \in 1 .. f.appended - f.first |-> f.first + i]
        /\ \A i, j \in DOMAIN f.data : i < j => f.data[i] < f.data[j]
        /\ f.name.manifest /\ f.durable > 0 => f.name.dir \in f.synced
        /\ ~f.open => f.buf = <<>>
        /\ IF reader.skipped THEN \A i, j \in DOMAIN reader.got : i < j => reader.got[i] < reader.got[j]
           ELSE reader.got = SubSeq(f.data, 1, reader.pos)

At(places) == Cardinality({t \in Openers : opener[t] \in places})

\* The limits hold at every moment, although two threads may both have decremented a counter,
\* and what is given back can be taken again: nothing leaks on the paths where mapping fails.
LimitsHold ==
    /\ At({"map", "mapped"}) <= MaxMmaps /\ At({"permanent"}) <= MaxOpenFiles
    /\ allowed.mmap = MaxMmaps - At({"map", "mapped", "no_map"})
    /\ allowed.fd = MaxOpenFiles - At({"permanent", "no_fd"})
=============================================================================
