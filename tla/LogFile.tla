------------------------------ MODULE LogFile ------------------------------
(***************************************************************************)
(* The log format of LevelDB: db/log_format.h, log_writer.cc, log_reader.cc.  *)
(* Records are cut into fragments that do not cross blocks.  The writer may   *)
(* die at any byte, the file may be appended to later, and a byte may go bad. *)
(*                                                                            *)
(* A byte is a one-element sequence; the checksum takes one cell, which holds *)
(* what it was computed from (a checksum without collisions), so a header is  *)
(* three cells: checksum, length, type.                                       *)
(***************************************************************************)
EXTENDS Integers, Sequences, SequencesExt, FiniteSetsExt

CONSTANTS
    kBlockSize,     \* cells in a block
    LogSizes,       \* sizes of the records written
    LogRecords,     \* how many are written
    BadBytes        \* what a byte may turn into

kHeaderSize == 3

ASSUME BlockAssumption == kBlockSize \in Nat /\ kBlockSize > kHeaderSize

VARIABLES
    logFile,        \* the bytes of the file
    writer,         \* the writer's block_offset_
    added,          \* the records added: content, and where the record starts and ends
    bad,            \* the position of the bad byte, 0 if there is none
    reader,         \* the reader
    found,          \* the records read so far, with their offsets
    logStep

logVars == <<logFile, writer, added, bad, reader, found, logStep>>

kZeroType == 0
kFullType == 1
kFirstType == 2
kMiddleType == 3
kLastType == 4
kEof == 5
kBadRecord == 6

Byte(b) == <<b>>
Crc(type, payload) == <<-1, type>> \o FoldLeft(LAMBDA acc, c : acc \o c, <<>>, payload)

-----------------------------------------------------------------------------
\* Writing.

Min2(x, y) == IF x < y THEN x ELSE y

\* The zeros that fill a block too full for a header.
Trailer(offset) ==
    LET leftover == kBlockSize - offset
    IN  IF leftover < kHeaderSize THEN [i \in 1..leftover |-> Byte(0)] ELSE <<>>

EmitPhysicalRecord(type, payload) ==
    <<Crc(type, payload), Byte(Len(payload)), Byte(type)>> \o payload

RECURSIVE Fragments(_, _, _)

\* AddRecord: the bytes appended for the rest of a record, and the block offset after them.
\* An empty record is one fragment of length zero.
Fragments(payload, offset, begin) ==
    LET trailer == Trailer(offset)
        start == IF kBlockSize - offset < kHeaderSize THEN 0 ELSE offset
        n == Min2(Len(payload), kBlockSize - start - kHeaderSize)
        end == n = Len(payload)
        type == IF begin /\ end THEN kFullType ELSE IF begin THEN kFirstType
                ELSE IF end THEN kLastType ELSE kMiddleType
        here == trailer \o EmitPhysicalRecord(type, SubSeq(payload, 1, n))
        after == start + kHeaderSize + n
        rest == Fragments(SubSeq(payload, n + 1, Len(payload)), after, FALSE)
    IN  IF end THEN [bytes |-> here, offset |-> after]
        ELSE [bytes |-> here \o rest.bytes, offset |-> rest.offset]

LogInit ==
    /\ logFile = <<>> /\ writer = 0 /\ added = <<>> /\ bad = 0
    /\ reader = [buffer |-> <<>>] /\ found = <<>>
    /\ logStep = "write"

AddRecord ==
    /\ logStep = "write" /\ Len(added) < LogRecords
    /\ \E size \in LogSizes :
        LET payload == [i \in 1..size |-> Byte(10 + Len(added))]
        IN  \E out \in {Fragments(payload, writer, TRUE)} :
            /\ logFile' = logFile \o out.bytes
            /\ writer' = out.offset
            /\ added' = Append(added,
                    [data |-> payload, start |-> Len(logFile) + Len(Trailer(writer)),
                     end |-> Len(logFile) + Len(out.bytes)])
    /\ UNCHANGED <<bad, reader, found, logStep>>

\* Mutant: the position in the block is forgotten.
AtBlockStart(length) == 0

\* Writer(dest, dest_length).
BlockOffset(length) == length % kBlockSize

\* The file is closed and opened again for appending.
ReopenLog ==
    /\ logStep = "write" /\ added # <<>>
    /\ writer' = BlockOffset(Len(logFile))
    /\ UNCHANGED <<logFile, added, bad, reader, found, logStep>>

-----------------------------------------------------------------------------
\* Reading.

\* A reader that starts at the first record at or after offset; resyncing, it first skips the
\* rest of a record that began earlier.
NewReader(offset, checksum) ==
    [buffer |-> <<>>, eof |-> FALSE, end_of_buffer |-> 0, last |-> 0, initial |-> offset,
     resyncing |-> offset > 0, checksum |-> checksum, drops |-> 0, done |-> FALSE]

SkipToInitialBlock(r) ==
    LET in == r.initial % kBlockSize
        start == r.initial - in + (IF in > kBlockSize - (kHeaderSize - 1) THEN kBlockSize ELSE 0)
    IN  [r EXCEPT !.end_of_buffer = start]

\* Nothing is reported that lies before the initial offset.
ReportDrop(r, bytes) ==
    IF r.end_of_buffer - Len(r.buffer) - bytes >= r.initial THEN [r EXCEPT !.drops = @ + 1] ELSE r

Drop(r) == ReportDrop([r EXCEPT !.buffer = <<>>], Len(r.buffer))

\* A checksum read as a number is longer than any block.
NumberAt(cell) == IF Len(cell) = 1 THEN cell[1] ELSE kBlockSize

RECURSIVE ReadPhysicalRecord(_, _)

\* The reader afterwards, the type and the fragment.
ReadPhysicalRecord(r, file) ==
    IF Len(r.buffer) < kHeaderSize
    THEN IF r.eof THEN [r |-> [r EXCEPT !.buffer = <<>>], type |-> kEof, data |-> <<>>]
         ELSE LET got == SubSeq(file, r.end_of_buffer + 1,
                                Min2(Len(file), r.end_of_buffer + kBlockSize))
              IN  ReadPhysicalRecord([r EXCEPT !.buffer = got, !.end_of_buffer = @ + Len(got),
                                               !.eof = Len(got) < kBlockSize], file)
    ELSE
    LET length == NumberAt(r.buffer[2])
        type == NumberAt(r.buffer[3])
        data == SubSeq(r.buffer, kHeaderSize + 1, kHeaderSize + length)
        rest == SubSeq(r.buffer, kHeaderSize + length + 1, Len(r.buffer))
        start == r.end_of_buffer - Len(rest) - kHeaderSize - length
    IN  IF kHeaderSize + length > Len(r.buffer)
        THEN IF r.eof THEN [r |-> [r EXCEPT !.buffer = <<>>], type |-> kEof, data |-> <<>>]
             ELSE [r |-> Drop(r), type |-> kBadRecord, data |-> <<>>]
        ELSE IF type = kZeroType /\ length = 0
        THEN [r |-> [r EXCEPT !.buffer = <<>>], type |-> kBadRecord, data |-> <<>>]
        ELSE IF r.checksum /\ r.buffer[1] # Crc(type, data)
        THEN [r |-> Drop(r), type |-> kBadRecord, data |-> <<>>]
        ELSE IF start < r.initial
        THEN [r |-> [r EXCEPT !.buffer = rest], type |-> kBadRecord, data |-> <<>>]
        ELSE [r |-> [r EXCEPT !.buffer = rest], type |-> type, data |-> data]

\* Mutant: after a bad fragment the reader goes on collecting.
KeepCollecting(part) == part

\* kBadRecord in the middle of a record: what was collected is dropped.
AbandonRecord(part) == [in |-> FALSE, scratch |-> <<>>, offset |-> 0]

RECURSIVE ReadLoop(_, _, _)

\* The loop of ReadRecord.  part is the fragmented record being collected.
ReadLoop(r, file, part) ==
    LET p == ReadPhysicalRecord(r, file)
        offset == p.r.end_of_buffer - Len(p.r.buffer) - kHeaderSize - Len(p.data)
        synced == [p.r EXCEPT !.resyncing = r.resyncing /\ p.type = kMiddleType]
        Report(cond, bytes) == IF cond THEN ReportDrop(synced, bytes) ELSE synced
        Return(data, at) == [r |-> [synced EXCEPT !.last = at], record |-> data, ok |-> TRUE]
    IN  IF r.resyncing /\ p.type \in {kMiddleType, kLastType} THEN ReadLoop(synced, file, part)
        ELSE CASE p.type = kFullType ->
                    LET s == Report(part.in /\ part.scratch # <<>>, Len(part.scratch))
                    IN  [r |-> [s EXCEPT !.last = offset], record |-> p.data, ok |-> TRUE]
               [] p.type = kFirstType ->
                    ReadLoop(Report(part.in /\ part.scratch # <<>>, Len(part.scratch)), file,
                             [in |-> TRUE, scratch |-> p.data, offset |-> offset])
               [] p.type = kMiddleType ->
                    ReadLoop(Report(~part.in, Len(p.data)), file,
                             IF part.in THEN [part EXCEPT !.scratch = @ \o p.data] ELSE part)
               [] p.type = kLastType ->
                    IF part.in THEN Return(part.scratch \o p.data, part.offset)
                    ELSE ReadLoop(Report(TRUE, Len(p.data)), file, part)
               [] p.type = kEof -> [r |-> synced, record |-> <<>>, ok |-> FALSE]
               [] p.type = kBadRecord ->
                    ReadLoop(Report(part.in, Len(part.scratch)), file, AbandonRecord(part))
               [] OTHER ->
                    ReadLoop(Report(TRUE, Len(p.data) + Len(part.scratch)), file, AbandonRecord(part))

ReadRecord ==
    /\ logStep = "read" /\ ~reader.done
    /\ \E res \in {ReadLoop(IF reader.last < reader.initial THEN SkipToInitialBlock(reader) ELSE reader,
                            logFile, [in |-> FALSE, scratch |-> <<>>, offset |-> 0])} :
        /\ reader' = [res.r EXCEPT !.done = ~res.ok]
        /\ found' = IF res.ok THEN Append(found, [data |-> res.record, start |-> res.r.last]) ELSE found
    /\ UNCHANGED <<logFile, writer, added, bad, logStep>>

\* The writer dies: the file holds some of its bytes.  It is read from the beginning, as
\* recovery and repair do, or from an offset.
OpenReader ==
    /\ logStep = "write" /\ added # <<>>
    /\ \/ \E n \in 0..Len(logFile), checksum \in BOOLEAN :
            /\ logFile' = SubSeq(logFile, 1, n)
            /\ reader' = NewReader(0, checksum)
            /\ bad' = 0
       \/ \E i \in DOMAIN logFile, b \in BadBytes :
            /\ logFile[i] # Byte(b)
            /\ logFile' = [logFile EXCEPT ![i] = Byte(b)]
            /\ reader' = NewReader(0, TRUE)
            /\ bad' = i
       \/ \E offset \in 1..Len(logFile) :
            /\ reader' = NewReader(offset, TRUE)
            /\ UNCHANGED <<logFile, bad>>
    /\ logStep' = "read"
    /\ UNCHANGED <<writer, added, found>>

LogNext == AddRecord \/ ReopenLog \/ ReadRecord \/ OpenReader

-----------------------------------------------------------------------------
BlockOf(position) == (position - 1) \div kBlockSize

\* The records that must come back: those complete in the file, from the offset on, and
\* none of whose bytes share a block with the bad one, unless they all come before it.
Complete(a) == a.end <= Len(logFile) /\ a.start >= reader.initial
Undamaged(a) ==
    \/ bad = 0 \/ a.end < bad
    \/ \A p \in (a.start + 1)..a.end : BlockOf(p) # BlockOf(bad)

\* However the writer died and wherever the reader starts, recovery sees every record that
\* was completely written, in order and once, and reports no corruption (a reader that starts
\* inside a fragmented record may report its end).  After a bad byte it
\* still never returns a record that was not written, or a splice of two, and loses only
\* records that have a part in the bad byte's block.
RecordsSurvive ==
    logStep = "read" /\ reader.done =>
        LET whole == SelectSeq(added, Complete)
            kept == SelectSeq(whole, Undamaged)
            Same(s) == [i \in DOMAIN s |-> [data |-> s[i].data, start |-> s[i].start]]
        IN  /\ bad = 0 => found = Same(whole)
            /\ bad = 0 /\ reader.initial = 0 => reader.drops = 0
            /\ \A i \in DOMAIN found : \E j \in DOMAIN whole : found[i] = Same(whole)[j]
            /\ \A i, j \in DOMAIN found : i < j => found[i].start < found[j].start
            /\ \A k \in DOMAIN kept : \E i \in DOMAIN found : found[i] = Same(kept)[k]
=============================================================================
