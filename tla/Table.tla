------------------------------- MODULE Table -------------------------------
(***************************************************************************)
(* Tables of LevelDB: table/table_builder.cc, table/table.cc,                 *)
(* table/format.cc and table/two_level_iterator.cc.  A table is built by       *)
(* adding keys in order, any write of which may fail; it is then opened, a     *)
(* block of it perhaps unreadable, and read by lookups and by an iterator.     *)
(* Snappy is not built in (port_stdcxx.h), so blocks are never compressed.     *)
(* A block that cannot be read is one whose read fails, or one with a wrong    *)
(* checksum, which is noticed only when checksums are verified: always with    *)
(* Options::paranoid_checks, else for the data blocks of a read with           *)
(* ReadOptions::verify_checksums (format.cc:87, table.cc:59, 92, 123).  Both   *)
(* are off by default, and a changed block is then used as it is; that is not  *)
(* modelled.                                                                   *)
(***************************************************************************)
EXTENDS FilterBlock

CONSTANTS
    TableKeys,          \* internal keys that may be added
    TableEntries,       \* how many are
    TableOptions,       \* block_restart_interval, block_size and bits_per_key (0: no filter policy)
    TableFailures       \* the write and the flush that fail (0: none)

VARIABLES
    tableOptions,
    tableFailure,
    tb,                 \* TableBuilder::Rep and the file
    tableAdded,         \* the entries added, and the offset of their block
    table,              \* the open table
    ti,                 \* the iterator over it
    tiAt,               \* where it has to be, and whether it passed entries it could not read
    tableStep

tableVars == <<tableOptions, tableFailure, tb, tableAdded, table, ti, tiAt, tableStep>>

kBlockTrailerSize == 2

NoHandle == <<0, 0>>

-----------------------------------------------------------------------------
\* TableBuilder.

\* The constructor.
NewTableBuilder ==
    [file |-> <<>>, offset |-> 0, ok |-> TRUE, data_block |-> NewBlockBuilder,
     index_block |-> NewBlockBuilder, last_key |-> <<>>, closed |-> FALSE,
     filter_block |-> NewFilterBlock, pending_index_entry |-> FALSE, pending_handle |-> NoHandle,
     footer |-> <<>>, flushes |-> 0]

HasFilter == tableOptions.bits_per_key > 0

WriteSucceeds(r) == Len(r.file) + 1 # tableFailure.write

\* A block and its trailer (type and checksum) at the end of the file; the handle of a block
\* is <<its offset, its size>>.
WriteRawBlock(r, contents) ==
    IF WriteSucceeds(r)
    THEN [r EXCEPT !.file = Append(@, [offset |-> r.offset, data |-> contents]),
                   !.offset = @ + Len(contents) + kBlockTrailerSize]
    ELSE [r EXCEPT !.ok = FALSE]

HandleOf(r, contents) == <<r.offset, Len(contents)>>

\* Flush after WriteBlock: the file is flushed and a filter block started.
AfterWrite(r) ==
    [r EXCEPT !.pending_index_entry = @ \/ r.ok, !.flushes = IF r.ok THEN @ + 1 ELSE @,
              !.ok = @ /\ r.flushes + 1 # tableFailure.flush,
              !.filter_block = IF HasFilter
                               THEN FilterStartBlock(@, r.offset, tableOptions.bits_per_key) ELSE @]

\* WriteBlock.
WriteBlock(r, contents) ==
    AfterWrite([WriteRawBlock(r, contents)
                  EXCEPT !.data_block = NewBlockBuilder, !.pending_handle = HandleOf(r, contents)])

\* Flush.
TableFlush(r) ==
    IF ~r.ok \/ r.data_block.buffer = <<>> THEN r
    ELSE WriteBlock(r, BlockFinish(r.data_block))

\* The index entry of the finished block, under a key that separates it from what follows.
AddIndexEntry(r, separator) ==
    IF r.pending_index_entry
    THEN [r EXCEPT !.index_block = BlockAdd(@, 1, separator, r.pending_handle),
                   !.pending_index_entry = FALSE]
    ELSE r

\* Add.
TableAdd(r, key, value) ==
    LET i == AddIndexEntry(r, FindShortestSeparator(r.last_key, key))
        a == [i EXCEPT !.filter_block = IF HasFilter THEN FilterAddKey(@, key) ELSE @,
                       !.last_key = key,
                       !.data_block = BlockAdd(@, tableOptions.block_restart_interval, key, value)]
    IN  IF ~r.ok THEN r
        ELSE IF CurrentSizeEstimate(a.data_block) >= tableOptions.block_size THEN TableFlush(a)
        ELSE a

\* The key of the filter block in the metaindex block.
FilterName == <<0>>

\* Finish: the filter, metaindex and index blocks, then the footer with the handles of the last
\* two.  Its steps, from the last to the first.
WriteFooter(r, metaindex, index) ==
    IF r.ok /\ ~WriteSucceeds(r) THEN [r EXCEPT !.ok = FALSE]
    ELSE IF r.ok THEN [r EXCEPT !.footer = <<metaindex, index>>]
    ELSE r

WriteIndex(r, metaindex, index) ==
    WriteFooter(IF r.ok THEN [WriteRawBlock(r, index) EXCEPT !.index_block = NewBlockBuilder] ELSE r,
                metaindex, HandleOf(r, index))

FinishIndex(r, metaindex) == WriteIndex(r, metaindex, BlockFinish(r.index_block))

LastIndexEntry(r, metaindex) ==
    FinishIndex(IF r.ok THEN AddIndexEntry(r, FindShortSuccessor(r.last_key)) ELSE r, metaindex)

WriteMetaindex(r, contents) ==
    LastIndexEntry(IF r.ok THEN WriteRawBlock(r, contents) ELSE r, HandleOf(r, contents))

WriteFilter(r, filter) ==
    WriteMetaindex(IF r.ok /\ HasFilter THEN WriteRawBlock(r, filter) ELSE r,
        BlockFinish(IF HasFilter
                    THEN BlockAdd(NewBlockBuilder, tableOptions.block_restart_interval,
                                  FilterName, HandleOf(r, filter))
                    ELSE NewBlockBuilder))

FinishFlushed(r) ==
    WriteFilter([r EXCEPT !.closed = TRUE],
                FilterFinish(r.filter_block, tableOptions.bits_per_key))

TableFinish(r) == FinishFlushed(TableFlush(r))

-----------------------------------------------------------------------------
\* Table.

\* ReadBlock, checksums verified: a block as it was written, or nothing.
ReadBlock(file, damaged, handle) ==
    {b.data : b \in {c \in Range(file) : /\ c.offset = handle[1] /\ Len(c.data) = handle[2]
                                          /\ c.offset # damaged}}

\* An iterator over the block a handle names: Table::BlockReader.
BlockReader(t, handle) ==
    LET contents == ReadBlock(t.file, t.damaged, handle)
    IN  IF contents = {} THEN NoBlock(FALSE) ELSE BlockIterator(CHOOSE c \in contents : TRUE)

\* ReadMeta and ReadFilter: the filter block, or <<>> if there is none or it cannot be read.
\* The metaindex block has at most one entry, which the seek finds.
ReadMeta(file, damaged, metaindex_handle) ==
    LET meta == ReadBlock(file, damaged, metaindex_handle)
        it == IterSeekToFirst(BlockIterator(CHOOSE c \in meta : TRUE))
        filter == ReadBlock(file, damaged, IterValue(it))
    IN  IF ~HasFilter \/ meta = {} THEN <<>>
        ELSE IF ~IterValid(it) \/ it.key # FilterName THEN <<>>
        ELSE IF filter = {} THEN <<>> ELSE CHOOSE c \in filter : TRUE

\* Table::Open: no table without a footer and an index block.
TableOpen(r, damaged) ==
    LET index == ReadBlock(r.file, damaged, r.footer[2])
    IN  IF r.footer = <<>> THEN [ok |-> FALSE, damaged |-> damaged]
        ELSE IF index = {} THEN [ok |-> FALSE, damaged |-> damaged]
        ELSE [ok |-> TRUE, file |-> r.file, damaged |-> damaged,
              index |-> CHOOSE c \in index : TRUE, metaindex_handle |-> r.footer[1],
              filter |-> ReadMeta(r.file, damaged, r.footer[1])]

\* Table::InternalGet: the entries handed to handle_result, and whether the status is OK.
InternalGet(t, k) ==
    LET iiter == IterSeek(BlockIterator(t.index), k)
        handle == IterValue(iiter)
        it == IterSeek(BlockReader(t, handle), k)
    IN  IF ~IterValid(iiter) THEN [found |-> {}, ok |-> iiter.ok]
        ELSE IF t.filter # <<>> /\ ~FilterKeyMayMatch(t.filter, handle[1], k)
        THEN [found |-> {}, ok |-> iiter.ok]
        ELSE [found |-> IF IterValid(it) THEN {[key |-> it.key, value |-> IterValue(it)]} ELSE {},
              ok |-> it.ok /\ iiter.ok]

ApproximateOffsetOf(t, key) ==
    LET it == IterSeek(BlockIterator(t.index), key)
    IN  IF IterValid(it) THEN IterValue(it)[1] ELSE t.metaindex_handle[1]

-----------------------------------------------------------------------------
\* TwoLevelIterator.  data_iter_ is a set: nullptr, or one iterator.

NewTwoLevelIterator(t) ==
    [index |-> BlockIterator(t.index), data |-> {}, handle |-> <<>>, ok |-> TRUE]

DataIter(i) == CHOOSE d \in i.data : TRUE

TwoLevelValid(i) == i.data # {} /\ IterValid(DataIter(i))

TwoLevelStatus(i) == i.index.ok /\ i.ok /\ (\A d \in i.data : d.ok)

\* SaveError.
SetDataIterator(i, data) == [i EXCEPT !.ok = @ /\ (\A d \in i.data : d.ok), !.data = data]

InitDataBlock(i) ==
    LET handle == IterValue(i.index)
    IN  IF ~IterValid(i.index) THEN SetDataIterator(i, {})
        ELSE IF i.data # {} /\ handle = i.handle THEN i
        ELSE [SetDataIterator(i, {BlockReader(table, handle)}) EXCEPT !.handle = handle]

\* IteratorWrapper: the data iterator moved by an operation, if there is one.
MoveData(i, op, target) ==
    [i EXCEPT !.data = {CASE op = "Next" -> IterNext(d)
                          [] op = "Prev" -> IterPrev(d)
                          [] op = "Seek" -> IterSeek(d, target)
                          [] op = "SeekToFirst" -> IterSeekToFirst(d)
                          [] op = "SeekToLast" -> IterSeekToLast(d) : d \in i.data}]

RECURSIVE SkipEmptyDataBlocksForward(_)

SkipEmptyDataBlocksForward(i) ==
    IF TwoLevelValid(i) THEN i
    ELSE IF ~IterValid(i.index) THEN SetDataIterator(i, {})
    ELSE SkipEmptyDataBlocksForward(
            MoveData(InitDataBlock([i EXCEPT !.index = IterNext(@)]), "SeekToFirst", <<>>))

RECURSIVE SkipEmptyDataBlocksBackward(_)

SkipEmptyDataBlocksBackward(i) ==
    IF TwoLevelValid(i) THEN i
    ELSE IF ~IterValid(i.index) THEN SetDataIterator(i, {})
    ELSE SkipEmptyDataBlocksBackward(
            MoveData(InitDataBlock([i EXCEPT !.index = IterPrev(@)]), "SeekToLast", <<>>))

TwoLevelSeek(i, target) ==
    SkipEmptyDataBlocksForward(
        MoveData(InitDataBlock([i EXCEPT !.index = IterSeek(@, target)]), "Seek", target))

TwoLevelSeekToFirst(i) ==
    SkipEmptyDataBlocksForward(
        MoveData(InitDataBlock([i EXCEPT !.index = IterSeekToFirst(@)]), "SeekToFirst", <<>>))

TwoLevelSeekToLast(i) ==
    SkipEmptyDataBlocksBackward(
        MoveData(InitDataBlock([i EXCEPT !.index = IterSeekToLast(@)]), "SeekToLast", <<>>))

TwoLevelNext(i) == SkipEmptyDataBlocksForward(MoveData(i, "Next", <<>>))

TwoLevelPrev(i) == SkipEmptyDataBlocksBackward(MoveData(i, "Prev", <<>>))

-----------------------------------------------------------------------------
\* Building a table and reading it.

TableInit(options, failure) ==
    /\ tableOptions = options /\ tableFailure = failure
    /\ tb = [NewTableBuilder EXCEPT !.filter_block =
                IF HasFilter THEN FilterStartBlock(@, 0, options.bits_per_key) ELSE @]
    /\ tableAdded = <<>> /\ table = [ok |-> FALSE, damaged |-> -1]
    /\ ti = <<>> /\ tiAt = [now |-> 0, lost |-> FALSE]
    /\ tableStep = "build"

BuilderAdd ==
    /\ tableStep = "build" /\ ~tb.closed /\ Len(tableAdded) < TableEntries
    /\ \E key \in TableKeys :
        /\ tableAdded # <<>> => KeyLess(Last(tableAdded).key, key)
        /\ LET value == [i \in 1..(Len(tableAdded) % 3) |-> Len(tableAdded)]
           IN  /\ \E r \in {TableAdd(tb, key, value)} : tb' = r
               /\ tableAdded' = Append(tableAdded, [key |-> key, value |-> value, block |-> tb.offset])
    /\ UNCHANGED <<tableOptions, tableFailure, table, ti, tiAt, tableStep>>

\* A caller may end a block at any key.
BuilderFlush ==
    /\ tableStep = "build" /\ ~tb.closed /\ tb.data_block.buffer # <<>>
    /\ \E r \in {TableFlush(tb)} : tb' = r
    /\ UNCHANGED <<tableOptions, tableFailure, tableAdded, table, ti, tiAt, tableStep>>

BuilderFinish ==
    /\ tableStep = "build" /\ ~tb.closed
    /\ \E r \in {TableFinish(tb)} : tb' = r
    /\ UNCHANGED <<tableOptions, tableFailure, tableAdded, table, ti, tiAt, tableStep>>

\* Abandon: the caller met an error.
BuilderAbandon ==
    /\ tableStep = "build" /\ ~tb.closed
    /\ tb' = [tb EXCEPT !.closed = TRUE]
    /\ UNCHANGED <<tableOptions, tableFailure, tableAdded, table, ti, tiAt, tableStep>>

\* The file is opened, however its builder ended.  A block of it may be damaged.
OpenTable ==
    /\ tableStep = "build" /\ tb.closed
    /\ \E damaged \in {-1} \cup {b.offset : b \in Range(tb.file)} :
        \E t \in {TableOpen(tb, damaged)} :
            /\ table' = t
            /\ ti' = IF t.ok THEN NewTwoLevelIterator(t) ELSE <<>>
    /\ tableStep' = "read"
    /\ UNCHANGED <<tableOptions, tableFailure, tb, tableAdded, tiAt>>

\* Where the iterator belongs: among the entries of the blocks that can be read.
ReadableEntries == {i \in DOMAIN tableAdded : tableAdded[i].block # table.damaged}
FirstFrom(n) == Min({i \in ReadableEntries : i >= n} \cup {Len(tableAdded) + 1})
LastUpTo(n) == Max({i \in ReadableEntries : i <= n} \cup {0})
Unreadable == DOMAIN tableAdded \ ReadableEntries
InTable(n) == n \in DOMAIN tableAdded

MoveTo(iter, from, to) ==
    /\ \E i \in {iter} : ti' = i
    /\ tiAt' = [now |-> to,
                lost |-> tiAt.lost \/ Unreadable \cap Min({from, to})..Max({from, to}) # {}]
    /\ UNCHANGED <<tableOptions, tableFailure, tb, tableAdded, table, tableStep>>

IterateSeek ==
    /\ tableStep = "read" /\ table.ok
    /\ \E target \in TableKeys :
        LET n == Cardinality({i \in DOMAIN tableAdded : KeyLess(tableAdded[i].key, target)}) + 1
        IN  MoveTo(TwoLevelSeek(ti, target), n, FirstFrom(n))

IterateSeekToFirst ==
    tableStep = "read" /\ table.ok /\ MoveTo(TwoLevelSeekToFirst(ti), 1, FirstFrom(1))

IterateSeekToLast ==
    /\ tableStep = "read" /\ table.ok
    /\ MoveTo(TwoLevelSeekToLast(ti), Len(tableAdded), LastUpTo(Len(tableAdded)))

IterateNext ==
    /\ tableStep = "read" /\ table.ok /\ TwoLevelValid(ti)
    /\ MoveTo(TwoLevelNext(ti), tiAt.now, FirstFrom(tiAt.now + 1))

IteratePrev ==
    /\ tableStep = "read" /\ table.ok /\ TwoLevelValid(ti)
    /\ MoveTo(TwoLevelPrev(ti), tiAt.now, LastUpTo(tiAt.now - 1))

TableNext ==
    \/ BuilderAdd \/ BuilderFlush \/ BuilderFinish \/ BuilderAbandon \/ OpenTable
    \/ IterateSeek \/ IterateSeekToFirst \/ IterateSeekToLast \/ IterateNext \/ IteratePrev

-----------------------------------------------------------------------------
\* What a lookup has to hand over: the newest entry of the user key, up to the snapshot.
Visible(k) ==
    {e \in Range(tableAdded) : /\ ExtractUserKey(e.key) = ExtractUserKey(k)
                               /\ ~KeyLess(e.key, k)
                               /\ \A o \in Range(tableAdded) :
                                    ExtractUserKey(o.key) = ExtractUserKey(k) /\ ~KeyLess(o.key, k)
                                        => ~KeyLess(o.key, e.key)}

\* A table finished without an error opens, unless its index block is damaged, and one that
\* was not finished does not.  Every lookup that
\* reports no error finds the newest entry of its key, whatever the filter says; offsets
\* ascend with the keys; a damaged filter or metaindex block changes no answer.
LookupsFind ==
    /\ table.ok => tb.footer # <<>> /\ tb.ok
    /\ tb.ok /\ tb.footer # <<>> /\ table.damaged # tb.footer[2][1] => table.ok
    /\ table.ok => \A k \in TableKeys :
        LET got == InternalGet(table, k)
            seen == {e \in got.found : ExtractUserKey(e.key) = ExtractUserKey(k)}
            want == {[key |-> e.key, value |-> e.value] : e \in Visible(k)}
        IN  /\ got.ok => seen = want
            /\ ~got.ok => Unreadable # {}
            /\ \A l \in TableKeys : KeyLess(k, l) =>
                    ApproximateOffsetOf(table, k) <= ApproximateOffsetOf(table, l)

\* However it got there, the iterator is at the entry it belongs at, and if it had to pass
\* entries of a damaged block its status says so.
IteratorAgrees ==
    /\ TwoLevelValid(ti) <=> InTable(tiAt.now)
    /\ TwoLevelValid(ti) => LET e == tableAdded[tiAt.now]
                            IN  DataIter(ti).key = e.key /\ IterValue(DataIter(ti)) = e.value
    /\ tiAt.lost => ~TwoLevelStatus(ti)
    /\ Unreadable = {} => TwoLevelStatus(ti)

\* Lookups and iterators find the entries added to a table, in order, or report an error.  Of
\* blocks with changed bytes this says something only where checksums are verified.
TableFindsAll ==
    tableStep = "read" =>
        /\ tiAt.now = 0 => LookupsFind
        /\ table.ok => IteratorAgrees
=============================================================================
