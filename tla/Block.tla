------------------------------- MODULE Block -------------------------------
(***************************************************************************)
(* Sorted blocks of LevelDB: the comparators (util/comparator.cc,            *)
(* db/dbformat.cc), table/block_builder.cc and table/block.cc.               *)
(*                                                                           *)
(* A block is a sequence of cells: the entries, each <shared> <non_shared>   *)
(* <value_size> <key delta> <value>, then the restart offsets and their      *)
(* number.  A varint, a fixed32 and the packed sequence number and type at   *)
(* the end of an internal key take a cell each.  A byte of a user key has    *)
(* two bits, so that its largest value is met.                               *)
(***************************************************************************)
EXTENDS Integers, Sequences, FiniteSets, FiniteSetsExt, SequencesExt

kMaxByte == 3
kMaxSequenceNumber == 3
kValueTypeForSeek == 1

-----------------------------------------------------------------------------
\* Keys.

PackSequenceAndType(seq, t) == 2 * seq + t

ExtractUserKey(key) == Front(key)

\* The number of bytes two strings have in common at the start.
SharedPrefix(a, b) == Max({n \in 0..Min({Len(a), Len(b)}) : \A i \in 1..n : a[i] = b[i]})

\* Slice::compare(a, b) < 0.
BytesLess(a, b) ==
    LET n == SharedPrefix(a, b)
    IN  IF n = Min({Len(a), Len(b)}) THEN Len(a) < Len(b) ELSE a[n + 1] < b[n + 1]

\* InternalKeyComparator::Compare(a, b) < 0.
KeyLess(a, b) ==
    \/ BytesLess(ExtractUserKey(a), ExtractUserKey(b))
    \/ ExtractUserKey(a) = ExtractUserKey(b) /\ Last(a) > Last(b)

\* BytewiseComparatorImpl::FindShortestSeparator.
BytesSeparator(start, limit) ==
    LET n == SharedPrefix(start, limit)
    IN  IF /\ n < Min({Len(start), Len(limit)})
           /\ start[n + 1] < kMaxByte /\ start[n + 1] + 1 < limit[n + 1]
        THEN Append(SubSeq(start, 1, n), start[n + 1] + 1)
        ELSE start

\* BytewiseComparatorImpl::FindShortSuccessor.
BytesSuccessor(key) ==
    LET can == {i \in DOMAIN key : key[i] # kMaxByte}
    IN  IF can = {} THEN key
        ELSE Append(SubSeq(key, 1, Min(can) - 1), key[Min(can)] + 1)

\* A user key that became shorter and larger gets the earliest possible number.
Shortened(key, user) ==
    IF Len(user) < Len(key) - 1 /\ BytesLess(ExtractUserKey(key), user)
    THEN Append(user, PackSequenceAndType(kMaxSequenceNumber, kValueTypeForSeek))
    ELSE key

\* InternalKeyComparator::FindShortestSeparator.
FindShortestSeparator(start, limit) ==
    Shortened(start, BytesSeparator(ExtractUserKey(start), ExtractUserKey(limit)))

\* InternalKeyComparator::FindShortSuccessor.
FindShortSuccessor(key) == Shortened(key, BytesSuccessor(ExtractUserKey(key)))

-----------------------------------------------------------------------------
\* BlockBuilder.

NewBlockBuilder == [buffer |-> <<>>, restarts |-> <<0>>, counter |-> 0, last_key |-> <<>>]

CurrentSizeEstimate(b) == Len(b.buffer) + Len(b.restarts) + 1

BlockFinish(b) == Append(b.buffer \o b.restarts, Len(b.restarts))

BlockAdd(b, interval, key, value) ==
    LET restart == b.counter >= interval
        shared == IF restart THEN 0 ELSE SharedPrefix(b.last_key, key)
        delta == SubSeq(key, shared + 1, Len(key))
    IN  [buffer |-> b.buffer \o <<shared, Len(delta), Len(value)>> \o delta \o value,
         restarts |-> IF restart THEN Append(b.restarts, Len(b.buffer)) ELSE b.restarts,
         counter |-> (IF restart THEN 0 ELSE b.counter) + 1,
         last_key |-> key]

-----------------------------------------------------------------------------
\* Block::Iter.  data is the block; value_ is the value's offset and size.

NumRestarts(data) == Last(data)

RestartOffset(data) == Len(data) - 1 - NumRestarts(data)

GetRestartPoint(data, index) == data[RestartOffset(data) + index + 1]

\* An iterator with nothing under it: NewErrorIterator and NewEmptyIterator.
NoBlock(ok) == [data |-> <<>>, current |-> 0, restart_index |-> 0, key |-> <<>>,
                value |-> [at |-> 0, size |-> 0], ok |-> ok]

\* Block::Block, Block::NewIterator.
BlockIterator(data) ==
    IF data = <<>> \/ NumRestarts(data) > Len(data) - 1 THEN NoBlock(FALSE)
    ELSE IF NumRestarts(data) = 0 THEN NoBlock(TRUE)
    ELSE [NoBlock(TRUE) EXCEPT !.data = data, !.current = RestartOffset(data),
                               !.restart_index = NumRestarts(data)]

IterValid(it) == it.data # <<>> /\ it.current < RestartOffset(it.data)

IterValue(it) == SubSeq(it.data, it.value.at + 1, it.value.at + it.value.size)

NextEntryOffset(it) == it.value.at + it.value.size

\* The entry at an offset: how much of the key is shared, the rest of it and the value.
DecodeEntry(data, at) ==
    LET limit == RestartOffset(data)
    IN  IF limit - at < 3 \/ limit - (at + 3) < data[at + 2] + data[at + 3]
        THEN [ok |-> FALSE]
        ELSE [ok |-> TRUE, shared |-> data[at + 1],
              delta |-> SubSeq(data, at + 4, at + 3 + data[at + 2]),
              value |-> [at |-> at + 3 + data[at + 2], size |-> data[at + 3]]]

\* No more entries.
AtEnd(it) == [it EXCEPT !.current = RestartOffset(it.data), !.restart_index = NumRestarts(it.data)]

CorruptionError(it) ==
    [AtEnd(it) EXCEPT !.ok = FALSE, !.key = <<>>, !.value = [at |-> 0, size |-> 0]]

SeekToRestartPoint(it, index) ==
    [it EXCEPT !.key = <<>>, !.restart_index = index,
               !.value = [at |-> GetRestartPoint(it.data, index), size |-> 0]]

\* The iterator afterwards is valid if there was an entry.
ParseNextKey(it) ==
    LET at == NextEntryOffset(it)
        entry == DecodeEntry(it.data, at)
        passed == {i \in it.restart_index..(NumRestarts(it.data) - 1) :
                        i = it.restart_index \/ GetRestartPoint(it.data, i) < at}
    IN  IF at >= RestartOffset(it.data) THEN AtEnd(it)
        ELSE IF ~entry.ok THEN CorruptionError(it)
        ELSE IF Len(it.key) < entry.shared THEN CorruptionError(it)
        ELSE [it EXCEPT !.current = at, !.value = entry.value, !.restart_index = Max(passed),
                        !.key = SubSeq(it.key, 1, entry.shared) \o entry.delta]

RECURSIVE ParseUntil(_, _)

\* The loops around ParseNextKey: until the next entry is at the given offset.
ParseUntil(it, end) ==
    LET next == ParseNextKey(it)
    IN  IF IterValid(next) /\ NextEntryOffset(next) < end THEN ParseUntil(next, end) ELSE next

IterNext(it) == ParseNextKey(it)

IterPrev(it) ==
    LET before == {i \in 0..it.restart_index : GetRestartPoint(it.data, i) < it.current}
    IN  IF before = {} THEN AtEnd(it)
        ELSE ParseUntil(SeekToRestartPoint(it, Max(before)), it.current)

RECURSIVE SearchRestarts(_, _, _, _)

\* The binary search of Seek: the last restart point with a key before the target, or -1
\* if an entry there is bad.
SearchRestarts(data, target, left, right) ==
    LET mid == (left + right + 1) \div 2
        entry == DecodeEntry(data, GetRestartPoint(data, mid))
    IN  IF left >= right THEN left
        ELSE IF ~entry.ok THEN -1
        ELSE IF entry.shared # 0 THEN -1
        ELSE IF KeyLess(entry.delta, target) THEN SearchRestarts(data, target, mid, right)
        ELSE SearchRestarts(data, target, left, mid - 1)

RECURSIVE ParseToKey(_, _)

\* The linear search of Seek: to the first key at or after the target.
ParseToKey(it, target) ==
    LET next == ParseNextKey(it)
    IN  IF IterValid(next) /\ KeyLess(next.key, target) THEN ParseToKey(next, target) ELSE next

IterSeek(it, target) ==
    IF it.data = <<>> THEN it
    ELSE LET left == SearchRestarts(it.data, target, 0, NumRestarts(it.data) - 1)
         IN  IF left < 0 THEN CorruptionError(it)
             ELSE ParseToKey(SeekToRestartPoint(it, left), target)

IterSeekToFirst(it) == IF it.data = <<>> THEN it ELSE ParseNextKey(SeekToRestartPoint(it, 0))

IterSeekToLast(it) ==
    IF it.data = <<>> THEN it
    ELSE ParseUntil(SeekToRestartPoint(it, NumRestarts(it.data) - 1), RestartOffset(it.data))
=============================================================================
