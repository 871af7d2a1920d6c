------------------------------ MODULE Formats ------------------------------
(***************************************************************************)
(* Bytes of keys and of table footers: db/dbformat.h, the entries of          *)
(* db/memtable.cc, and BlockHandle and Footer of table/format.cc.             *)
(*                                                                           *)
(* With the scaled bytes of Coding, the tag behind a user key has four bytes  *)
(* and its lowest byte is the type.                                           *)
(***************************************************************************)
EXTENDS WriteBatch

kTagSize == 4
kInlineSpace == 12      \* space_ of a LookupKey

AppendInternalKey(user_key, seq, type) == user_key \o EncodeFixed64(seq * ByteSize + type)

ParseInternalKey(key) ==
    LET n == Len(key) - kTagSize
        tag == DecodeFixed64(SubSeq(key, n + 1, Len(key)))
    IN  IF n < 0 THEN [ok |-> FALSE]
        ELSE [ok |-> tag % ByteSize <= kTypeValue, user_key |-> SubSeq(key, 1, n),
              sequence |-> tag \div ByteSize, type |-> tag % ByteSize]

\* LookupKey: one array holds the length, the user key and the tag; needed is how much of it
\* is reserved before they are written.
LookupBytes(user_key, seq) ==
    LET length == PutVarint32(Len(user_key) + kTagSize)
        needed == Len(user_key) + 3 + kTagSize
    IN  [bytes |-> length \o AppendInternalKey(user_key, seq, kTypeValue),
         kstart |-> Len(length),
         space |-> IF needed <= kInlineSpace THEN kInlineSpace ELSE needed]

memtable_key(lookup) == lookup.bytes
internal_key(lookup) == SubSeq(lookup.bytes, lookup.kstart + 1, Len(lookup.bytes))
user_key_of(lookup) == SubSeq(lookup.bytes, lookup.kstart + 1, Len(lookup.bytes) - kTagSize)

\* MemTable::Add: the entry, and the length it asks the arena for.
MemTableEntry(seq, type, key, value) ==
    [bytes |-> PutVarint32(Len(key) + kTagSize) \o AppendInternalKey(key, seq, type)
                   \o PutVarint32(Len(value)) \o value,
     encoded_len |-> VarintLength(Len(key) + kTagSize) + Len(key) + kTagSize
                         + VarintLength(Len(value)) + Len(value)]

BytewiseOrder(a, b) ==
    LET differ == {i \in 1..Min({Len(a), Len(b)}) : a[i] # b[i]}
    IN  IF differ = {} THEN Len(a) - Len(b) ELSE a[Min(differ)] - b[Min(differ)]

\* MemTable::KeyComparator: both are length prefixed internal keys, the newer tag comes first.
EntryOrder(a, b) ==
    LET x == GetLengthPrefixedSlice(a).value
        y == GetLengthPrefixedSlice(b).value
        User(k) == SubSeq(k, 1, Len(k) - kTagSize)
        TagOf(k) == DecodeFixed64(SubSeq(k, Len(k) - kTagSize + 1, Len(k)))
    IN  IF BytewiseOrder(User(x), User(y)) # 0 THEN BytewiseOrder(User(x), User(y))
        ELSE TagOf(y) - TagOf(x)

\* MemTable::Get at the entry that its seek found.
EntryGet(entry, lookup) ==
    LET key == GetLengthPrefixedSlice(entry)
        n == Len(key.value) - kTagSize
        type == DecodeFixed64(SubSeq(key.value, n + 1, n + kTagSize)) % ByteSize
    IN  IF SubSeq(key.value, 1, n) # user_key_of(lookup) THEN [found |-> FALSE]
        ELSE IF type = kTypeDeletion THEN [found |-> TRUE, deleted |-> TRUE]
        ELSE [found |-> TRUE, deleted |-> FALSE, value |-> GetLengthPrefixedSlice(key.rest).value]

\* Entries and lookup keys fit the memory reserved for them.  A lookup at a sequence number
\* stops at the first entry of its user key that is not newer, by the bytes alone, and finds
\* there what was added.
EntryAgrees(key, other, seq, at, type, value) ==
    LET entry == MemTableEntry(seq, type, other, value)
        lookup == LookupBytes(key, at)
    IN  /\ Len(entry.bytes) = entry.encoded_len
        /\ Len(lookup.bytes) <= lookup.space
        /\ ParseInternalKey(internal_key(lookup)) =
               [ok |-> TRUE, user_key |-> key, sequence |-> at, type |-> kTypeValue]
        /\ EntryOrder(entry.bytes, memtable_key(lookup)) >= 0
               <=> \/ BytewiseOrder(other, key) > 0
                   \/ other = key /\ seq <= at
        /\ EntryGet(entry.bytes, lookup) =
               IF other # key THEN [found |-> FALSE]
               ELSE IF type = kTypeDeletion THEN [found |-> TRUE, deleted |-> TRUE]
               ELSE [found |-> TRUE, deleted |-> FALSE, value |-> value]

-----------------------------------------------------------------------------
kMaxEncodedLength == 6 + 6
kFooterLength == 2 * kMaxEncodedLength + kTagSize
kTableMagicNumber == 51991

EncodeHandle(handle) == PutVarint64(handle.offset) \o PutVarint64(handle.size)

DecodeHandle(input) ==
    LET offset == GetVarint64(input)
        size == GetVarint64(offset.rest)
    IN  IF offset.ok /\ size.ok THEN Got([offset |-> offset.value, size |-> size.value], size.rest)
        ELSE NotGot(input)

\* The two handles are padded to their largest size, so that the footer can be read from the
\* end of the file.
EncodeFooter(metaindex, index) ==
    LET handles == EncodeHandle(metaindex) \o EncodeHandle(index)
    IN  handles \o [i \in 1..2 * kMaxEncodedLength - Len(handles) |-> 0]
            \o EncodeFixed32(kTableMagicNumber % UInt32) \o EncodeFixed32(kTableMagicNumber \div UInt32)

DecodeFooter(input) ==
    LET magic == SubSeq(input, kFooterLength - kTagSize + 1, kFooterLength)
        metaindex == DecodeHandle(input)
        index == DecodeHandle(metaindex.rest)
    IN  IF DecodeFixed64(magic) # kTableMagicNumber \/ ~metaindex.ok \/ ~index.ok THEN NotGot(input)
        ELSE Got([metaindex |-> metaindex.value, index |-> index.value],
                 SubSeq(input, kFooterLength + 1, Len(input)))

\* A footer has its fixed length whatever the handles, gives them back, and is refused if its
\* magic number is damaged.
FooterAgrees(metaindex, index) ==
    LET bytes == EncodeFooter(metaindex, index)
    IN  /\ Len(bytes) = kFooterLength
        /\ DecodeFooter(bytes) = Got([metaindex |-> metaindex, index |-> index], <<>>)
        /\ \A i \in kFooterLength - kTagSize + 1..kFooterLength :
               ~DecodeFooter([bytes EXCEPT ![i] = (@ + 1) % ByteSize]).ok
=============================================================================
