---------------------------- MODULE VersionEdit ----------------------------
(***************************************************************************)
(* Records of the MANIFEST: db/version_edit.h and db/version_edit.cc.         *)
(*                                                                           *)
(* An optional field is a sequence of at most one value.  A key is a string   *)
(* of bytes: InternalKey only copies it.                                      *)
(***************************************************************************)
EXTENDS Coding

EditLevels == 7     \* config::kNumLevels

kComparator == 1
kLogNumber == 2
kNextFileNumber == 3
kLastSequence == 4
kCompactPointer == 5
kDeletedFile == 6
kNewFile == 7
kPrevLogNumber == 9

NewVersionEdit ==
    [comparator |-> <<>>, log_number |-> <<>>, prev_log_number |-> <<>>,
     next_file_number |-> <<>>, last_sequence |-> <<>>,
     compact_pointers |-> <<>>, deleted_files |-> {}, new_files |-> <<>>]

\* Clear: everything but the compaction pointers.
EditClear(edit) == [NewVersionEdit EXCEPT !.compact_pointers = edit.compact_pointers]

SetComparatorName(edit, name) == [edit EXCEPT !.comparator = <<name>>]

SetLogNumber(edit, number) == [edit EXCEPT !.log_number = <<number>>]

SetPrevLogNumber(edit, number) == [edit EXCEPT !.prev_log_number = <<number>>]

SetNextFile(edit, number) == [edit EXCEPT !.next_file_number = <<number>>]

SetLastSequence(edit, number) == [edit EXCEPT !.last_sequence = <<number>>]

SetCompactPointer(edit, level, key) ==
    [edit EXCEPT !.compact_pointers = Append(@, [level |-> level, key |-> key])]

EditAddFile(edit, file) == [edit EXCEPT !.new_files = Append(@, file)]

EditDeleteFile(edit, level, number) ==
    [edit EXCEPT !.deleted_files = @ \cup {[level |-> level, number |-> number]}]

\* A std::set of pairs is visited in their order.
InSetOrder(files) ==
    [i \in 1..Cardinality(files) |->
        CHOOSE f \in files : Cardinality({g \in files : \/ g.level < f.level
                                                        \/ g.level = f.level /\ g.number < f.number}) = i - 1]

Concatenated(parts) == FoldLeft(LAMBDA a, b : a \o b, <<>>, parts)

\* One optional number.
NumberField(tag, field) == IF field = <<>> THEN <<>> ELSE PutVarint32(tag) \o PutVarint64(field[1])

EncodeEdit(edit) ==
    LET Pointer(p) == PutVarint32(kCompactPointer) \o PutVarint32(p.level)
                          \o PutLengthPrefixedSlice(p.key)
        Deleted(f) == PutVarint32(kDeletedFile) \o PutVarint32(f.level) \o PutVarint64(f.number)
        New(f) == PutVarint32(kNewFile) \o PutVarint32(f.level) \o PutVarint64(f.number)
                      \o PutVarint64(f.file_size) \o PutLengthPrefixedSlice(f.smallest)
                      \o PutLengthPrefixedSlice(f.largest)
        deleted == InSetOrder(edit.deleted_files)
    IN  Concatenated(<<
            IF edit.comparator = <<>> THEN <<>>
            ELSE PutVarint32(kComparator) \o PutLengthPrefixedSlice(edit.comparator[1]),
            NumberField(kLogNumber, edit.log_number),
            NumberField(kPrevLogNumber, edit.prev_log_number),
            NumberField(kNextFileNumber, edit.next_file_number),
            NumberField(kLastSequence, edit.last_sequence),
            Concatenated([i \in DOMAIN edit.compact_pointers |-> Pointer(edit.compact_pointers[i])]),
            Concatenated([i \in DOMAIN deleted |-> Deleted(deleted[i])]),
            Concatenated([i \in DOMAIN edit.new_files |-> New(edit.new_files[i])])>>)

GetInternalKey(input) == GetLengthPrefixedSlice(input)

\* Mutant: the level read is not compared with the number of levels.
GetAnyLevel(input) == GetVarint32(input)

\* A level beyond the last one is refused: it indexes arrays of kNumLevels.
LevelOf(input, v) == IF v.ok /\ v.value < EditLevels THEN v ELSE NotGot(input)
GetLevel(input) == LevelOf(input, GetVarint32(input))

\* The fields in a row; the values read, or none at the first that cannot be read.  `kinds`
\* has "level", "number" or "key" for each.
GetFields(input, kinds) ==
    FoldLeft(LAMBDA got, kind :
                IF ~got.ok THEN got
                ELSE LET next == CASE kind = "level" -> GetLevel(got.rest)
                                   [] kind = "number" -> GetVarint64(got.rest)
                                   [] kind = "key" -> GetInternalKey(got.rest)
                     IN  [next EXCEPT !.value = Append(got.value, @)],
             Got(<<>>, input), kinds)

FieldKinds(tag) ==
    CASE tag = kComparator -> <<"key">>
      [] tag \in {kLogNumber, kPrevLogNumber, kNextFileNumber, kLastSequence} -> <<"number">>
      [] tag = kCompactPointer -> <<"level", "key">>
      [] tag = kDeletedFile -> <<"level", "number">>
      [] tag = kNewFile -> <<"level", "number", "number", "key", "key">>

\* The field of a tag is stored in the edit.
StoreField(edit, tag, v) ==
    CASE tag = kComparator -> SetComparatorName(edit, v[1])
      [] tag = kLogNumber -> SetLogNumber(edit, v[1])
      [] tag = kPrevLogNumber -> SetPrevLogNumber(edit, v[1])
      [] tag = kNextFileNumber -> SetNextFile(edit, v[1])
      [] tag = kLastSequence -> SetLastSequence(edit, v[1])
      [] tag = kCompactPointer -> SetCompactPointer(edit, v[1], v[2])
      [] tag = kDeletedFile -> EditDeleteFile(edit, v[1], v[2])
      [] tag = kNewFile -> EditAddFile(edit, [level |-> v[1], number |-> v[2], file_size |-> v[3],
                                              smallest |-> v[4], largest |-> v[5]])

EditTags == {kComparator, kLogNumber, kNextFileNumber, kLastSequence, kCompactPointer,
             kDeletedFile, kNewFile, kPrevLogNumber}

RECURSIVE DecodeLoop(_, _)

DecodeStored(edit, tag, got) ==
    IF ~got.ok THEN [ok |-> FALSE, edit |-> edit]
    ELSE DecodeLoop(got.rest, StoreField(edit, tag, got.value))

DecodeField(input, edit, tag) ==
    IF ~tag.ok THEN [ok |-> input = <<>>, edit |-> edit]
    ELSE IF tag.value \notin EditTags THEN [ok |-> FALSE, edit |-> edit]
    ELSE DecodeStored(edit, tag.value, GetFields(tag.rest, FieldKinds(tag.value)))

DecodeLoop(input, edit) == DecodeField(input, edit, GetVarint32(input))

\* DecodeFrom: into an edit that may have been used before.
DecodeEdit(edit, src) == DecodeLoop(src, EditClear(edit))

\* The levels an edit speaks of.
LevelsOf(edit) ==
    {f.level : f \in Range(edit.compact_pointers) \cup edit.deleted_files \cup Range(edit.new_files)}

\* A record of the MANIFEST gives back the edit it was written for.  The first bytes of one are
\* refused unless they are a shorter record themselves, and whatever one byte of it turns into,
\* no edit that comes out has a level the version set does not have.
EditAgrees(edit) ==
    LET bytes == EncodeEdit(edit)
    IN  /\ DecodeEdit(NewVersionEdit, bytes) = [ok |-> TRUE, edit |-> edit]
        /\ \A n \in 0..Len(bytes) :
               LET d == DecodeEdit(NewVersionEdit, SubSeq(bytes, 1, n))
               IN  d.ok => EncodeEdit(d.edit) = SubSeq(bytes, 1, n)
        /\ \A i \in DOMAIN bytes, b \in {EditLevels, ByteSize - 1} :
               LET d == DecodeEdit(NewVersionEdit, [bytes EXCEPT ![i] = b])
               IN  \A level \in LevelsOf(d.edit) : level < EditLevels
=============================================================================
