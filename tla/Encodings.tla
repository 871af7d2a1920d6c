----------------------------- MODULE Encodings -----------------------------
(***************************************************************************)
(* The strings the program writes and reads back: records of the MANIFEST,    *)
(* write batches, entries of the memtable, footers of tables, file names,     *)
(* checksums, results, lines of the info log and base64 text.  A behaviour     *)
(* builds one of them step by step through the calls of its interface.        *)
(***************************************************************************)
EXTENDS VersionEdit, Formats, FileName, Status, PosixLogger, Crc32c, Base64

CONSTANTS
    EditSteps,      \* calls on a VersionEdit
    EditNumbers,    \* file numbers, sizes and sequence numbers
    EditKeys,       \* keys in an edit, and the comparator's name
    BatchSteps,     \* calls on a WriteBatch
    BatchStrings,   \* keys and values of updates
    NameParts,      \* pieces of file names
    NameLength,
    PropertyParts,  \* pieces of the names of properties
    PropertyLength,
    EntryLength,    \* of a user key in the memtable
    StatusCalls,
    LineLength,     \* of a message in the info log
    CrcBytes,       \* bytes of data, as sets of bits
    CrcLength,
    Base64Bytes,    \* bytes of data
    Base64Chars,    \* characters of text
    Base64Length

ASSUME EncodingAssumption ==
    /\ EditNumbers \subseteq 0..UInt64 - 1
    /\ EditLevels < GroupSize /\ \A k \in EditKeys \cup BatchStrings : Len(k) < UInt32
    /\ Base64Bytes \subseteq 0..255 /\ Base64Chars \subseteq 0..Foreign

VARIABLES encoder, built

encodingVars == <<encoder, built>>

NewBuilt ==
    [edit |-> [value |-> NewVersionEdit, calls |-> 0],
     batch |-> [rep |-> NewBatch, updates |-> <<>>, other |-> NewBatch, more |-> <<>>],
     entry |-> <<>>, status |-> NewStatuses, line |-> <<>>, property |-> <<>>,
     name |-> <<>>, crc |-> <<>>, data |-> <<>>, text |-> <<>>]

EncodingInit == \E e \in DOMAIN NewBuilt : encoder = e /\ built = NewBuilt[e]

\* One more call on the edit.
EditCall ==
    /\ encoder = "edit" /\ built.calls < EditSteps
    /\ \E edit \in UNION {
              {SetComparatorName(built.value, k) : k \in EditKeys},
              {SetLogNumber(built.value, n) : n \in EditNumbers},
              {SetPrevLogNumber(built.value, n) : n \in EditNumbers},
              {SetNextFile(built.value, n) : n \in EditNumbers},
              {SetLastSequence(built.value, n) : n \in EditNumbers},
              {SetCompactPointer(built.value, l, k) : l \in {0, EditLevels - 1}, k \in EditKeys},
              {EditDeleteFile(built.value, l, n) : l \in {0, EditLevels - 1}, n \in EditNumbers},
              {EditAddFile(built.value, [level |-> l, number |-> n, file_size |-> m,
                                         smallest |-> k, largest |-> k])
                  : l \in {0, EditLevels - 1}, n \in EditNumbers, m \in EditNumbers, k \in EditKeys}} :
           built' = [value |-> edit, calls |-> built.calls + 1]
    /\ UNCHANGED encoder

\* One more call on a batch.  A second one is filled and appended, as BuildBatchGroup does.
BatchCall ==
    /\ encoder = "batch" /\ Len(built.updates) + Len(built.more) < BatchSteps
    /\ \E k \in BatchStrings, v \in BatchStrings :
           LET put == [type |-> kTypeValue, key |-> k, value |-> v]
               delete == [type |-> kTypeDeletion, key |-> k, value |-> <<>>]
           IN  \/ built' = [built EXCEPT !.rep = BatchPut(@, k, v), !.updates = Append(@, put)]
               \/ built' = [built EXCEPT !.rep = BatchDelete(@, k), !.updates = Append(@, delete)]
               \/ built' = [built EXCEPT !.other = BatchPut(@, k, v), !.more = Append(@, put)]
    /\ UNCHANGED encoder

BatchAppendOther ==
    /\ encoder = "batch" /\ built.more # <<>>
    /\ built' = [rep |-> BatchAppend(built.rep, built.other), updates |-> built.updates \o built.more,
                 other |-> NewBatch, more |-> <<>>]
    /\ UNCHANGED encoder

\* A name, data or text grows.
Grow(e, parts, length) ==
    /\ encoder = e /\ Len(built) < length
    /\ \E part \in parts : built' = Append(built, part)
    /\ UNCHANGED encoder

NameGrows == Grow("name", NameParts, NameLength)

PropertyGrows == Grow("property", PropertyParts, PropertyLength)

EntryGrows == Grow("entry", {0, ByteSize - 1}, EntryLength)

LineGrows == Grow("line", {0, NewLine}, LineLength)

\* One more assignment to a status.
StatusCall ==
    LET s == [built EXCEPT !.calls = @ + 1]
    IN  /\ encoder = "status" /\ built.calls < StatusCalls
        /\ \/ \E i \in 1..2, j \in 1..2 :
                 built' = [CopyAssign(s, i, j) EXCEPT !.values[i] = built.values[j]]
           \/ \E i \in 1..2, j \in 1..2 :
                 built' = [MoveAssign(s, i, j) EXCEPT
                             !.values = [@ EXCEPT ![i] = built.values[j], ![j] = built.values[i]]]
           \/ \E i \in 1..2 : built' = [AssignOK(s, i) EXCEPT !.values[i] = <<>>]
           \/ \E i \in 1..2, msg2 \in {<<>>, <<8>>}, code \in {kNotFound, kIOError} :
                 built' = [AssignError(s, i, code, <<7, 0>>, msg2) EXCEPT
                             !.values[i] = <<code, 7, 0>>
                                               \o (IF msg2 = <<>> THEN <<>> ELSE kSeparator \o msg2)]
        /\ UNCHANGED encoder

\* Checksums are linear in the data, so one byte that is not zero is enough.
CrcGrows ==
    /\ encoder = "crc"
    /\ Grow("crc", IF \E i \in DOMAIN built : built[i] # {} THEN {{}} ELSE CrcBytes, CrcLength)

DataGrows == Grow("data", Base64Bytes, Base64Length)

TextGrows == Grow("text", Base64Chars, Base64Length)

EncodingNext ==
    \/ EditCall \/ BatchCall \/ BatchAppendOther \/ StatusCall \/ NameGrows \/ PropertyGrows
    \/ EntryGrows \/ LineGrows \/ CrcGrows \/ DataGrows \/ TextGrows

\* Whatever is written is read back as it was, by the code that reads it after a restart; what
\* was cut off or does not come from the writer is refused or read as what it says.
EncodingsAgree ==
    CASE encoder = "edit" -> /\ EditAgrees(built.value)
                             /\ built.calls = 0 => \A n \in EditNumbers : CodingAgrees(n)
                             /\ built.calls = 0 =>
                                    \A m \in EditNumbers, n \in EditNumbers :
                                        FooterAgrees([offset |-> m, size |-> n], [offset |-> n, size |-> 0])
      [] encoder = "entry" ->
            \A other \in BatchStrings \cup {built, Append(built, 0)}, seq \in {0, 7, 8},
               type \in {kTypeDeletion, kTypeValue}, value \in {<<>>, <<1, 2, 3, 4, 5, 6, 7, 8, 9>>} :
                EntryAgrees(built, other, seq, 7, type, value)
      [] encoder = "status" -> StatusAgrees(built)
      [] encoder = "line" -> \A size \in 0..kMaxThreadIdSize + 2 : LogvAgrees(built, size)
      [] encoder = "property" -> PropertyAgrees(built)
      [] encoder = "batch" -> BatchAgrees(built.rep, built.updates, 3000)
      [] encoder = "name" -> /\ NameAgrees(built)
                             /\ built = <<>> => \A n \in EditNumbers \ {0} : NamesParse(n)
      [] encoder = "crc" -> CrcAgrees(built)
      [] encoder = "data" -> Base64RoundTrip(built)
      [] encoder = "text" -> Base64Canonical(built)
=============================================================================
