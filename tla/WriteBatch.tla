----------------------------- MODULE WriteBatch -----------------------------
(***************************************************************************)
(* Batches of updates as strings: db/write_batch.cc.                          *)
(*                                                                           *)
(* An update is [type, key, value]; a deletion has the empty value.           *)
(***************************************************************************)
EXTENDS Coding

kTypeDeletion == 0
kTypeValue == 1
kBatchHeader == 6       \* kHeader: a fixed64 sequence number and a fixed32 count

NewBatch == [i \in 1..kBatchHeader |-> 0]

BatchCount(rep) == DecodeFixed32(SubSeq(rep, 5, 6))

SetCount(rep, n) == SubSeq(rep, 1, 4) \o EncodeFixed32(n) \o SubSeq(rep, 7, Len(rep))

BatchSequence(rep) == DecodeFixed64(SubSeq(rep, 1, 4))

SetSequence(rep, seq) == EncodeFixed64(seq) \o SubSeq(rep, 5, Len(rep))

BatchPut(rep, key, value) ==
    SetCount(rep, BatchCount(rep) + 1)
        \o <<kTypeValue>> \o PutLengthPrefixedSlice(key) \o PutLengthPrefixedSlice(value)

BatchDelete(rep, key) ==
    SetCount(rep, BatchCount(rep) + 1) \o <<kTypeDeletion>> \o PutLengthPrefixedSlice(key)

BatchAppend(dst, src) ==
    SetCount(dst, BatchCount(dst) + BatchCount(src)) \o SubSeq(src, kBatchHeader + 1, Len(src))

\* The loop of Iterate.  The updates are handed over one by one, so those before an error have
\* already been applied.
RECURSIVE IterateLoop(_, _, _)

IterateUpdate(rep, type, key, value, handed) ==
    CASE type = kTypeValue /\ key.ok /\ value.ok ->
            IterateLoop(rep, value.rest, Append(handed, [type |-> kTypeValue,
                                             key |-> key.value, value |-> value.value]))
      [] type = kTypeDeletion /\ key.ok ->
            IterateLoop(rep, key.rest, Append(handed, [type |-> kTypeDeletion,
                                             key |-> key.value, value |-> <<>>]))
      [] OTHER -> [ok |-> FALSE, handed |-> handed]

IterateAfterKey(rep, type, key, handed) ==
    IterateUpdate(rep, type, key, GetLengthPrefixedSlice(key.rest), handed)

IterateLoop(rep, input, handed) ==
    IF input = <<>> THEN [ok |-> Len(handed) = BatchCount(rep), handed |-> handed]
    ELSE IterateAfterKey(rep, input[1], GetLengthPrefixedSlice(Tail(input)), handed)

BatchIterate(rep) ==
    IF Len(rep) < kBatchHeader THEN [ok |-> FALSE, handed |-> <<>>]
    ELSE IterateLoop(rep, SubSeq(rep, kBatchHeader + 1, Len(rep)), <<>>)

\* InsertInto: the updates get consecutive numbers from the one of the batch.
BatchInsertInto(rep) ==
    LET all == BatchIterate(rep)
    IN  [all EXCEPT !.handed = [i \in DOMAIN @ |-> [update |-> @[i],
                                                    seq |-> BatchSequence(rep) + i - 1]]]

\* A batch puts exactly its updates into the memtable, numbered from its sequence number in
\* the order of the calls.  One that lost its end is reported, and only updates from its start
\* are applied.
BatchAgrees(rep, updates, seq) ==
    LET whole == SetSequence(rep, seq)
    IN  /\ BatchInsertInto(whole) =
               [ok |-> TRUE, handed |-> [i \in DOMAIN updates |-> [update |-> updates[i],
                                                                   seq |-> seq + i - 1]]]
        /\ \A n \in 0..Len(whole) - 1 :
               LET read == BatchIterate(SubSeq(whole, 1, n))
               IN  ~read.ok /\ IsPrefix(read.handed, updates)
=============================================================================
