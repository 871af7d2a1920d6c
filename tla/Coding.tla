------------------------------- MODULE Coding -------------------------------
(***************************************************************************)
(* Numbers and strings as bytes: util/coding.h and util/coding.cc.            *)
(*                                                                           *)
(* Everything is halved: a byte has four bits, so a group of a varint has     *)
(* three, a uint32_t two bytes and a uint64_t four.  The largest numbers and  *)
(* the longest varints are small enough to be met.                            *)
(***************************************************************************)
EXTENDS Integers, Sequences, FiniteSets, FiniteSetsExt, SequencesExt

ByteSize == 16
GroupSize == 8
UInt32 == ByteSize ^ 2
UInt64 == ByteSize ^ 4

FixedBytes(v, n) == [i \in 1..n |-> (v \div ByteSize ^ (i - 1)) % ByteSize]

EncodeFixed32(v) == FixedBytes(v, 2)

EncodeFixed64(v) == FixedBytes(v, 4)

DecodeFixed32(bytes) == bytes[1] + ByteSize * bytes[2]

DecodeFixed64(bytes) == DecodeFixed32(bytes) + UInt32 * DecodeFixed32(SubSeq(bytes, 3, 4))

\* The smallest number of groups that hold v, at most n.
VarintGroups(v, n) == Min({i \in 1..n : v < GroupSize ^ i \/ i = n})

\* Groups from the lowest; all but the last with the continuation bit.
VarintBytes(v, n) ==
    [i \in 1..n |-> LET group == v \div GroupSize ^ (i - 1)
                    IN  IF i < n THEN GroupSize + (group % GroupSize) ELSE group]

PutVarint32(v) == VarintBytes(v, VarintGroups(v, 3))

PutVarint64(v) == VarintBytes(v, VarintGroups(v, 6))

VarintLength(v) == VarintGroups(v, 6)

PutLengthPrefixedSlice(value) == PutVarint32(Len(value)) \o value

\* What a Get function returns: whether it succeeded, the value, and the input that is left.
Got(value, rest) == [ok |-> TRUE, value |-> value, rest |-> rest]
NotGot(input) == [ok |-> FALSE, value |-> 0, rest |-> input]

\* The loop of the two decoders: at most `groups` bytes, bits beyond the width are lost.
VarintOf(input, n, width) ==
    Got(FoldLeft(LAMBDA sum, i : sum + (input[i] % GroupSize) * GroupSize ^ (i - 1),
                 0, [i \in 1..n |-> i]) % width,
        SubSeq(input, n + 1, Len(input)))

GetVarint(input, groups, width) ==
    LET ends == {i \in 1..Min({groups, Len(input)}) : input[i] < GroupSize}
    IN  IF ends = {} THEN NotGot(input) ELSE VarintOf(input, Min(ends), width)

GetVarint32(input) == GetVarint(input, 3, UInt32)

GetVarint64(input) == GetVarint(input, 6, UInt64)

SliceAfter(input, len) ==
    IF len.ok /\ Len(len.rest) >= len.value
    THEN Got(SubSeq(len.rest, 1, len.value), SubSeq(len.rest, len.value + 1, Len(len.rest)))
    ELSE NotGot(input)

GetLengthPrefixedSlice(input) == SliceAfter(input, GetVarint32(input))

\* Every number of the range is read back, with what follows it left alone; a varint cut off,
\* or longer than the type allows, is refused.
CodingAgrees(v) ==
    LET tail == <<9, 1>>
        long == PutVarint64(v)
        short == PutVarint32(v)
    IN  /\ Len(long) = VarintLength(v)
        /\ GetVarint64(long \o tail) = Got(v, tail)
        /\ \A n \in 0..Len(long) - 1 : ~GetVarint64(SubSeq(long, 1, n)).ok
        /\ DecodeFixed64(EncodeFixed64(v)) = v
        /\ v < UInt32 => /\ GetVarint32(short \o tail) = Got(v, tail)
                         /\ \A n \in 0..Len(short) - 1 : ~GetVarint32(SubSeq(short, 1, n)).ok
                         /\ DecodeFixed32(EncodeFixed32(v)) = v
        /\ v >= GroupSize ^ 3 => ~GetVarint32(long).ok
=============================================================================
