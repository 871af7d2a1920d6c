------------------------------- MODULE Crc32c -------------------------------
(***************************************************************************)
(* The checksum of records and blocks: util/crc32c.h and util/crc32c.cc, the  *)
(* portable implementation.                                                   *)
(*                                                                           *)
(* A word is the set of its one bits, exclusive or is SymDiff.  The tables    *)
(* are computed here: the entry of a byte is the register that starts with    *)
(* the byte after so many zero bytes have passed.                             *)
(***************************************************************************)
EXTENDS Integers, Sequences, FiniteSetsExt, SequencesExt

Bits == 0..31
ByteBits8 == 0..7

\* 0x82f63b78, the reversed CRC32C polynomial.
Polynomial == {3, 4, 5, 6, 8, 9, 11, 12, 13, 17, 18, 20, 21, 22, 23, 25, 31}

XorBits(a, b) == SymDiff(a, b)

ShiftRight(w, n) == {b - n : b \in {c \in w : c >= n}}

ShiftLeft(w, n) == {b + n : b \in w} \cap Bits

LowByte(w) == w \cap ByteBits8

\* The register after n more zero bits.
RECURSIVE AfterBits(_, _)
AfterBits(w, n) ==
    IF n = 0 THEN w
    ELSE AfterBits(IF 0 \in w THEN XorBits(ShiftRight(w, 1), Polynomial) ELSE ShiftRight(w, 1), n - 1)

TableAfter(n) == [c \in SUBSET ByteBits8 |-> AfterBits(c, 8 * n)]

kByteExtensionTable == TableAfter(1)
kStrideExtensionTable0 == TableAfter(13)
kStrideExtensionTable1 == TableAfter(14)
kStrideExtensionTable2 == TableAfter(15)
kStrideExtensionTable3 == TableAfter(16)

kCRC32Xor == Bits

\* The word at p (from 0), little-endian.
ReadUint32LE(data, p) == UNION {ShiftLeft(data[p + i + 1], 8 * i) : i \in 0..3}

RoundUp(p, n) == ((p + n - 1) \div n) * n

\* STEP1 over the bytes from p up to e.
RECURSIVE StepBytes(_, _, _, _)
StepBytes(l, data, p, e) ==
    IF p = e THEN l
    ELSE StepBytes(XorBits(kByteExtensionTable[XorBits(LowByte(l), data[p + 1])], ShiftRight(l, 8)),
                   data, p + 1, e)

\* STEP4: a stride takes the word at p.
StepStride(crc, data, p) ==
    XorBits(ReadUint32LE(data, p),
        XorBits(XorBits(kStrideExtensionTable3[LowByte(crc)],
                kStrideExtensionTable2[LowByte(ShiftRight(crc, 8))]),
            XorBits(kStrideExtensionTable1[LowByte(ShiftRight(crc, 16))],
                kStrideExtensionTable0[ShiftRight(crc, 24)])))

\* STEP16 while 16 bytes are left, then one word at a time with the strides in turn.
RECURSIVE Strides(_, _, _, _)
Strides(crcs, data, p, e) ==
    IF e - p >= 16
    THEN Strides([s \in 1..4 |-> StepStride(crcs[s], data, p + 4 * (s - 1))], data, p + 16, e)
    ELSE IF e - p >= 4
    THEN Strides(Append(Tail(crcs), StepStride(crcs[1], data, p)), data, p + 4, e)
    ELSE [crcs |-> crcs, p |-> p]

\* STEP4W
StepWord(l, w) ==
    LET Step(x, i) == XorBits(ShiftRight(x, 8), kByteExtensionTable[LowByte(x)])
    IN  FoldLeft(Step, XorBits(w, l), <<1, 2, 3, 4>>)

\* Extend for data whose first byte is at an address that is `align` past a multiple of 4.
CrcExtend(crc, data, align) ==
    LET e == Len(data)
        x == RoundUp(align, 4) - align
        p == IF x <= e THEN x ELSE 0
        l == StepBytes(XorBits(crc, kCRC32Xor), data, 0, p)
        first == [s \in 1..4 |-> XorBits(ReadUint32LE(data, p + 4 * (s - 1)), IF s = 1 THEN l ELSE {})]
        rest == Strides(first, data, p + 16, e)
    IN  XorBits(kCRC32Xor,
            IF e - p >= 16
            THEN StepBytes(FoldLeft(StepWord, {}, rest.crcs), data, rest.p, e)
            ELSE StepBytes(l, data, p, e))

\* 0xa282ead8
kMaskDelta == {3, 4, 6, 7, 9, 11, 13, 14, 15, 17, 23, 25, 29, 31}

\* The sum of two words and a carry, modulo 2^32.
AddWords(a, b, carry) ==
    LET Add(s, i) ==
            LET ones == (IF i \in a THEN 1 ELSE 0) + (IF i \in b THEN 1 ELSE 0) + s.carry
            IN  [sum |-> IF ones % 2 = 1 THEN s.sum \cup {i} ELSE s.sum, carry |-> ones \div 2]
    IN  FoldLeft(Add, [sum |-> {}, carry |-> carry], [i \in 1..32 |-> i - 1]).sum

Mask(crc) == AddWords(ShiftRight(crc, 15) \cup ShiftLeft(crc, 17), kMaskDelta, 0)

Unmask(masked) ==
    LET rot == AddWords(masked, Bits \ kMaskDelta, 1)
    IN  ShiftRight(rot, 17) \cup ShiftLeft(rot, 15)

\* The definition: every bit of the data, lowest first, goes through the register.
CrcOf(crc, data) ==
    XorBits(kCRC32Xor, FoldLeft(LAMBDA l, byte : AfterBits(XorBits(l, byte), 8), XorBits(crc, kCRC32Xor), data))

\* The checksum by strides is the checksum bit by bit, wherever the data lies in memory; it can
\* be continued over a second piece, as the log and the tables do; and masking is undone.
CrcAgrees(data) ==
    LET whole == CrcOf({}, data)
    IN  /\ \A align \in 0..3 : CrcExtend({}, data, align) = whole
        /\ \A n \in {1, Len(data) \div 2} \cap 0..Len(data) :
               CrcExtend(CrcExtend({}, SubSeq(data, 1, n), 0), SubSeq(data, n + 1, Len(data)), n % 4)
                   = whole
        /\ Unmask(Mask(whole)) = whole /\ Mask(whole) # whole
=============================================================================
