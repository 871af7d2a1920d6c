---------------------------- MODULE FilterBlock ----------------------------
(***************************************************************************)
(* Filters of LevelDB: util/hash.cc, util/bloom.cc, table/filter_block.cc     *)
(* and InternalFilterPolicy of db/dbformat.cc.  Sizes are scaled: a byte has   *)
(* two bits and a word four bytes, so shifts and constants are scaled too, and *)
(* a filter covers 2^kFilterBaseLg cells of the file.                          *)
(***************************************************************************)
EXTENDS Block, Bitwise

CONSTANT kFilterBaseLg

WordSize == 256             \* values of a word of four bytes

\* The multiplier 0xc6a4a793 and the seed, scaled.
HashMultiplier == 147
BloomSeed == 180

Word(x) == x % WordSize

\* DecodeFixed32, scaled.
WordOf(bytes) == bytes[1] + 4 * bytes[2] + 16 * bytes[3] + 64 * bytes[4]

RECURSIVE HashFrom(_, _)

\* The loop of Hash over the words, then the bytes that remain.
HashFrom(data, h) ==
    IF Len(data) >= 4
    THEN LET g == Word(Word(h + WordOf(data)) * HashMultiplier)
         IN  HashFrom(SubSeq(data, 5, Len(data)), g ^^ (g \div 16))
    ELSE IF data = <<>> THEN h
    ELSE LET rest == (IF Len(data) > 2 THEN 16 * data[3] ELSE 0)
                   + (IF Len(data) > 1 THEN 4 * data[2] ELSE 0) + data[1]
             g == Word(Word(h + rest) * HashMultiplier)
         IN  g ^^ (g \div 64)

BloomHash(key) == HashFrom(key, BloomSeed ^^ Word(Len(key) * HashMultiplier))

-----------------------------------------------------------------------------
\* BloomFilterPolicy.

\* The number of probes.
BloomK(bits_per_key) == Max({1, Min({30, (bits_per_key * 69) \div 100})})

\* The bits of a key, by double hashing; the step is the hash rotated by half a word and a bit.
BloomProbes(key, k, bits) ==
    LET h == BloomHash(key)
        delta == (h \div 32) + Word(h * 8)
    IN  {Word(h + j * delta) % bits : j \in 0..(k - 1)}

\* The filter ends with the number of probes.
BloomCreateFilter(keys, bits_per_key) ==
    LET bytes == (Max({Len(keys) * bits_per_key, 16}) + 1) \div 2
        k == BloomK(bits_per_key)
        set == UNION {BloomProbes(keys[i], k, 2 * bytes) : i \in DOMAIN keys}
        Bit(p) == IF p \in set THEN 1 ELSE 0
    IN  [i \in 1..bytes |-> Bit(2 * (i - 1)) + 2 * Bit(2 * (i - 1) + 1)] \o <<k>>

\* A filter with more than 30 probes is of a later format and matches every key.
BloomKeyMayMatch(key, filter) ==
    LET k == Last(filter)
        Bit(p) == (filter[p \div 2 + 1] \div (IF p % 2 = 0 THEN 1 ELSE 2)) % 2
    IN  Len(filter) >= 2
        /\ (k > 30 \/ \A p \in BloomProbes(key, k, 2 * (Len(filter) - 1)) : Bit(p) = 1)

-----------------------------------------------------------------------------
\* InternalFilterPolicy: filters hold user keys.

InternalCreateFilter(keys, bits_per_key) ==
    BloomCreateFilter([i \in DOMAIN keys |-> ExtractUserKey(keys[i])], bits_per_key)

InternalKeyMayMatch(key, filter) == BloomKeyMayMatch(ExtractUserKey(key), filter)

-----------------------------------------------------------------------------
\* FilterBlockBuilder.

NewFilterBlock == [keys |-> <<>>, result |-> <<>>, offsets |-> <<>>]

GenerateFilter(f, bits_per_key) ==
    [keys |-> <<>>, offsets |-> Append(f.offsets, Len(f.result)),
     result |-> IF f.keys = <<>> THEN f.result
                ELSE f.result \o InternalCreateFilter(f.keys, bits_per_key)]

FilterAddKey(f, key) == [f EXCEPT !.keys = Append(@, key)]

RECURSIVE GenerateUpTo(_, _, _)

GenerateUpTo(f, n, bits_per_key) ==
    IF n > Len(f.offsets) THEN GenerateUpTo(GenerateFilter(f, bits_per_key), n, bits_per_key) ELSE f

\* Mutant: one filter for a block, however long the block was.
StartOneFilter(f, block_offset, bits_per_key) ==
    IF block_offset \div 2^kFilterBaseLg > Len(f.offsets) THEN GenerateFilter(f, bits_per_key) ELSE f

FilterStartBlock(f, block_offset, bits_per_key) ==
    GenerateUpTo(f, block_offset \div 2^kFilterBaseLg, bits_per_key)

FilterFinish(f, bits_per_key) ==
    LET g == IF f.keys # <<>> THEN GenerateFilter(f, bits_per_key) ELSE f
    IN  g.result \o g.offsets \o <<Len(g.result), kFilterBaseLg>>

-----------------------------------------------------------------------------
\* FilterBlockReader.  Whatever is wrong with a filter, the key may match.

FilterKeyMayMatch(contents, block_offset, key) ==
    LET n == Len(contents)
        index == block_offset \div 2^(contents[n])
        array == contents[n - 1]                    \* offset_ - data_
        start == contents[array + index + 1]
        limit == contents[array + index + 2]
    IN  IF n < 2 THEN TRUE
        ELSE IF array > n - 2 THEN TRUE
        ELSE IF index >= n - 2 - array THEN TRUE
        ELSE IF start <= limit /\ limit <= array
        THEN InternalKeyMayMatch(key, SubSeq(contents, start + 1, limit))
        ELSE start # limit
=============================================================================
