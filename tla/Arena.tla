------------------------------- MODULE Arena -------------------------------
(***************************************************************************)
(* The allocator of a memtable (util/arena.cc): it cuts pieces from blocks    *)
(* and never takes one back.  A place is a block and an offset in it; blocks  *)
(* come aligned from new[].                                                   *)
(***************************************************************************)
EXTENDS Integers, Sequences, FiniteSets

CONSTANTS BlockSize,    \* kBlockSize
          Alignment,    \* align of AllocateAligned
          Sizes,        \* sizes asked for
          MaxPieces     \* bound: allocations

VARIABLES arena,        \* alloc_ptr_, alloc_bytes_remaining_, sizes of blocks_, memory_usage_
          pieces,       \* history: what was handed out
          handed        \* history: the bytes of all pieces

arenaVars == <<arena, pieces, handed>>

ASSUME ArenaAssumption ==
    BlockSize \in Nat /\ Alignment \in Nat \ {0} /\ Sizes \subseteq Nat \ {0}

PointerSize == 1        \* sizeof(char*), counted with every block

ArenaInit ==
    /\ arena = [block |-> 0, offset |-> 0, remaining |-> 0, blocks |-> <<>>, memory_usage |-> 0]
    /\ pieces = {} /\ handed = 0

AllocateNewBlock(a, bytes) ==
    [a EXCEPT !.blocks = Append(@, bytes), !.memory_usage = @ + bytes + PointerSize]

\* The piece of a size cut off after skipping slop bytes.
Cut(a, slop, bytes) ==
    <<[a EXCEPT !.offset = @ + slop + bytes, !.remaining = @ - slop - bytes],
      [block |-> a.block, offset |-> a.offset + slop, size |-> bytes, aligned |-> FALSE]>>

\* A large piece gets a block of its own; otherwise the rest of the block is wasted.
AllocateFallback(a, bytes) ==
    IF bytes > BlockSize \div 4
    THEN LET b == AllocateNewBlock(a, bytes)
         IN  <<b, [block |-> Len(b.blocks), offset |-> 0, size |-> bytes, aligned |-> FALSE]>>
    ELSE LET b == AllocateNewBlock(a, BlockSize)
         IN  Cut([b EXCEPT !.block = Len(b.blocks), !.offset = 0, !.remaining = BlockSize],
                 0, bytes)

AllocateFrom(a, bytes) ==
    IF bytes <= a.remaining THEN Cut(a, 0, bytes) ELSE AllocateFallback(a, bytes)

\* Mutant: the skipped bytes are not counted.
SlopForFree(a, bytes) ==
    LET mod == a.offset % Alignment
        slop == IF mod = 0 THEN 0 ELSE Alignment - mod
    IN  IF bytes <= a.remaining THEN Cut(a, slop, bytes) ELSE AllocateFallback(a, bytes)

AlignedFrom(a, bytes) ==
    LET mod == a.offset % Alignment
        slop == IF mod = 0 THEN 0 ELSE Alignment - mod
    IN  IF bytes + slop <= a.remaining THEN Cut(a, slop, bytes) ELSE AllocateFallback(a, bytes)

Hand(result, aligned) ==
    /\ Cardinality(pieces) < MaxPieces
    /\ arena' = result[1]
    /\ pieces' = pieces \cup {[result[2] EXCEPT !.aligned = aligned]}
    /\ handed' = handed + result[2].size

Allocate(bytes) == Hand(AllocateFrom(arena, bytes), FALSE)
AllocateAligned(bytes) == Hand(AlignedFrom(arena, bytes), TRUE)

ArenaNext == \E bytes \in Sizes : Allocate(bytes) \/ AllocateAligned(bytes)

ArenaSpec == ArenaInit /\ [][ArenaNext]_arenaVars

\* Pieces lie within their blocks, do not overlap, are aligned where asked for, and no more
\* memory is in them than MemoryUsage says (a memtable is switched when that is too much).
PiecesAreApart ==
    /\ \A p \in pieces :
           /\ p.offset + p.size <= arena.blocks[p.block]
           /\ p.aligned => p.offset % Alignment = 0
           /\ \A q \in pieces \ {p} : p.block = q.block =>
                  p.offset + p.size <= q.offset \/ q.offset + q.size <= p.offset
    /\ handed <= arena.memory_usage
=============================================================================
