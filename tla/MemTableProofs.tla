--------------------------- MODULE MemTableProofs ---------------------------
(***************************************************************************)
(* Proofs about a memtable: the arena its nodes lie in and the skip list   *)
(* that readers search while a writer inserts.                             *)
(***************************************************************************)
EXTENDS Arena, SkipList, TLAPS

(***************************************************************************)
(* The arena.  All pieces of the current block lie before alloc_ptr_, and  *)
(* what remains of it was counted when the block was allocated.            *)
(***************************************************************************)
ArenaType == [block : Nat, offset : Nat, remaining : Nat, blocks : Seq(Nat), memory_usage : Nat]
PieceType == [block : Nat, offset : Nat, size : Nat \ {0}, aligned : BOOLEAN]

CurrentBlock(a) ==
    /\ a.block <= Len(a.blocks)
    /\ IF a.block = 0 THEN a.remaining = 0 ELSE a.offset + a.remaining = a.blocks[a.block]

Within(a, p) ==
    /\ p.block \in 1 .. Len(a.blocks) /\ p.offset + p.size <= a.blocks[p.block]
    /\ p.block = a.block => p.offset + p.size <= a.offset

Apart(p, q) == p.block = q.block => p.offset + p.size <= q.offset \/ q.offset + q.size <= p.offset

ArenaInv ==
    /\ arena \in ArenaType /\ pieces \subseteq PieceType /\ handed \in Nat
    /\ CurrentBlock(arena)
    /\ \A p \in pieces : Within(arena, p) /\ (p.aligned => p.offset % Alignment = 0)
    /\ \A p, q \in pieces : p # q => Apart(p, q)
    /\ handed + arena.remaining <= arena.memory_usage

(***************************************************************************)
(* What every allocation does: a new piece lies behind the pieces of its   *)
(* block, and the arena it leaves still holds the old ones.                *)
(***************************************************************************)
GoodCut(a, b, p, bytes) ==
    /\ b \in ArenaType /\ p \in PieceType /\ p.size = bytes /\ ~p.aligned
    /\ CurrentBlock(b) /\ Within(b, p)
    /\ bytes + b.remaining - a.remaining <= b.memory_usage - a.memory_usage
    /\ \A q \in PieceType : Within(a, q) => Within(b, q) /\ Apart(q, p)

LEMMA CutIsGood ==
    ASSUME NEW a \in ArenaType, NEW slop \in Nat, NEW bytes \in Nat \ {0},
           CurrentBlock(a), slop + bytes <= a.remaining
    PROVE  GoodCut(a, Cut(a, slop, bytes)[1], Cut(a, slop, bytes)[2], bytes)
           /\ Cut(a, slop, bytes)[2].offset = a.offset + slop
<1> DEFINE b == Cut(a, slop, bytes)[1]
           p == Cut(a, slop, bytes)[2]
           o == a.offset + slop + bytes
           m == a.remaining - slop - bytes
<1>0. /\ a.block \in Nat /\ a.offset \in Nat /\ a.remaining \in Nat /\ a.memory_usage \in Nat
      /\ o \in Nat /\ m \in Nat /\ a.offset + slop \in Nat
  BY DEF ArenaType
<1>1. /\ b = [a EXCEPT !.offset = o, !.remaining = m]
      /\ p = [block |-> a.block, offset |-> a.offset + slop, size |-> bytes, aligned |-> FALSE]
  BY DEF Cut
<1> HIDE DEF o, m
<1>2. /\ b.block = a.block /\ b.offset = o /\ b.remaining = m /\ b.blocks = a.blocks
      /\ b.memory_usage = a.memory_usage /\ b \in ArenaType
  BY <1>0, <1>1 DEF ArenaType
<1>3. /\ p.block = a.block /\ p.offset = a.offset + slop /\ p.size = bytes /\ p.aligned = FALSE
      /\ p \in PieceType
  BY <1>0, <1>1 DEF PieceType
<1> USE DEF o, m
<1> HIDE DEF b, p
<1>4. /\ a.block \in Nat /\ a.offset \in Nat /\ a.remaining \in Nat /\ a.memory_usage \in Nat
      /\ a.blocks \in Seq(Nat) /\ Len(a.blocks) \in Nat
  BY DEF ArenaType
<1>5. a.block # 0 /\ a.block \in 1 .. Len(a.blocks) /\ a.offset + a.remaining = a.blocks[a.block]
  BY <1>4 DEF CurrentBlock
<1>6. CurrentBlock(b) /\ Within(b, p)
  <2> DEFINE full == a.blocks[a.block]
  <2>1. b.blocks[b.block] = full /\ b.blocks[p.block] = full /\ full = a.offset + a.remaining
    BY <1>2, <1>3, <1>5
  <2>2. /\ b.block # 0 /\ b.block <= Len(b.blocks) /\ p.block \in 1 .. Len(b.blocks)
        /\ p.block = b.block
    BY <1>2, <1>3, <1>4, <1>5
  <2>3. b.offset + b.remaining = full /\ p.offset + p.size <= full /\ p.offset + p.size <= b.offset
    <3> HIDE DEF full
    <3>1. full = a.offset + a.remaining
      BY <2>1
    <3> QED BY SMTT(30), <1>2, <1>3, <1>4, <3>1
  <2> HIDE DEF full
  <2> QED BY <2>1, <2>2, <2>3 DEF CurrentBlock, Within
<1>7. bytes + b.remaining - a.remaining <= b.memory_usage - a.memory_usage
  BY <1>2, <1>4
<1>8. ASSUME NEW q \in PieceType, Within(a, q) PROVE Within(b, q) /\ Apart(q, p)
  BY SMTT(30), <1>2, <1>3, <1>4, <1>8 DEF Within, Apart, PieceType
<1>9. GoodCut(a, b, p, bytes)
  BY <1>2, <1>3, <1>6, <1>7, <1>8 DEF GoodCut
<1> QED BY <1>3, <1>9 DEF b, p

LEMMA FallbackIsGood ==
    ASSUME NEW a \in ArenaType, NEW bytes \in Nat \ {0}, CurrentBlock(a)
    PROVE  GoodCut(a, AllocateFallback(a, bytes)[1], AllocateFallback(a, bytes)[2], bytes)
           /\ AllocateFallback(a, bytes)[2].offset = 0
<1>0. /\ a.block \in Nat /\ a.offset \in Nat /\ a.remaining \in Nat /\ a.memory_usage \in Nat
      /\ a.blocks \in Seq(Nat) /\ Len(a.blocks) \in Nat
  BY DEF ArenaType
<1>1. ASSUME NEW size \in Nat
      PROVE  LET b == AllocateNewBlock(a, size)
             IN  /\ b \in ArenaType /\ b.block = a.block /\ b.offset = a.offset
                 /\ b.remaining = a.remaining /\ b.memory_usage = a.memory_usage + size + 1
                 /\ Len(b.blocks) = Len(a.blocks) + 1 /\ b.blocks[Len(a.blocks) + 1] = size
                 /\ \A i \in 1 .. Len(a.blocks) : b.blocks[i] = a.blocks[i]
  <2> DEFINE longer == Append(a.blocks, size)
             usage == a.memory_usage + size + 1
  <2>1. /\ longer \in Seq(Nat) /\ Len(longer) = Len(a.blocks) + 1
        /\ longer[Len(a.blocks) + 1] = size
        /\ \A i \in 1 .. Len(a.blocks) : longer[i] = a.blocks[i]
    BY <1>0
  <2>2. usage \in Nat
    BY <1>0
  <2>3. AllocateNewBlock(a, size) = [a EXCEPT !.blocks = longer, !.memory_usage = usage]
    BY DEF AllocateNewBlock, PointerSize
  <2> HIDE DEF longer
  <2>4. LET b == [a EXCEPT !.blocks = longer, !.memory_usage = usage]
        IN  /\ b \in ArenaType /\ b.block = a.block /\ b.offset = a.offset
            /\ b.remaining = a.remaining /\ b.memory_usage = usage /\ b.blocks = longer
    <3> HIDE DEF usage
    <3> QED BY <2>1, <2>2 DEF ArenaType
  <2> QED BY <2>1, <2>3, <2>4
<1>2. ASSUME NEW size \in Nat, NEW c \in ArenaType, c.blocks = AllocateNewBlock(a, size).blocks,
             NEW q \in PieceType, Within(a, q),
             (c.block = a.block /\ c.offset = a.offset) \/ c.block = Len(c.blocks)
      PROVE  Within(c, q) /\ q.block # Len(c.blocks)
  <2>1. /\ Len(c.blocks) = Len(a.blocks) + 1
        /\ \A i \in 1 .. Len(a.blocks) : c.blocks[i] = a.blocks[i]
    BY <1>1, <1>2
  <2> QED BY SMTT(30), <1>0, <1>2, <2>1 DEF Within
<1>3. CASE bytes > BlockSize \div 4
  <2> DEFINE b == AllocateNewBlock(a, bytes)
             p == [block |-> Len(b.blocks), offset |-> 0, size |-> bytes, aligned |-> FALSE]
  <2>1. AllocateFallback(a, bytes) = <<b, p>>
    BY <1>3 DEF AllocateFallback
  <2>2. /\ b \in ArenaType /\ b.block = a.block /\ b.offset = a.offset
        /\ b.remaining = a.remaining /\ b.memory_usage = a.memory_usage + bytes + 1
        /\ Len(b.blocks) = Len(a.blocks) + 1 /\ b.blocks[Len(a.blocks) + 1] = bytes
        /\ \A i \in 1 .. Len(a.blocks) : b.blocks[i] = a.blocks[i]
    BY <1>1
  <2>3. /\ p \in PieceType /\ p.size = bytes /\ p.aligned = FALSE /\ p.offset = 0
        /\ p.block = Len(a.blocks) + 1
    BY <1>0, <2>2 DEF PieceType
  <2>4. \A q \in PieceType : Within(a, q) => Within(b, q) /\ q.block # Len(b.blocks)
    BY <1>2, <2>2
  <2> HIDE DEF b, p
  <2>5. CurrentBlock(b)
    BY SMTT(30), <1>0, <2>2 DEF CurrentBlock
  <2>6. Within(b, p)
    BY <1>0, <2>2, <2>3 DEF Within, CurrentBlock
  <2>7. bytes + b.remaining - a.remaining <= b.memory_usage - a.memory_usage
    BY <1>0, <2>2
  <2>8. \A q \in PieceType : Within(a, q) => Apart(q, p)
    BY <2>2, <2>3, <2>4 DEF Apart
  <2> QED BY <2>1, <2>2, <2>3, <2>4, <2>5, <2>6, <2>7, <2>8 DEF GoodCut
<1>4. CASE ~(bytes > BlockSize \div 4)
  <2> DEFINE b == AllocateNewBlock(a, BlockSize)
             c == [b EXCEPT !.block = Len(b.blocks), !.offset = 0, !.remaining = BlockSize]
  <2>1. AllocateFallback(a, bytes) = Cut(c, 0, bytes)
    BY <1>4 DEF AllocateFallback
  <2>2. BlockSize \in Nat /\ bytes <= BlockSize
    BY <1>4, ArenaAssumption
  <2>3. /\ b \in ArenaType /\ b.memory_usage = a.memory_usage + BlockSize + 1
        /\ Len(b.blocks) = Len(a.blocks) + 1 /\ b.blocks[Len(a.blocks) + 1] = BlockSize
    BY <1>1, <2>2
  <2>4. /\ c \in ArenaType /\ c.block = Len(a.blocks) + 1 /\ c.offset = 0
        /\ c.remaining = BlockSize /\ c.blocks = b.blocks /\ c.memory_usage = b.memory_usage
    <3> HIDE DEF b
    <3>1. Len(b.blocks) \in Nat
      BY <1>0, <2>3
    <3> QED BY <2>2, <2>3, <3>1 DEF ArenaType
  <2>5. \A q \in PieceType : Within(a, q) => Within(c, q) /\ q.block # Len(c.blocks)
    BY <1>2, <2>2, <2>3, <2>4
  <2> HIDE DEF b, c
  <2>6. CurrentBlock(c)
    BY <1>0, <2>2, <2>3, <2>4 DEF CurrentBlock
  <2> DEFINE d == Cut(c, 0, bytes)[1]
             p == Cut(c, 0, bytes)[2]
  <2>7. GoodCut(c, d, p, bytes) /\ p.offset = c.offset + 0
    <3>1. 0 \in Nat /\ 0 + bytes <= c.remaining
      BY <2>2, <2>4
    <3> QED BY <2>4, <2>6, <3>1, CutIsGood
  <2> HIDE DEF d, p
  <2>8. bytes + d.remaining - a.remaining <= d.memory_usage - a.memory_usage
    <3>1. d.remaining \in Nat /\ d.memory_usage \in Nat /\ bytes \in Nat
      BY <2>7 DEF GoodCut, ArenaType
    <3>2. bytes + d.remaining - c.remaining <= d.memory_usage - c.memory_usage
      BY <2>7 DEF GoodCut
    <3> QED BY SMTT(60), <1>0, <2>2, <2>3, <2>4, <3>1, <3>2
  <2>9. GoodCut(a, d, p, bytes)
    BY <2>5, <2>7, <2>8 DEF GoodCut
  <2> QED BY <2>1, <2>4, <2>7, <2>9 DEF d, p
<1> QED BY <1>3, <1>4

\* The slop of AllocateAligned leads to the next multiple of the alignment.
LEMMA SlopAligns ==
    ASSUME NEW o \in Nat, NEW n \in Nat \ {0}, (o % n) # 0
    PROVE  (o + (n - (o % n))) % n = 0
<1>1. PICK q \in Nat, r \in 0 .. n - 1 : o = n * q + r
  <2>1. o = n * (o \div n) + (o % n)
    OBVIOUS
  <2>2. (o \div n) \in Nat /\ (o % n) \in 0 .. n - 1
    OBVIOUS
  <2> QED BY <2>1, <2>2
<1>2. (o % n) = r
  BY <1>1
<1>3. o + (n - r) = n * (q + 1)
  BY <1>1
<1>4. (n * (q + 1)) % n = 0
  OBVIOUS
<1> QED BY <1>2, <1>3, <1>4

\* Every allocation cuts a piece that keeps the invariant.
LEMMA ArenaStep == ArenaInv /\ [ArenaNext]_arenaVars => ArenaInv'
<1> SUFFICES ASSUME ArenaInv, [ArenaNext]_arenaVars PROVE ArenaInv'
  OBVIOUS
<1>1. CASE UNCHANGED arenaVars
  BY <1>1 DEF ArenaInv, arenaVars
<1>2. ASSUME NEW bytes \in Nat \ {0}, NEW result, NEW aligned \in BOOLEAN, Hand(result, aligned),
             GoodCut(arena, result[1], result[2], bytes),
             aligned => result[2].offset % Alignment = 0
      PROVE  ArenaInv'
  <2> DEFINE p == result[2]
             new == [p EXCEPT !.aligned = aligned]
  <2>1. arena' = result[1] /\ pieces' = pieces \cup {new} /\ handed' = handed + bytes
    BY <1>2 DEF Hand, GoodCut
  <2>2. /\ new \in PieceType /\ new.block = p.block /\ new.offset = p.offset /\ new.size = p.size
        /\ new.aligned = aligned
    BY <1>2 DEF GoodCut, PieceType
  <2> HIDE DEF new
  <2>3. Within(arena', new)
    BY <1>2, <2>1, <2>2 DEF GoodCut, Within
  <2>4. \A q \in pieces : Within(arena', q) /\ Apart(q, new) /\ Apart(new, q)
    BY <1>2, <2>1, <2>2 DEF GoodCut, Apart, ArenaInv
  <2>5. handed' + arena'.remaining <= arena'.memory_usage
    <3>1. /\ arena.remaining \in Nat /\ arena.memory_usage \in Nat /\ handed \in Nat
          /\ arena'.remaining \in Nat /\ arena'.memory_usage \in Nat
      BY <1>2, <2>1 DEF ArenaInv, GoodCut, ArenaType
    <3>2. bytes + arena'.remaining - arena.remaining <= arena'.memory_usage - arena.memory_usage
      BY <1>2, <2>1 DEF GoodCut
    <3>3. handed + arena.remaining <= arena.memory_usage
      BY DEF ArenaInv
    <3> QED BY <2>1, <3>1, <3>2, <3>3
  <2>6. arena' \in ArenaType /\ CurrentBlock(arena') /\ handed' \in Nat /\ pieces' \subseteq PieceType
    BY <1>2, <2>1, <2>2 DEF GoodCut, ArenaInv
  <2>7. \A q \in pieces' : Within(arena', q) /\ (q.aligned => q.offset % Alignment = 0)
    BY <1>2, <2>1, <2>2, <2>3, <2>4 DEF ArenaInv
  <2>8. \A q, r \in pieces' : q # r => Apart(q, r)
    BY <2>1, <2>4 DEF ArenaInv
  <2> QED BY <2>5, <2>6, <2>7, <2>8 DEF ArenaInv
<1>3. ASSUME NEW bytes \in Sizes, Allocate(bytes) PROVE ArenaInv'
  <2>1. arena \in ArenaType /\ CurrentBlock(arena) /\ bytes \in Nat \ {0} /\ arena.remaining \in Nat
    BY ArenaAssumption DEF ArenaInv, ArenaType
  <2> DEFINE result == AllocateFrom(arena, bytes)
  <2>2. GoodCut(arena, result[1], result[2], bytes)
    <3>1. CASE bytes <= arena.remaining
      <4>1. 0 \in Nat /\ 0 + bytes <= arena.remaining
        BY <2>1, <3>1
      <4> QED BY <2>1, <3>1, <4>1, CutIsGood DEF AllocateFrom
    <3>2. CASE ~(bytes <= arena.remaining)
      BY <2>1, <3>2, FallbackIsGood DEF AllocateFrom
    <3> QED BY <3>1, <3>2
  <2>3. Hand(result, FALSE)
    BY <1>3 DEF Allocate
  <2> HIDE DEF result
  <2> QED BY <1>2, <2>1, <2>2, <2>3
<1>4. ASSUME NEW bytes \in Sizes, AllocateAligned(bytes) PROVE ArenaInv'
  <2>1. /\ arena \in ArenaType /\ CurrentBlock(arena) /\ bytes \in Nat \ {0}
        /\ arena.remaining \in Nat /\ arena.offset \in Nat
    BY ArenaAssumption DEF ArenaInv, ArenaType
  <2> DEFINE o == arena.offset
             mod == o % Alignment
             slop == IF mod = 0 THEN 0 ELSE Alignment - mod
             result == AlignedFrom(arena, bytes)
  <2>2. slop \in Nat /\ (o + slop) % Alignment = 0
    <3>1. o \in Nat /\ Alignment \in Nat \ {0}
      BY <2>1, ArenaAssumption
    <3> HIDE DEF o
    <3>2. /\ mod \in 0 .. Alignment - 1
          /\ mod # 0 => (o + (Alignment - mod)) % Alignment = 0
      <4>1. mod \in 0 .. Alignment - 1
        BY <3>1
      <4>2. ASSUME mod # 0 PROVE (o + (Alignment - mod)) % Alignment = 0
        BY <3>1, <4>2, SlopAligns, Zenon
      <4> QED BY <4>1, <4>2
    <3>3. CASE mod = 0
      <4>1. slop = 0 /\ o + slop = o
        BY <3>1, <3>3
      <4> HIDE DEF slop
      <4> QED BY <3>3, <4>1
    <3>4. CASE mod # 0
      <4>1. slop = Alignment - mod
        BY <3>4
      <4> HIDE DEF mod, slop
      <4> QED BY <3>1, <3>2, <3>4, <4>1
    <3> QED BY <3>3, <3>4
  <2>3. GoodCut(arena, result[1], result[2], bytes) /\ result[2].offset % Alignment = 0
    <3>1. CASE bytes + slop <= arena.remaining
      <4> HIDE DEF mod
      <4>1. result = Cut(arena, slop, bytes)
        BY <3>1 DEF AlignedFrom, mod
      <4> HIDE DEF slop
      <4>2. slop + bytes <= arena.remaining
        BY <2>1, <2>2, <3>1
      <4> QED BY <2>1, <2>2, <4>1, <4>2, CutIsGood
    <3>2. CASE ~(bytes + slop <= arena.remaining)
      <4>1. result = AllocateFallback(arena, bytes)
        BY <3>2 DEF AlignedFrom
      <4>2. 0 % Alignment = 0
        BY ArenaAssumption
      <4> QED BY <2>1, <4>1, <4>2, FallbackIsGood
    <3> QED BY <3>1, <3>2
  <2>4. Hand(result, TRUE)
    BY <1>4 DEF AllocateAligned
  <2> HIDE DEF result
  <2> QED BY <1>2, <2>1, <2>3, <2>4
<1> QED BY <1>1, <1>3, <1>4 DEF ArenaNext

\* Pieces of the arena lie within their blocks and apart from each other, aligned where that was
\* asked for, and MemoryUsage counts at least what was handed out: for every size of a block, every
\* alignment and any number of allocations.
THEOREM ArenaKeepsApart == ArenaSpec => []PiecesAreApart
<1>1. ArenaInit => ArenaInv
  BY DEF ArenaInit, ArenaInv, ArenaType, CurrentBlock
<1>2. ArenaInv => PiecesAreApart
  <2> SUFFICES ASSUME ArenaInv PROVE PiecesAreApart
    OBVIOUS
  <2>1. handed <= arena.memory_usage
    BY DEF ArenaInv, ArenaType
  <2> QED BY <2>1 DEF ArenaInv, Within, Apart, PiecesAreApart
<1>3. ArenaSpec => []ArenaInv
  BY <1>1, ArenaStep, PTL DEF ArenaSpec
<1> QED BY <1>2, <1>3, PTL

-----------------------------------------------------------------------------
(***************************************************************************)
(* The skip list.  A node is in the list of a level from the moment it is  *)
(* published there; its own link at that level was written before.         *)
(***************************************************************************)
Pending(l) == inserting.step = "publish" /\ inserting.turn = l

Linked(l) == {k \in Keys : next[k][l] # Unset /\ ~(Pending(l) /\ k = inserting.key)}
Nodes(l) == Linked(l) \cup {HeadNode}

\* m is what follows n in the order of the keys of a level.
Follows(l, n, m) ==
    IF m = Null THEN \A k \in Linked(l) : k <= n
    ELSE m \in Linked(l) /\ n < m /\ \A k \in Linked(l) : k <= n \/ m <= k

Top == CHOOSE m \in heights : \A h \in heights : m >= h

Search == [op : {"none", "seek", "less", "last"}, target : Nat, x : Keys \cup {HeadNode},
           level : Levels, start : SUBSET Keys]
Insertion == [step : {"none", "search", "point", "publish"}, key : Keys \cup {0},
              prev : [Levels -> Keys \cup {HeadNode}], height : 0 .. MaxHeight, turn : Levels]
AnswerType == [up : BOOLEAN, target : Nat, found : Keys \cup {HeadNode, Null}, start : SUBSET Keys]

SkipTypeOK ==
    /\ next \in [Keys \cup {HeadNode} -> [Levels -> Keys \cup {Null, Unset}]]
    /\ heights \subseteq 1 .. MaxHeight /\ (\E m \in heights : \A h \in heights : h <= m)
    /\ inserting \in Insertion /\ inserted \subseteq Keys
    /\ search \in [Searchers -> Search]
    /\ node \in [Readers -> Keys \cup {Null}]
    /\ answer \in [Readers -> AnswerType]

\* Every level is a sorted list, a part of the level below, and empty from max_height_ on.
ListsOK ==
    /\ \A l \in Levels, n \in Keys \cup {HeadNode} : n \in Nodes(l) => Follows(l, n, next[n][l])
    /\ \A l, m \in Levels : l <= m => Linked(m) \subseteq Linked(l)
    /\ \A l \in Levels : l >= Top => Linked(l) = {}

\* prev of a level is where the key belongs.
PrevOK(l) ==
    LET p == inserting.prev[l]
    IN  /\ p \in Nodes(l) /\ p < inserting.key
        /\ next[p][l] = Null \/ inserting.key < next[p][l]

SearchingOK ==
    LET q == search["writer"]
    IN  /\ inserting.key \in Keys \ inserted /\ q.op = "seek" /\ q.target = inserting.key
        /\ q.level < Top /\ inserting.turn = 0
        /\ \A l \in Levels : q.level < l /\ l < Top => PrevOK(l)

LinkingOK ==
    /\ inserting.key \in Keys \ inserted /\ search["writer"].op = "none"
    /\ inserting.height <= Top /\ inserting.turn < inserting.height
    /\ \A l \in Levels :
          /\ l < inserting.turn => inserting.key \in Linked(l)
          /\ l >= inserting.turn => inserting.key \notin Linked(l)
          /\ l >= inserting.turn /\ l < inserting.height => PrevOK(l)
          /\ l > inserting.turn \/ (l = inserting.turn /\ inserting.step = "point")
                => next[inserting.key][l] = Unset
    /\ inserting.step = "publish" =>
          next[inserting.key][inserting.turn] = next[inserting.prev[inserting.turn]][inserting.turn]

InsertOK ==
    /\ inserting.step = "none" => search["writer"].op = "none"
    /\ inserting.step \in {"none", "search"} => Linked(0) = inserted
    /\ inserting.step = "search" => SearchingOK
    /\ inserting.step \in {"point", "publish"} =>
          /\ LinkingOK
          /\ Linked(0) = inserted \cup (IF inserting.turn > 0 THEN {inserting.key} ELSE {})

SearchOK(q) ==
    /\ q.x \in Nodes(q.level) /\ q.x < q.target /\ q.start \subseteq inserted
    /\ q.op = "last" => q.target = Infinity

SearchesOK == \A s \in Searchers : search[s].op # "none" => SearchOK(search[s])

NodesOK == \A r \in Readers : node[r] = Null \/ node[r] \in Linked(0)

\* What an answer says, for the keys that were there when the search started.
RightAnswer(a) ==
    IF a.up
    THEN /\ a.found # Null => a.found >= a.target
         /\ \A k \in a.start : k >= a.target => a.found # Null /\ a.found <= k
    ELSE /\ a.found < a.target
         /\ \A k \in a.start : k < a.target => k <= a.found

AnswersOK == \A r \in Readers : RightAnswer(answer[r])

SkipInv == SkipTypeOK /\ ListsOK /\ InsertOK /\ SearchesOK /\ NodesOK /\ AnswersOK

LEMMA LevelFacts ==
    /\ 0 \in Levels /\ MaxHeight \in Nat /\ Levels \subseteq Nat
    /\ \A h \in 1 .. MaxHeight : h - 1 \in Levels
    /\ \A l \in Levels : l > 0 => l - 1 \in Levels
BY SkipAssumption DEF Levels

LEMMA KeyFacts ==
    /\ Infinity \in Nat \ {0}
    /\ \A k \in Keys : k \in Nat /\ k > 0 /\ k < Infinity
    /\ HeadNode \notin Keys /\ Null \notin Keys /\ Unset \notin Keys
<1>1. PICK m \in Keys : \A k \in Keys : k <= m
  BY SkipAssumption
<1>2. Keys \subseteq Nat \ {0}
  BY SkipAssumption
<1>3. \A k \in Keys : m >= k
  BY <1>1, <1>2
<1>4. Max(Keys) \in Keys /\ \A k \in Keys : Max(Keys) >= k
  BY <1>3 DEF Max
<1> DEFINE top == Max(Keys)
<1>5. top \in Keys /\ (\A k \in Keys : top >= k) /\ Infinity = top + 1
  BY <1>4 DEF Infinity
<1> HIDE DEF top
<1>6. top \in Nat /\ \A k \in Keys : k \in Nat /\ k > 0 /\ k < top + 1
  BY <1>2, <1>5
<1>7. 0 \notin Keys /\ -1 \notin Keys /\ -2 \notin Keys
  BY <1>2
<1> QED BY <1>5, <1>6, <1>7 DEF HeadNode, Null, Unset

LEMMA TopFacts ==
    ASSUME SkipTypeOK
    PROVE  Top \in heights /\ Top \in 1 .. MaxHeight /\ (\A h \in heights : h <= Top) /\ Max(heights) = Top
<1>1. PICK m \in heights : \A h \in heights : h <= m
  BY DEF SkipTypeOK
<1>2. heights \subseteq Nat
  BY LevelFacts DEF SkipTypeOK
<1>3. \A h \in heights : m >= h
  BY <1>1, <1>2
<1>4. Top \in heights /\ \A h \in heights : Top >= h
  BY <1>3 DEF Top
<1>5. Max(heights) = Top
  BY DEF Max, Top
<1> QED BY <1>2, <1>4, <1>5 DEF SkipTypeOK

\* A node of a level has its link written there.
LEMMA LinkWritten ==
    ASSUME SkipTypeOK, ListsOK, NEW l \in Levels, NEW n \in Nodes(l)
    PROVE  /\ n \in Keys \cup {HeadNode} /\ n \in Nat
           /\ next[n][l] \in Keys \cup {Null} /\ IsWritten(next[n][l]) /\ Follows(l, n, next[n][l])
<1>1. n \in Keys \cup {HeadNode} /\ n \in Nat
  BY KeyFacts DEF Nodes, Linked, HeadNode
<1>2. Follows(l, n, next[n][l])
  BY <1>1 DEF ListsOK
<1>3. next[n][l] \in Keys \cup {Null}
  BY <1>2 DEF Follows, Linked
<1> QED BY <1>1, <1>2, <1>3, KeyFacts DEF IsWritten, Unset, Null

\* While nothing is published no list changes.
LEMMA SameLists ==
    ASSUME UNCHANGED next,
           \/ UNCHANGED inserting
           \/ inserting.step # "publish" /\ inserting'.step # "publish"
    PROVE  \A l : Linked(l)' = Linked(l) /\ Nodes(l)' = Nodes(l)
BY DEF Linked, Nodes, Pending

LEMMA SkipInitOK == SkipInit => SkipInv
<1> SUFFICES ASSUME SkipInit PROVE SkipInv
  OBVIOUS
<1>1. SkipTypeOK
  <2>1. next \in [Keys \cup {HeadNode} -> [Levels -> Keys \cup {Null, Unset}]]
    BY DEF SkipInit
  <2>2. heights \subseteq 1 .. MaxHeight /\ (\E m \in heights : \A h \in heights : h <= m)
    BY SkipAssumption DEF SkipInit
  <2>3. inserting \in Insertion /\ inserted \subseteq Keys
    BY LevelFacts DEF SkipInit, NoInsert, Insertion, HeadNode
  <2>4. NoSearch \in Search
    BY LevelFacts DEF NoSearch, Search
  <2>5. NoAnswer \in AnswerType
    BY DEF NoAnswer, AnswerType
  <2> QED BY <2>1, <2>2, <2>3, <2>4, <2>5 DEF SkipInit, SkipTypeOK
<1>2. \A l \in Levels : Linked(l) = {}
  BY KeyFacts DEF SkipInit, Linked
<1>3. ListsOK
  BY <1>2, LevelFacts, KeyFacts DEF SkipInit, ListsOK, Nodes, Follows, HeadNode
<1>4. InsertOK /\ SearchesOK
  BY <1>2, LevelFacts DEF SkipInit, InsertOK, SearchesOK, NoInsert, NoSearch, Searchers
<1>5. NodesOK /\ AnswersOK
  BY DEF SkipInit, NodesOK, AnswersOK, RightAnswer, NoAnswer
<1> QED BY <1>1, <1>3, <1>4, <1>5 DEF SkipInv
\* What is in the lists: every key whose Insert is over is in the lowest one.
LEMMA InsertedLinked ==
    ASSUME SkipInv
    PROVE  inserted \subseteq Linked(0)
BY DEF SkipInv, InsertOK, SkipTypeOK, Insertion

\* Steps of readers leave the lists and the insertion as they are.
LEMMA ReaderQuiet ==
    ASSUME SkipInv, UNCHANGED <<next, heights, inserting, inserted>>,
           search'["writer"] = search["writer"]
    PROVE  /\ ListsOK' /\ InsertOK' /\ Top' = Top
           /\ \A l : Linked(l)' = Linked(l) /\ Nodes(l)' = Nodes(l)
<1>1. \A l : Linked(l)' = Linked(l) /\ Nodes(l)' = Nodes(l)
  BY SameLists
<1>2. Top' = Top
  BY DEF Top
<1>3. ListsOK'
  BY <1>1, <1>2 DEF SkipInv, ListsOK, Follows
<1>4. \A l : PrevOK(l)' = PrevOK(l)
  BY <1>1 DEF PrevOK
<1>5. SearchingOK' = SearchingOK
  BY <1>2, <1>4 DEF SearchingOK
<1>6. LinkingOK' = LinkingOK
  BY <1>1, <1>2, <1>4 DEF LinkingOK
<1>7. InsertOK'
  BY <1>1, <1>5, <1>6 DEF SkipInv, InsertOK
<1> QED BY <1>1, <1>2, <1>3, <1>7

\* A step of one search keeps all of them right when it leaves that one right.
LEMMA SearchMoves ==
    ASSUME SkipInv, NEW s \in Searchers, UNCHANGED inserted,
           \A l \in Levels : Nodes(l) \subseteq Nodes(l)',
           search' = [search EXCEPT ![s] = search'[s]], search'[s] \in Search,
           search'[s].op # "none" =>
              /\ search'[s].x \in Nodes(search'[s].level) /\ search'[s].x < search'[s].target
              /\ search'[s].start \subseteq inserted
              /\ search'[s].op = "last" => search'[s].target = Infinity
    PROVE  /\ search' \in [Searchers -> Search] /\ SearchesOK'
           /\ \A t \in Searchers : t # s => search'[t] = search[t]
<1>1. search \in [Searchers -> Search]
  BY DEF SkipInv, SkipTypeOK
<1>2. search' \in [Searchers -> Search] /\ \A t \in Searchers : t # s => search'[t] = search[t]
  BY <1>1
<1>3. ASSUME NEW t \in Searchers, search'[t].op # "none" PROVE SearchOK(search[t])'
  <2>1. search'[t].level \in Levels
    BY <1>2 DEF Search
  <2>2. CASE t = s
    BY <2>1, <2>2, <1>3 DEF SearchOK
  <2>3. CASE t # s
    <3>1. search'[t] = search[t]
      BY <1>2, <2>3
    <3>2. SearchOK(search[t])
      BY <3>1, <1>3 DEF SkipInv, SearchesOK
    <3> QED BY <2>1, <3>1, <3>2 DEF SearchOK
  <2> QED BY <2>2, <2>3
<1>4. SearchesOK'
  BY <1>3 DEF SearchesOK
<1> QED BY <1>2, <1>4

\* What StartSearch sets up, whatever value of max_height_ it loads.
LEMMA SearchStarts ==
    ASSUME SkipInv, NEW s \in Searchers, NEW op \in {"seek", "less", "last"}, NEW target \in Nat,
           StartSearch(s, op, target)
    PROVE  \E level \in Levels :
              /\ level < Top
              /\ search' = [search EXCEPT ![s] = [op |-> op, target |-> target, x |-> HeadNode,
                                                  level |-> level, start |-> inserted]]
<1>1. SkipTypeOK
  BY DEF SkipInv
<1>2. PICK height \in heights :
         search' = [search EXCEPT ![s] = [op |-> op, target |-> target, x |-> HeadNode,
                                          level |-> height - 1, start |-> inserted]]
  BY <1>1, TopFacts DEF StartSearch
<1>3. height - 1 \in Levels /\ height - 1 < Top
  <2>1. height \in 1 .. MaxHeight /\ height <= Top /\ Top \in 1 .. MaxHeight /\ MaxHeight \in Nat
    BY <1>1, TopFacts, LevelFacts DEF SkipTypeOK
  <2> QED BY <2>1, LevelFacts
<1> QED BY <1>2, <1>3

LEMMA SearchBegun ==
    ASSUME SkipInv, NEW s \in Searchers, NEW op \in {"seek", "less", "last"}, NEW target \in Nat \ {0},
           op = "last" => target = Infinity, StartSearch(s, op, target), UNCHANGED inserted,
           \A l \in Levels : Nodes(l) \subseteq Nodes(l)'
    PROVE  /\ search' \in [Searchers -> Search] /\ SearchesOK'
           /\ \A t \in Searchers : t # s => search'[t] = search[t]
           /\ search'[s].op = op /\ search'[s].target = target /\ search'[s].level < Top
<1>1. PICK level \in Levels :
         /\ level < Top
         /\ search' = [search EXCEPT ![s] = [op |-> op, target |-> target, x |-> HeadNode,
                                             level |-> level, start |-> inserted]]
  BY SearchStarts
<1>2. inserted \subseteq Keys /\ search \in [Searchers -> Search]
  BY DEF SkipInv, SkipTypeOK
<1>3. search'[s] = [op |-> op, target |-> target, x |-> HeadNode, level |-> level, start |-> inserted]
  BY <1>1, <1>2
<1>4. search'[s] \in Search
  BY <1>2, <1>3 DEF Search
<1>5. search' = [search EXCEPT ![s] = search'[s]]
  BY <1>1, <1>3
<1>6. HeadNode \in Nodes(level) /\ HeadNode < target
  BY DEF Nodes, HeadNode
<1>7. /\ search'[s].x \in Nodes(search'[s].level) /\ search'[s].x < search'[s].target
      /\ search'[s].start \subseteq inserted
      /\ search'[s].op = "last" => search'[s].target = Infinity
  BY <1>3, <1>6
<1>8. /\ search' \in [Searchers -> Search] /\ SearchesOK'
      /\ \A t \in Searchers : t # s => search'[t] = search[t]
  BY <1>4, <1>5, <1>7, SearchMoves
<1> QED BY <1>1, <1>3, <1>8

LEMMA ReaderStarts ==
    ASSUME SkipInv, NEW r \in Readers, NEW op \in {"seek", "less", "last"}, NEW target \in Nat \ {0},
           op = "last" => target = Infinity, StartSearch(r, op, target),
           UNCHANGED <<next, heights, inserting, inserted, node, answer>>
    PROVE  SkipInv'
<1>1. r \in Searchers /\ "writer" \in Searchers /\ r # "writer"
  BY SkipAssumption DEF Searchers
<1>2. \A l : Linked(l)' = Linked(l) /\ Nodes(l)' = Nodes(l)
  BY SameLists
<1>3. /\ search' \in [Searchers -> Search] /\ SearchesOK'
      /\ search'["writer"] = search["writer"]
  BY <1>1, <1>2, SearchBegun
<1>4. ListsOK' /\ InsertOK'
  BY <1>3, ReaderQuiet
<1>5. SkipTypeOK'
  BY <1>3 DEF SkipInv, SkipTypeOK
<1>6. NodesOK' /\ AnswersOK'
  BY <1>2 DEF SkipInv, NodesOK, AnswersOK
<1> QED BY <1>3, <1>4, <1>5, <1>6 DEF SkipInv
\* Where a search is, and what it loads next.
LEMMA SearchAt ==
    ASSUME SkipInv, NEW s \in Searchers, search[s].op # "none"
    PROVE  LET q == search[s]
               n == NodeNext(q.x, q.level)
           IN  /\ q.level \in Levels /\ q.x \in Nodes(q.level) /\ q.x \in Nat
               /\ q.target \in Nat /\ q.x < q.target /\ q.start \subseteq inserted
               /\ q.op = "last" => q.target = Infinity
               /\ n \in Keys \cup {Null} /\ IsWritten(n) /\ Follows(q.level, q.x, n)
<1>1. search[s] \in Search /\ SearchOK(search[s]) /\ SkipTypeOK /\ ListsOK
  BY DEF SkipInv, SkipTypeOK, SearchesOK
<1>2. search[s].level \in Levels /\ search[s].target \in Nat /\ search[s].x \in Nodes(search[s].level)
  BY <1>1 DEF Search, SearchOK
<1>3. LET q == search[s]
          n == NodeNext(q.x, q.level)
      IN  q.x \in Nat /\ n \in Keys \cup {Null} /\ IsWritten(n) /\ Follows(q.level, q.x, n)
  BY <1>1, <1>2, LinkWritten DEF NodeNext
<1> QED BY <1>1, <1>2, <1>3 DEF SearchOK

\* Going on to the right, or down, leaves a search right.
LEMMA WalkSearch ==
    ASSUME SkipInv, NEW s \in Searchers, Walk(s), \A l \in Levels : Nodes(l) \subseteq Nodes(l)'
    PROVE  /\ search' \in [Searchers -> Search] /\ SearchesOK'
           /\ \A t \in Searchers : t # s => search'[t] = search[t]
<1> DEFINE q == search[s]
           n == NodeNext(q.x, q.level)
<1>1. q.op # "none" /\ UNCHANGED inserted
  BY DEF Walk
<1>2. q \in Search /\ search \in [Searchers -> Search] /\ ListsOK
  BY DEF SkipInv, SkipTypeOK
<1>3. /\ q.level \in Levels /\ q.x \in Nodes(q.level) /\ q.x \in Nat
      /\ q.target \in Nat /\ q.x < q.target /\ q.start \subseteq inserted
      /\ q.op = "last" => q.target = Infinity
      /\ n \in Keys \cup {Null} /\ Follows(q.level, q.x, n)
  BY <1>1, SearchAt
<1>4. CASE GoesOn(q.op, q.target, n) /\ search' = [search EXCEPT ![s].x = n]
  <2>1. search'[s] = [q EXCEPT !.x = n] /\ search' = [search EXCEPT ![s] = search'[s]]
    BY <1>2, <1>4
  <2>2. n \in Keys /\ n \in Linked(q.level) /\ n \in Nodes(q.level)
    BY <1>3, <1>4 DEF GoesOn, Follows, Nodes
  <2>3. n < q.target
    BY <1>3, <1>4, <2>2, KeyFacts DEF GoesOn
  <2>4. search'[s] \in Search
    BY <1>2, <2>1, <2>2 DEF Search
  <2>5. /\ search'[s].x = n /\ search'[s].level = q.level /\ search'[s].target = q.target
        /\ search'[s].start = q.start /\ search'[s].op = q.op
    BY <1>2, <2>1 DEF Search
  <2> HIDE DEF q, n
  <2>6. /\ search'[s].x \in Nodes(search'[s].level) /\ search'[s].x < search'[s].target
        /\ search'[s].start \subseteq inserted
        /\ search'[s].op = "last" => search'[s].target = Infinity
    BY <1>3, <2>2, <2>3, <2>5
  <2> QED BY <1>1, <2>1, <2>4, <2>6, SearchMoves
<1>5. CASE q.level > 0 /\ search' = [search EXCEPT ![s].level = @ - 1]
  <2>1. search'[s] = [q EXCEPT !.level = q.level - 1] /\ search' = [search EXCEPT ![s] = search'[s]]
    BY <1>2, <1>5
  <2>2. q.level - 1 \in Levels /\ q.level - 1 <= q.level
    BY <1>3, <1>5, LevelFacts
  <2>3. q.x \in Nodes(q.level - 1)
    BY <1>2, <1>3, <2>2 DEF ListsOK, Nodes
  <2>4. search'[s] \in Search
    BY <1>2, <2>1, <2>2 DEF Search
  <2>5. /\ search'[s].x = q.x /\ search'[s].level = q.level - 1 /\ search'[s].target = q.target
        /\ search'[s].start = q.start /\ search'[s].op = q.op
    BY <1>2, <2>1 DEF Search
  <2> HIDE DEF q, n
  <2>6. /\ search'[s].x \in Nodes(search'[s].level) /\ search'[s].x < search'[s].target
        /\ search'[s].start \subseteq inserted
        /\ search'[s].op = "last" => search'[s].target = Infinity
    BY <1>3, <2>3, <2>5
  <2> QED BY <1>1, <2>1, <2>4, <2>6, SearchMoves
<1> QED BY <1>4, <1>5 DEF Walk

LEMMA ReaderWalks ==
    ASSUME SkipInv, NEW r \in Readers, Walk(r)
    PROVE  SkipInv'
<1>1. r \in Searchers /\ "writer" \in Searchers /\ r # "writer"
  BY SkipAssumption DEF Searchers
<1>2. UNCHANGED <<next, heights, inserting, inserted, node, answer>>
  BY <1>1 DEF Walk
<1>3. \A l : Linked(l)' = Linked(l) /\ Nodes(l)' = Nodes(l)
  BY <1>2, SameLists
<1>4. /\ search' \in [Searchers -> Search] /\ SearchesOK'
      /\ search'["writer"] = search["writer"]
  BY <1>1, <1>3, WalkSearch
<1>5. ListsOK' /\ InsertOK'
  BY <1>2, <1>4, ReaderQuiet
<1>6. SkipTypeOK'
  BY <1>2, <1>4 DEF SkipInv, SkipTypeOK
<1>7. NodesOK' /\ AnswersOK'
  BY <1>2, <1>3 DEF SkipInv, NodesOK, AnswersOK
<1> QED BY <1>4, <1>5, <1>6, <1>7 DEF SkipInv

\* An answer that is right, about nodes of the lowest list, keeps the invariant.
LEMMA ReaderAnswers ==
    ASSUME SkipInv, NEW r \in Readers, NEW up \in BOOLEAN, NEW target \in Nat,
           NEW found \in Linked(0) \cup {HeadNode, Null}, NEW start \in SUBSET inserted,
           RightAnswer([up |-> up, target |-> target, found |-> found, start |-> start]),
           Answer(r, up, target, found, start), UNCHANGED <<next, heights, inserting, inserted>>
    PROVE  /\ node' \in [Readers -> Keys \cup {Null}] /\ answer' \in [Readers -> AnswerType]
           /\ NodesOK' /\ AnswersOK'
<1> DEFINE a == [up |-> up, target |-> target, found |-> found, start |-> start]
           n == IF found = HeadNode THEN Null ELSE found
<1>1. answer' = [answer EXCEPT ![r] = a] /\ node' = [node EXCEPT ![r] = n]
  BY DEF Answer
<1>2. /\ node \in [Readers -> Keys \cup {Null}] /\ answer \in [Readers -> AnswerType]
      /\ inserted \subseteq Keys /\ Linked(0) \subseteq Keys
  BY DEF SkipInv, SkipTypeOK, Linked
<1>3. a \in AnswerType
  BY <1>2 DEF AnswerType
<1>4. n \in Linked(0) \cup {Null}
  BY DEF Null, HeadNode
<1>5. Linked(0)' = Linked(0)
  BY SameLists
<1>6. RightAnswer(a)
  OBVIOUS
<1> HIDE DEF a, n
<1>7. NodesOK'
  BY <1>1, <1>2, <1>4, <1>5 DEF SkipInv, NodesOK
<1>8. AnswersOK'
  <2> SUFFICES ASSUME NEW t \in Readers PROVE RightAnswer(answer[t])'
    BY DEF AnswersOK
  <2>1. answer'[t] = a \/ answer'[t] = answer[t]
    BY <1>1, <1>2
  <2>2. RightAnswer(answer[t])
    BY DEF SkipInv, AnswersOK
  <2> QED BY <2>1, <2>2, <1>6 DEF RightAnswer
<1> QED BY <1>1, <1>2, <1>3, <1>4, <1>7, <1>8
\* The node after n answers a search for what comes after n.
LEMMA NextIsRight ==
    ASSUME SkipInv, NEW n \in Nodes(0), NEW m, m = next[n][0], NEW target \in Nat,
           n < target, m = Null \/ m >= target
    PROVE  /\ m \in Linked(0) \cup {Null}
           /\ RightAnswer([up |-> TRUE, target |-> target, found |-> m, start |-> inserted])
<1>1. SkipTypeOK /\ ListsOK /\ 0 \in Levels
  BY LevelFacts DEF SkipInv
<1>2. n \in Nat /\ Follows(0, n, m)
  BY <1>1, LinkWritten
<1>3. m \in Linked(0) \cup {Null}
  BY <1>2 DEF Follows
<1>4. ASSUME NEW k \in inserted, k >= target PROVE m # Null /\ m <= k
  <2>1. k \in Linked(0) /\ k \in Nat
    BY InsertedLinked, KeyFacts DEF Linked
  <2>2. ~(k <= n)
    BY <1>2, <1>4, <2>1
  <2> QED BY <1>2, <2>1, <2>2 DEF Follows
<1> QED BY <1>3, <1>4 DEF RightAnswer

LEMMA ReaderFinds ==
    ASSUME SkipInv, NEW r \in Readers, Found(r)
    PROVE  SkipInv'
<1> DEFINE q == search[r]
           n == NodeNext(q.x, q.level)
<1>1. r \in Searchers /\ "writer" \in Searchers /\ r # "writer" /\ 0 \in Levels
  BY SkipAssumption, LevelFacts DEF Searchers
<1>2. /\ q.op # "none" /\ q.level = 0 /\ ~GoesOn(q.op, q.target, n)
      /\ search' = [search EXCEPT ![r] = NoSearch] /\ UNCHANGED <<next, heights, inserting, inserted>>
      /\ IF q.op = "seek" THEN Answer(r, TRUE, q.target, n, q.start)
         ELSE Answer(r, FALSE, q.target, q.x, q.start)
  BY DEF Found
<1>3. \A l : Linked(l)' = Linked(l) /\ Nodes(l)' = Nodes(l)
  BY <1>2, SameLists
<1>4. NoSearch \in Search /\ NoSearch.op = "none"
  BY <1>1 DEF NoSearch, Search
<1>5. search'[r] = NoSearch /\ search' = [search EXCEPT ![r] = search'[r]]
  BY <1>1, <1>2 DEF SkipInv, SkipTypeOK
<1>6. /\ search' \in [Searchers -> Search] /\ SearchesOK'
      /\ search'["writer"] = search["writer"]
  BY <1>1, <1>2, <1>3, <1>4, <1>5, SearchMoves
<1>7. ListsOK' /\ InsertOK'
  BY <1>2, <1>6, ReaderQuiet
<1>8. /\ q.x \in Nodes(0) /\ q.x \in Nat /\ q.target \in Nat /\ q.x < q.target
      /\ q.start \subseteq inserted /\ n = next[q.x][0]
      /\ q.op = "last" => q.target = Infinity
      /\ n \in Keys \cup {Null} /\ Follows(0, q.x, n)
  BY <1>1, <1>2, SearchAt DEF NodeNext
<1>9. /\ node' \in [Readers -> Keys \cup {Null}] /\ answer' \in [Readers -> AnswerType]
      /\ NodesOK' /\ AnswersOK'
  <2>1. CASE q.op = "seek"
    <3>1. n = Null \/ n >= q.target
      BY <1>2, <1>8, <2>1, KeyFacts DEF GoesOn
    <3>2. /\ n \in Linked(0) \cup {Null}
          /\ RightAnswer([up |-> TRUE, target |-> q.target, found |-> n, start |-> inserted])
      BY <1>8, <3>1, NextIsRight
    <3>3. RightAnswer([up |-> TRUE, target |-> q.target, found |-> n, start |-> q.start])
      BY <1>8, <3>2 DEF RightAnswer
    <3> QED BY <1>2, <1>8, <2>1, <3>2, <3>3, ReaderAnswers
  <2>2. CASE q.op # "seek"
    <3>1. ASSUME NEW k \in q.start, k < q.target PROVE k <= q.x
      <4>1. k \in Linked(0) /\ k \in Keys /\ k \in Nat
        BY <1>8, InsertedLinked, KeyFacts DEF Linked
      <4>2. CASE n = Null
        BY <1>8, <4>1, <4>2 DEF Follows
      <4>3. CASE n # Null
        <5>1. n \in Nat /\ n >= q.target
          BY <1>2, <1>8, <4>3, KeyFacts DEF GoesOn
        <5> QED BY <1>8, <3>1, <4>1, <4>3, <5>1 DEF Follows
      <4> QED BY <4>2, <4>3
    <3>2. RightAnswer([up |-> FALSE, target |-> q.target, found |-> q.x, start |-> q.start])
      BY <1>8, <3>1 DEF RightAnswer
    <3>3. q.x \in Linked(0) \cup {HeadNode, Null}
      BY <1>8 DEF Nodes
    <3> QED BY <1>2, <1>8, <2>2, <3>2, <3>3, ReaderAnswers
  <2> QED BY <2>1, <2>2
<1>10. SkipTypeOK'
  BY <1>2, <1>6, <1>9 DEF SkipInv, SkipTypeOK
<1> QED BY <1>6, <1>7, <1>9, <1>10 DEF SkipInv

\* SeekToFirst and Next answer at once.
LEMMA ReaderSteps ==
    ASSUME SkipInv, NEW r \in Readers, SeekToFirst(r) \/ IterNext(r)
    PROVE  SkipInv'
<1>1. UNCHANGED <<next, heights, inserting, inserted, search>>
  BY DEF SeekToFirst, IterNext
<1>2. ListsOK' /\ InsertOK' /\ \A l : Linked(l)' = Linked(l) /\ Nodes(l)' = Nodes(l)
  BY <1>1, ReaderQuiet
<1>3. SearchesOK'
  BY <1>1, <1>2 DEF SkipInv, SearchesOK, SearchOK
<1>4. ASSUME NEW n \in Nodes(0), Answer(r, TRUE, n + 1, NodeNext(n, 0), inserted)
      PROVE  /\ node' \in [Readers -> Keys \cup {Null}] /\ answer' \in [Readers -> AnswerType]
             /\ NodesOK' /\ AnswersOK'
  <2> DEFINE m == NodeNext(n, 0)
  <2>1. n \in Nat /\ m = next[n][0] /\ Follows(0, n, m)
    BY LevelFacts, LinkWritten DEF SkipInv, NodeNext
  <2>2. n + 1 \in Nat /\ n < n + 1
    BY <2>1
  <2>3. m = Null \/ m >= n + 1
    BY <2>1, KeyFacts DEF Follows, Linked
  <2> HIDE DEF m
  <2>4. /\ m \in Linked(0) \cup {Null}
        /\ RightAnswer([up |-> TRUE, target |-> n + 1, found |-> m, start |-> inserted])
    BY <2>1, <2>2, <2>3, NextIsRight
  <2>5. Answer(r, TRUE, n + 1, m, inserted)
    BY <1>4 DEF m
  <2> QED BY <1>1, <2>2, <2>4, <2>5, ReaderAnswers
<1>5. /\ node' \in [Readers -> Keys \cup {Null}] /\ answer' \in [Readers -> AnswerType]
      /\ NodesOK' /\ AnswersOK'
  <2>1. CASE SeekToFirst(r)
    <3>1. HeadNode \in Nodes(0) /\ HeadNode + 1 = 1
      BY DEF Nodes, HeadNode
    <3> QED BY <1>4, <2>1, <3>1 DEF SeekToFirst
  <2>2. CASE IterNext(r)
    <3>1. node[r] \in Nodes(0)
      BY <2>2 DEF IterNext, Valid, SkipInv, NodesOK, Nodes
    <3> QED BY <1>4, <2>2, <3>1 DEF IterNext
  <2> QED BY <2>1, <2>2
<1>6. SkipTypeOK'
  BY <1>1, <1>5 DEF SkipInv, SkipTypeOK
<1> QED BY <1>2, <1>3, <1>5, <1>6 DEF SkipInv

LEMMA ReaderKeeps ==
    ASSUME SkipInv, NEW r \in Readers, Reader(r)
    PROVE  SkipInv'
<1>1. ASSUME NEW target \in Keys, Seek(r, target) PROVE SkipInv'
  BY <1>1, KeyFacts, ReaderStarts DEF Seek
<1>2. CASE Prev(r)
  <2>1. node[r] \in Keys
    BY <1>2 DEF Prev, Valid, SkipInv, SkipTypeOK
  <2> QED BY <1>2, <2>1, KeyFacts, ReaderStarts DEF Prev
<1>3. CASE SeekToLast(r)
  BY <1>3, KeyFacts, ReaderStarts DEF SeekToLast
<1> QED BY <1>1, <1>2, <1>3, ReaderSteps, ReaderWalks, ReaderFinds DEF Reader
\* The writer's steps.

LEMMA InsertStarts ==
    ASSUME SkipInv, NEW key \in Keys, StartInsert(key)
    PROVE  SkipInv'
<1>1. "writer" \in Searchers /\ 0 \in Levels
  BY LevelFacts DEF Searchers
<1>2. /\ inserting.step = "none" /\ key \notin inserted /\ StartSearch("writer", "seek", key)
      /\ inserting' = [NoInsert EXCEPT !.step = "search", !.key = key]
      /\ UNCHANGED <<next, heights, inserted, node, answer>>
  BY DEF StartInsert
<1>3. /\ inserting'.step = "search" /\ inserting'.key = key /\ inserting'.turn = 0
      /\ inserting' \in Insertion
  <2> DEFINE prev == [l \in Levels |-> HeadNode]
  <2>1. prev \in [Levels -> Keys \cup {HeadNode}] /\ 0 \in 0 .. MaxHeight
    BY LevelFacts
  <2>2. inserting' = [step |-> "search", key |-> key, prev |-> prev, height |-> 0, turn |-> 0]
    BY <1>2 DEF NoInsert
  <2> HIDE DEF prev
  <2> QED BY <1>1, <2>1, <2>2 DEF Insertion
<1>4. \A l : Linked(l)' = Linked(l) /\ Nodes(l)' = Nodes(l)
  BY <1>2, <1>3, SameLists
<1>5. Top' = Top
  BY <1>2 DEF Top
<1>6. key \in Nat \ {0}
  BY KeyFacts
<1>7. /\ search' \in [Searchers -> Search] /\ SearchesOK'
      /\ search'["writer"].op = "seek" /\ search'["writer"].target = key
      /\ search'["writer"].level < Top
  BY <1>1, <1>2, <1>4, <1>6, SearchBegun
<1>8. ListsOK'
  BY <1>2, <1>4, <1>5 DEF SkipInv, ListsOK, Follows
<1>9. \A s \in Searchers : s # "writer" => search'[s] = search[s]
  BY <1>1, <1>2, <1>4, <1>6, SearchBegun
<1>10. \E level \in Levels : search'["writer"].level = level /\ level = Top - 1
  <2>1. SkipTypeOK
    BY DEF SkipInv
  <2>2. Top \in 1 .. MaxHeight /\ Max(heights) = Top /\ MaxHeight \in Nat
    BY <2>1, TopFacts, LevelFacts
  <2>3. search' = [search EXCEPT !["writer"] = [op |-> "seek", target |-> key, x |-> HeadNode,
                                                level |-> Top - 1, start |-> inserted]]
    BY <1>2, <2>2 DEF StartSearch
  <2> QED BY <1>1, <2>1, <2>2, <2>3, LevelFacts DEF SkipTypeOK
<1>11. SearchingOK'
  <2>1. ASSUME NEW l \in Levels, search'["writer"].level < l, l < Top PROVE FALSE
    <3>1. SkipTypeOK
      BY DEF SkipInv
    <3>2. Top \in Nat /\ l \in Nat
      BY <3>1, TopFacts, LevelFacts
    <3> QED BY <1>10, <2>1, <3>2
  <2> QED BY <1>2, <1>3, <1>5, <1>7, <2>1 DEF SearchingOK
<1>12. InsertOK'
  <2>1. Linked(0) = inserted
    BY <1>2 DEF SkipInv, InsertOK
  <2> QED BY <1>2, <1>3, <1>4, <1>11, <2>1 DEF InsertOK
<1>13. SkipTypeOK'
  BY <1>2, <1>3, <1>7 DEF SkipInv, SkipTypeOK
<1>14. NodesOK' /\ AnswersOK'
  BY <1>2, <1>4 DEF SkipInv, NodesOK, AnswersOK
<1> QED BY <1>7, <1>8, <1>12, <1>13, <1>14 DEF SkipInv

\* Where the writer leaves a level is where the key belongs in it.
LEMMA WriterAt ==
    ASSUME SkipInv, search["writer"].op # "none"
    PROVE  LET q == search["writer"]
               n == NodeNext(q.x, q.level)
           IN  /\ inserting.step = "search" /\ SearchingOK /\ Linked(0) = inserted
               /\ q.level \in Levels /\ q.x \in Nodes(q.level) /\ q.x < inserting.key
               /\ ~GoesOn(q.op, q.target, n) => n = Null \/ inserting.key < n
<1> DEFINE q == search["writer"]
           n == NodeNext(q.x, q.level)
<1>1. inserting \in Insertion /\ ListsOK /\ "writer" \in Searchers /\ 0 \in Levels
  BY LevelFacts DEF SkipInv, SkipTypeOK, Searchers
<1>2. inserting.step = "search" /\ SearchingOK /\ Linked(0) = inserted
  <2>1. inserting.step \in {"none", "search", "point", "publish"}
    BY <1>1 DEF Insertion
  <2> QED BY <2>1 DEF SkipInv, InsertOK, LinkingOK
<1>3. q.op = "seek" /\ q.target = inserting.key /\ inserting.key \in Keys \ inserted
  BY <1>2 DEF SearchingOK
<1>4. /\ q.level \in Levels /\ q.x \in Nodes(q.level) /\ q.x < q.target
      /\ n \in Keys \cup {Null} /\ Follows(q.level, q.x, n)
  BY <1>1, SearchAt
<1>5. ASSUME ~GoesOn(q.op, q.target, n), n # Null PROVE inserting.key < n
  <2>1. n \in Linked(q.level) /\ n \in Keys
    BY <1>4, <1>5 DEF Follows
  <2>2. Linked(q.level) \subseteq Linked(0)
    <3> DEFINE l == q.level
    <3>1. l \in Levels /\ ListsOK
      BY <1>1, <1>4
    <3> HIDE DEF l
    <3>2. 0 <= l /\ 0 \in Levels
      BY <3>1, LevelFacts
    <3>3. Linked(l) \subseteq Linked(0)
      BY <3>1, <3>2 DEF ListsOK
    <3> QED BY <3>3 DEF l
  <2>3. n # inserting.key
    BY <1>2, <1>3, <2>1, <2>2
  <2> HIDE DEF n
  <2>4. ~(n < inserting.key)
    BY <1>3, <1>5 DEF GoesOn
  <2> QED BY <1>3, <2>1, <2>3, <2>4, KeyFacts
<1> QED BY <1>2, <1>3, <1>4, <1>5

LEMMA WriterWalks ==
    ASSUME SkipInv, Walk("writer")
    PROVE  SkipInv'
<1> DEFINE q == search["writer"]
           n == NodeNext(q.x, q.level)
<1>1. "writer" \in Searchers /\ q \in Search /\ inserting \in Insertion /\ q.op # "none"
  BY DEF SkipInv, SkipTypeOK, Searchers, Walk
<1>2. UNCHANGED <<next, heights, inserted, node, answer>>
  BY DEF Walk
<1>3. /\ inserting.step = "search" /\ SearchingOK /\ Linked(0) = inserted
      /\ q.level \in Levels /\ q.x \in Nodes(q.level) /\ q.x < inserting.key
      /\ ~GoesOn(q.op, q.target, n) => n = Null \/ inserting.key < n
  BY <1>1, WriterAt
<1>4. /\ inserting' \in Insertion /\ inserting'.step = "search" /\ inserting'.key = inserting.key
      /\ inserting'.turn = inserting.turn
      /\ search'["writer"].op = q.op /\ search'["writer"].target = q.target
      /\ \/ inserting' = inserting /\ search'["writer"].level = q.level
         \/ /\ search'["writer"].level = q.level - 1
            /\ inserting'.prev = [inserting.prev EXCEPT ![q.level] = q.x]
            /\ ~GoesOn(q.op, q.target, n)
  <2>0. search \in [Searchers -> Search]
    BY DEF SkipInv, SkipTypeOK
  <2>1. CASE search' = [search EXCEPT !["writer"].x = n] /\ UNCHANGED inserting
    BY <1>1, <1>3, <2>0, <2>1 DEF Search
  <2>2. CASE /\ search' = [search EXCEPT !["writer"].level = @ - 1] /\ ~GoesOn(q.op, q.target, n)
             /\ inserting' = [inserting EXCEPT !.prev[q.level] = q.x]
    <3>1. search'["writer"] = [q EXCEPT !.level = q.level - 1]
      BY <1>1, <2>0, <2>2
    <3>2. /\ search'["writer"].op = q.op /\ search'["writer"].target = q.target
          /\ search'["writer"].level = q.level - 1
      BY <1>1, <3>1 DEF Search
    <3>3. q.x \in Keys \cup {HeadNode}
      BY <1>1 DEF Search
    <3> HIDE DEF q, n
    <3>4. /\ inserting' \in Insertion /\ inserting'.step = "search" /\ inserting'.key = inserting.key
          /\ inserting'.turn = inserting.turn
          /\ inserting'.prev = [inserting.prev EXCEPT ![q.level] = q.x]
      BY <1>1, <1>3, <2>2, <3>3 DEF Insertion
    <3> QED BY <2>2, <3>2, <3>4
  <2> QED BY <2>1, <2>2 DEF Walk
<1>5. \A l : Linked(l)' = Linked(l) /\ Nodes(l)' = Nodes(l)
  BY <1>2, <1>3, <1>4, SameLists
<1>6. Top' = Top
  BY <1>2 DEF Top
<1>7. search' \in [Searchers -> Search] /\ SearchesOK'
  BY <1>1, <1>5, WalkSearch
<1>8. ListsOK'
  BY <1>2, <1>5, <1>6 DEF SkipInv, ListsOK, Follows
<1>9. ASSUME NEW l \in Levels, search'["writer"].level < l, l < Top PROVE PrevOK(l)'
  <2>1. l \in Nat /\ q.level \in Nat /\ inserting.prev \in [Levels -> Keys \cup {HeadNode}]
    BY <1>1, <1>3, LevelFacts DEF Insertion
  <2>2. CASE l = q.level
    <3>1. ~GoesOn(q.op, q.target, n) /\ inserting'.prev = [inserting.prev EXCEPT ![q.level] = q.x]
      BY <1>4, <1>9, <2>1, <2>2
    <3>2. inserting'.prev[l] = q.x
      BY <2>1, <2>2, <3>1
    <3> QED BY <1>2, <1>3, <1>4, <1>5, <2>2, <3>1, <3>2 DEF PrevOK, NodeNext
  <2>3. CASE l # q.level
    <3>1. q.level < l
      BY <1>4, <1>9, <2>1, <2>3
    <3>2. PrevOK(l)
      BY <1>3, <1>9, <3>1 DEF SearchingOK
    <3>3. inserting'.prev[l] = inserting.prev[l]
      BY <1>4, <2>1, <2>3
    <3> QED BY <1>2, <1>4, <1>5, <3>2, <3>3 DEF PrevOK
  <2> QED BY <2>2, <2>3
<1>10. search'["writer"].level < Top
  <2>1. q.level \in Nat /\ q.level < Top
    BY <1>3, LevelFacts DEF SearchingOK
  <2>2. Top \in Nat
    BY LevelFacts, TopFacts DEF SkipInv
  <2> QED BY <1>4, <2>1, <2>2
<1>11. SearchingOK'
  BY <1>2, <1>3, <1>4, <1>6, <1>9, <1>10 DEF SearchingOK
<1>12. InsertOK'
  BY <1>2, <1>3, <1>4, <1>5, <1>11 DEF InsertOK
<1>13. SkipTypeOK'
  BY <1>2, <1>4, <1>7 DEF SkipInv, SkipTypeOK
<1>14. NodesOK' /\ AnswersOK'
  BY <1>2, <1>5 DEF SkipInv, NodesOK, AnswersOK
<1> QED BY <1>7, <1>8, <1>12, <1>13, <1>14 DEF SkipInv
\* The height that max_height_ gets.
LEMMA TopGrows ==
    ASSUME SkipTypeOK, NEW height \in 1 .. MaxHeight,
           heights' = IF height > Max(heights) THEN heights \cup {height} ELSE heights
    PROVE  /\ heights' \subseteq 1 .. MaxHeight /\ (\E m \in heights' : \A h \in heights' : h <= m)
           /\ Top' >= Top /\ Top' >= height /\ (Top' = Top \/ Top' = height)
<1>1. /\ Top \in heights /\ Top \in 1 .. MaxHeight /\ (\A h \in heights : h <= Top)
      /\ Max(heights) = Top /\ MaxHeight \in Nat /\ heights \subseteq 1 .. MaxHeight
  BY TopFacts, LevelFacts DEF SkipTypeOK
<1>2. CASE height > Top
  <2>1. heights' = heights \cup {height}
    BY <1>1, <1>2
  <2>2. height \in heights' /\ \A h \in heights' : h <= height
    BY <1>1, <1>2, <2>1
  <2>3. Top' = height
    <3>1. Top' \in heights' /\ \A h \in heights' : Top' >= h
      <4>1. \E m \in heights' : \A h \in heights' : m >= h
        BY <1>1, <2>1, <2>2
      <4> QED BY <4>1 DEF Top
    <3> QED BY <1>1, <2>1, <2>2, <3>1
  <2> QED BY <1>1, <1>2, <2>1, <2>2, <2>3
<1>3. CASE ~(height > Top)
  <2>1. heights' = heights /\ Top' = Top
    BY <1>1, <1>3 DEF Top
  <2> QED BY <1>1, <1>3, <2>1
<1> QED BY <1>2, <1>3

LEMMA HeightSet ==
    ASSUME SkipInv, NEW height \in 1 .. MaxHeight, SetHeight(height)
    PROVE  SkipInv'
<1> DEFINE q == search["writer"]
           key == inserting.key
           prev == [l \in Levels |-> IF l = 0 THEN q.x
                                     ELSE IF l >= Max(heights) THEN HeadNode ELSE inserting.prev[l]]
<1>1. /\ inserting.step = "search" /\ q.level = 0 /\ ~GoesOn(q.op, q.target, NodeNext(q.x, 0))
      /\ inserting' = [inserting EXCEPT !.step = "point", !.height = height, !.prev = prev]
      /\ heights' = IF height > Max(heights) THEN heights \cup {height} ELSE heights
      /\ search' = [search EXCEPT !["writer"] = NoSearch]
      /\ UNCHANGED <<next, inserted, node, answer>>
  BY DEF SetHeight
<1>2. /\ "writer" \in Searchers /\ 0 \in Levels /\ SkipTypeOK /\ ListsOK /\ inserting \in Insertion
      /\ search \in [Searchers -> Search]
  BY LevelFacts DEF Searchers, SkipInv, SkipTypeOK
<1>3. SearchingOK /\ Linked(0) = inserted /\ q.op # "none"
  BY <1>1 DEF SkipInv, InsertOK, SearchingOK
<1>4. /\ q.x \in Nodes(0) /\ q.x < key
      /\ next[q.x][0] = Null \/ key < next[q.x][0]
  BY <1>1, <1>3, WriterAt DEF NodeNext
<1>5. key \in Keys \ inserted /\ inserting.turn = 0 /\ \A l \in Levels : 0 < l /\ l < Top => PrevOK(l)
  BY <1>1, <1>3 DEF SearchingOK
<1>6. /\ heights' \subseteq 1 .. MaxHeight /\ (\E m \in heights' : \A h \in heights' : h <= m)
      /\ Top' >= Top /\ Top' >= height
  BY <1>1, <1>2, TopGrows
<1>7. Top \in 1 .. MaxHeight /\ Max(heights) = Top /\ MaxHeight \in Nat /\ Levels \subseteq Nat
  BY <1>2, TopFacts, LevelFacts
<1>8. prev \in [Levels -> Keys \cup {HeadNode}]
  <2>1. q.x \in Keys \cup {HeadNode}
    BY <1>2 DEF Search
  <2>2. inserting.prev \in [Levels -> Keys \cup {HeadNode}]
    BY <1>2 DEF Insertion
  <2> QED BY <2>1, <2>2
<1>9. /\ prev[0] = q.x
      /\ \A l \in Levels : l > 0 => prev[l] = IF l >= Top THEN HeadNode ELSE inserting.prev[l]
  BY <1>2, <1>7
<1> HIDE DEF prev
<1>10. /\ inserting' \in Insertion /\ inserting'.step = "point" /\ inserting'.height = height
       /\ inserting'.prev = prev /\ inserting'.key = inserting.key /\ inserting'.turn = inserting.turn
  <2>1. height \in 0 .. MaxHeight
    BY <1>7
  <2> QED BY <1>1, <1>2, <1>8, <2>1 DEF Insertion
<1>11. \A l : Linked(l)' = Linked(l) /\ Nodes(l)' = Nodes(l)
  BY <1>1, <1>10, SameLists
<1>12. search' \in [Searchers -> Search] /\ SearchesOK' /\ search'["writer"].op = "none"
  <2>1. NoSearch \in Search /\ NoSearch.op = "none"
    BY <1>2 DEF NoSearch, Search
  <2>2. search'["writer"] = NoSearch /\ search' = [search EXCEPT !["writer"] = search'["writer"]]
    BY <1>1, <1>2
  <2> QED BY <1>1, <1>2, <1>11, <2>1, <2>2, SearchMoves
<1>13. ASSUME NEW l \in Levels, l >= Top' PROVE l >= Top
  <2>1. Top' \in 1 .. MaxHeight
    <3>1. Top' = Top \/ Top' = height
      BY <1>1, <1>2, TopGrows
    <3> QED BY <1>7, <3>1
  <2> QED BY <1>6, <1>7, <1>13, <2>1
<1>14. ListsOK'
  BY <1>1, <1>2, <1>11, <1>13 DEF ListsOK, Follows
<1>15. ASSUME NEW l \in Levels PROVE key \notin Linked(l) /\ next[key][l] = Unset
  <2>1. Linked(l) \subseteq Linked(0)
    <3>1. 0 <= l
      BY <1>7
    <3> QED BY <1>2, <3>1 DEF ListsOK
  <2>2. key \notin Linked(l)
    BY <1>3, <1>5, <2>1
  <2> QED BY <1>1, <1>5, <2>2 DEF Linked, Pending
<1>16. ASSUME NEW l \in Levels PROVE PrevOK(l)'
  <2>1. CASE l = 0
    BY <1>1, <1>4, <1>9, <1>10, <1>11, <2>1 DEF PrevOK
  <2>2. CASE l > 0 /\ l < Top
    <3>1. PrevOK(l) /\ prev[l] = inserting.prev[l]
      BY <1>5, <1>7, <1>9, <2>2
    <3> QED BY <1>1, <1>10, <1>11, <3>1 DEF PrevOK
  <2>3. CASE l >= Top
    <3>1. prev[l] = HeadNode /\ Linked(l) = {}
      BY <1>2, <1>7, <1>9, <2>3 DEF ListsOK
    <3>2. HeadNode \in Nodes(l)
      BY DEF Nodes
    <3>3. next[HeadNode][l] = Null
      BY <1>2, <3>1, <3>2, LinkWritten DEF Follows
    <3>4. HeadNode < key
      BY <1>5, KeyFacts DEF HeadNode
    <3> QED BY <1>1, <1>10, <1>11, <3>1, <3>2, <3>3, <3>4 DEF PrevOK
  <2> QED BY <1>7, <2>1, <2>2, <2>3
<1>17. LinkingOK'
  <2>1. inserting'.key = key /\ inserting'.turn = 0 /\ inserting'.step = "point"
    BY <1>5, <1>10
  <2> HIDE DEF key
  <2>2. inserting'.height <= Top' /\ 0 < inserting'.height
    BY <1>6, <1>7, <1>10
  <2>3. ASSUME NEW l \in Levels PROVE ~(l < 0) /\ l \in Nat
    BY <1>7
  <2> QED BY <1>1, <1>5, <1>11, <1>12, <1>15, <1>16, <2>1, <2>2, <2>3 DEF LinkingOK
<1>18. InsertOK'
  BY <1>1, <1>3, <1>5, <1>10, <1>11, <1>17 DEF InsertOK
<1>19. SkipTypeOK'
  BY <1>1, <1>2, <1>6, <1>10, <1>12 DEF SkipTypeOK
<1>20. NodesOK' /\ AnswersOK'
  BY <1>1, <1>11 DEF SkipInv, NodesOK, AnswersOK
<1> QED BY <1>12, <1>14, <1>18, <1>19, <1>20 DEF SkipInv
\* The state of an insertion that links its node.
LEMMA Linking ==
    ASSUME SkipInv, inserting.step \in {"point", "publish"}
    PROVE  LET l == inserting.turn
               p == inserting.prev[l]
           IN  /\ LinkingOK /\ SkipTypeOK /\ ListsOK /\ inserting \in Insertion /\ l \in Levels
               /\ inserting.key \in Keys \ inserted /\ p \in Nodes(l) /\ p < inserting.key
               /\ p \in Keys \cup {HeadNode} /\ p \in Nat /\ inserting.key \in Nat
               /\ inserting.key \notin Linked(l)
               /\ next[p][l] \in Keys \cup {Null} /\ Follows(l, p, next[p][l])
               /\ next[p][l] = Null \/ inserting.key < next[p][l]
<1> DEFINE l == inserting.turn
           p == inserting.prev[l]
<1>1. LinkingOK /\ SkipTypeOK /\ ListsOK /\ inserting \in Insertion
  BY DEF SkipInv, InsertOK, SkipTypeOK
<1>2. l \in Levels /\ l < inserting.height
  BY <1>1 DEF Insertion, LinkingOK
<1>3. l \in Nat
  BY <1>2, LevelFacts
<1>4. inserting.key \in Keys \ inserted /\ inserting.key \notin Linked(l) /\ PrevOK(l)
  <2>1. /\ inserting.key \in Keys \ inserted
        /\ \A m \in Levels : m >= l => inserting.key \notin Linked(m)
        /\ \A m \in Levels : m >= l /\ m < inserting.height => PrevOK(m)
    BY <1>1 DEF LinkingOK
  <2> HIDE DEF l
  <2>2. l >= l
    BY <1>3
  <2> QED BY <1>2, <2>1, <2>2
<1>5. p \in Nodes(l) /\ p < inserting.key /\ (next[p][l] = Null \/ inserting.key < next[p][l])
  BY <1>4 DEF PrevOK
<1>6. /\ p \in Keys \cup {HeadNode} /\ p \in Nat
      /\ next[p][l] \in Keys \cup {Null} /\ Follows(l, p, next[p][l])
  BY <1>1, <1>2, <1>5, LinkWritten
<1> QED BY <1>1, <1>2, <1>4, <1>5, <1>6, KeyFacts

LEMMA PointKeeps ==
    ASSUME SkipInv, Point
    PROVE  SkipInv'
<1> DEFINE l == inserting.turn
           p == inserting.prev[l]
           key == inserting.key
<1>1. /\ inserting.step = "point" /\ next' = [next EXCEPT ![key][l] = next[p][l]]
      /\ inserting' = [inserting EXCEPT !.step = "publish"]
      /\ UNCHANGED <<heights, inserted, search, node, answer>>
  BY DEF Point, SetNext, NodeNext, LevelOf
<1>2. /\ LinkingOK /\ SkipTypeOK /\ ListsOK /\ inserting \in Insertion /\ l \in Levels
      /\ key \in Keys \ inserted /\ p \in Nodes(l) /\ p < key
      /\ p \in Keys \cup {HeadNode} /\ p \in Nat /\ key \in Nat
      /\ key \notin Linked(l)
      /\ next[p][l] \in Keys \cup {Null}
  BY <1>1, Linking
<1>3. /\ inserting' \in Insertion /\ inserting'.step = "publish" /\ inserting'.key = key
      /\ inserting'.prev = inserting.prev /\ inserting'.height = inserting.height /\ inserting'.turn = l
  BY <1>1, <1>2 DEF Insertion
<1>4. next \in [Keys \cup {HeadNode} -> [Levels -> Keys \cup {Null, Unset}]]
  BY <1>2 DEF SkipTypeOK
<1> HIDE DEF l, p, key
<1>5. /\ next' \in [Keys \cup {HeadNode} -> [Levels -> Keys \cup {Null, Unset}]]
      /\ next'[key][l] = next[p][l]
      /\ \A n \in Keys \cup {HeadNode}, m \in Levels : n # key \/ m # l => next'[n][m] = next[n][m]
  BY <1>1, <1>2, <1>4
<1>6. ASSUME NEW m \in Levels PROVE Linked(m)' = Linked(m) /\ Nodes(m)' = Nodes(m)
  <2>1. ~Pending(m) /\ (Pending(m)' <=> m = l)
    BY <1>1, <1>3 DEF Pending
  <2>2. ASSUME NEW k \in Keys PROVE k \in Linked(m)' <=> k \in Linked(m)
    <3>1. CASE k = key /\ m = l
      BY <1>2, <1>3, <2>1, <3>1 DEF Linked
    <3>2. CASE k # key \/ m # l
      BY <1>3, <1>5, <2>1, <3>2 DEF Linked
    <3> QED BY <3>1, <3>2
  <2>3. Linked(m)' = Linked(m)
    BY <2>2 DEF Linked
  <2> QED BY <2>3 DEF Nodes
<1>7. Top' = Top
  BY <1>1 DEF Top
<1>8. ASSUME NEW m \in Levels, NEW n \in Nodes(m) PROVE n \in Keys \cup {HeadNode} /\ next'[n][m] = next[n][m]
  <2>1. n \in Keys \cup {HeadNode}
    BY DEF Nodes, Linked
  <2>2. n # key \/ m # l
    <3>1. key # HeadNode
      BY <1>2, KeyFacts
    <3> QED BY <1>2, <3>1 DEF Nodes
  <2> QED BY <1>5, <2>1, <2>2
<1>9. ListsOK'
  <2>1. ASSUME NEW m \in Levels, NEW n \in Keys \cup {HeadNode}, n \in Nodes(m)'
        PROVE  Follows(m, n, next[n][m])'
    <3>1. n \in Nodes(m) /\ next'[n][m] = next[n][m]
      BY <1>6, <1>8, <2>1
    <3>2. Follows(m, n, next[n][m])
      BY <1>2, <3>1 DEF ListsOK
    <3> QED BY <1>6, <3>1, <3>2 DEF Follows
  <2> QED BY <1>2, <1>6, <1>7, <2>1 DEF ListsOK
<1>10. ASSUME NEW m \in Levels, PrevOK(m) PROVE PrevOK(m)'
  <2>1. inserting.prev[m] \in Nodes(m) /\ inserting'.prev[m] = inserting.prev[m]
    BY <1>3, <1>10 DEF PrevOK
  <2>2. next'[inserting.prev[m]][m] = next[inserting.prev[m]][m]
    BY <1>8, <2>1
  <2> QED BY <1>3, <1>6, <1>10, <2>1, <2>2 DEF PrevOK, key
<1>11. LinkingOK'
  <2>1. /\ key \in Keys \ inserted /\ search["writer"].op = "none"
        /\ inserting.height <= Top /\ l < inserting.height
    BY <1>2 DEF LinkingOK, l
  <2>2. ASSUME NEW m \in Levels
        PROVE  /\ m < l => key \in Linked(m)'
               /\ m >= l => key \notin Linked(m)'
               /\ m >= l /\ m < inserting.height => PrevOK(m)'
               /\ m > l => next'[key][m] = Unset
    <3>1. /\ m < l => key \in Linked(m)
          /\ m >= l => key \notin Linked(m)
          /\ m >= l /\ m < inserting.height => PrevOK(m)
          /\ m > l => next[key][m] = Unset
      BY <1>2 DEF LinkingOK, l, key
    <3>2. m > l => m # l
      BY <1>2, LevelFacts
    <3> QED BY <1>2, <1>5, <1>6, <1>10, <3>1, <3>2
  <2>3. next'[key][l] = next'[p][l]
    BY <1>2, <1>5, <1>8
  <2> QED BY <1>1, <1>3, <1>7, <2>1, <2>2, <2>3 DEF LinkingOK, p
<1>12. InsertOK'
  <2>1. Linked(0) = inserted \cup (IF l > 0 THEN {key} ELSE {})
    BY <1>1 DEF SkipInv, InsertOK, l, key
  <2> QED BY <1>1, <1>3, <1>6, <1>11, <2>1, LevelFacts DEF InsertOK
<1>13. SkipTypeOK'
  BY <1>1, <1>2, <1>3, <1>5 DEF SkipTypeOK
<1>14. SearchesOK'
  <2> SUFFICES ASSUME NEW s \in Searchers, search[s].op # "none" PROVE SearchOK(search[s])'
    BY <1>1 DEF SearchesOK
  <2>1. SearchOK(search[s]) /\ search[s].level \in Levels
    BY <1>2 DEF SkipInv, SearchesOK, SkipTypeOK, Search
  <2> QED BY <1>1, <1>6, <2>1 DEF SearchOK
<1>15. NodesOK' /\ AnswersOK'
  BY <1>1, <1>6, LevelFacts DEF SkipInv, NodesOK, AnswersOK
<1> QED BY <1>9, <1>12, <1>13, <1>14, <1>15 DEF SkipInv
\* A key that is linked between its neighbours leaves a sorted list sorted: what follows each
\* node of L when key is put after p, whose successor was nx.
LEMMA LinkedBetween ==
    ASSUME NEW L \in SUBSET Nat, NEW p \in Nat, p \in L \cup {0}, NEW key \in Nat, p < key,
           NEW nx \in Nat \cup {Null},
           nx = Null => \A k \in L : k <= p,
           nx # Null => key < nx /\ \A k \in L : k <= p \/ nx <= k,
           NEW n \in Nat, n \in L \cup {0}, n # p, NEW m \in Nat \cup {Null},
           m = Null => \A k \in L : k <= n,
           m # Null => \A k \in L : k <= n \/ m <= k
    PROVE  \A k \in L \cup {key} : k <= n \/ (m # Null /\ m <= k)
<1>1. ASSUME p < n PROVE key <= n
  <2>1. n \in L /\ ~(n <= p)
    BY <1>1
  <2>2. nx # Null /\ nx \in Nat
    BY <2>1
  <2>3. nx <= n /\ key < nx
    BY <2>1, <2>2
  <2> QED BY <2>2, <2>3
<1>2. key <= n \/ (m # Null /\ m <= key)
  <2>1. CASE p < n
    BY <1>1, <2>1
  <2>2. CASE ~(p < n)
    <3>1. p \in L /\ ~(p <= n)
      BY <2>2
    <3>2. m # Null /\ m \in Nat
      BY <3>1
    <3>3. m <= p
      BY <3>1, <3>2
    <3> QED BY <3>2, <3>3
  <2> QED BY <2>1, <2>2
<1> QED BY <1>2

LEMMA PublishKeeps ==
    ASSUME SkipInv, Publish
    PROVE  SkipInv'
<1> DEFINE l == inserting.turn
           p == inserting.prev[l]
           key == inserting.key
           nx == next[p][l]
<1>1. /\ inserting.step = "publish" /\ next' = [next EXCEPT ![p][l] = key]
      /\ UNCHANGED <<heights, search, node, answer>>
      /\ \/ /\ l + 1 < inserting.height /\ UNCHANGED inserted
            /\ inserting' = [inserting EXCEPT !.step = "point", !.turn = @ + 1]
         \/ ~(l + 1 < inserting.height) /\ inserting' = NoInsert /\ inserted' = inserted \cup {key}
  BY DEF Publish, SetNext, LevelOf
<1>2. /\ LinkingOK /\ SkipTypeOK /\ ListsOK /\ inserting \in Insertion /\ l \in Levels
      /\ key \in Keys \ inserted /\ p \in Nodes(l) /\ p < key
      /\ p \in Keys \cup {HeadNode} /\ p \in Nat /\ key \in Nat
      /\ key \notin Linked(l)
      /\ nx \in Keys \cup {Null} /\ Follows(l, p, nx) /\ (nx = Null \/ key < nx)
  BY <1>1, Linking
<1>3. /\ next \in [Keys \cup {HeadNode} -> [Levels -> Keys \cup {Null, Unset}]]
      /\ inserted \subseteq Keys /\ l \in Nat
      /\ inserting.height \in 0 .. MaxHeight /\ MaxHeight \in Nat
  BY <1>2, LevelFacts DEF SkipTypeOK, Insertion
<1>4. next[key][l] = nx
  BY <1>1, <1>2 DEF LinkingOK
<1>5. \/ /\ l + 1 < inserting.height /\ UNCHANGED inserted
         /\ inserting'.step = "point" /\ inserting'.turn = l + 1 /\ inserting'.key = key
         /\ inserting'.prev = inserting.prev /\ inserting'.height = inserting.height
      \/ ~(l + 1 < inserting.height) /\ inserting' = NoInsert /\ inserted' = inserted \cup {key}
  BY ZenonT(60), <1>1, <1>2 DEF Insertion
<1>6. inserting' \in Insertion /\ inserting'.step \in {"none", "point"}
  <2>1. CASE l + 1 < inserting.height /\ inserting' = [inserting EXCEPT !.step = "point", !.turn = @ + 1]
    <3>1. l + 1 \in Levels
      BY <1>3, <2>1 DEF Levels
    <3> QED BY <1>2, <2>1, <3>1 DEF Insertion
  <2>2. CASE inserting' = NoInsert
    <3> DEFINE prev == [k \in Levels |-> HeadNode]
    <3>1. prev \in [Levels -> Keys \cup {HeadNode}] /\ 0 \in 0 .. MaxHeight /\ 0 \in Levels
      BY LevelFacts
    <3>2. inserting' = [step |-> "none", key |-> 0, prev |-> prev, height |-> 0, turn |-> 0]
      BY <2>2 DEF NoInsert
    <3> HIDE DEF prev
    <3> QED BY <3>1, <3>2 DEF Insertion
  <2> QED BY <1>1, <2>1, <2>2
<1>7. /\ inserted' \subseteq Keys /\ inserted \subseteq inserted'
  BY <1>2, <1>3, <1>5
<1> HIDE DEF l, p, key, nx
<1>8. /\ next' \in [Keys \cup {HeadNode} -> [Levels -> Keys \cup {Null, Unset}]]
      /\ next'[p][l] = key
      /\ \A n \in Keys \cup {HeadNode}, m \in Levels : n # p \/ m # l => next'[n][m] = next[n][m]
  BY <1>1, <1>2, <1>3
<1>9. ASSUME NEW m \in Levels PROVE Linked(m)' = IF m = l THEN Linked(m) \cup {key} ELSE Linked(m)
  <2>1. ~Pending(m)' /\ (Pending(m) <=> m = l)
    BY <1>1, <1>6 DEF Pending, l
  <2>2. key # Unset /\ nx # Unset
    BY <1>2, KeyFacts DEF Unset, Null
  <2>3. ASSUME NEW k \in Keys PROVE k \in Linked(m)' <=> k \in Linked(m) \/ (m = l /\ k = key)
    <3>1. CASE k = p /\ m = l
      <4>1. k \in Linked(m)
        BY <1>2, <3>1, KeyFacts DEF Nodes
      <4> QED BY <1>8, <2>1, <2>2, <3>1, <4>1 DEF Linked
    <3>2. CASE ~(k = p /\ m = l)
      <4>1. next'[k][m] = next[k][m]
        BY <1>8, <3>2
      <4> QED BY <1>4, <2>1, <2>2, <4>1 DEF Linked, key
    <3> QED BY <3>1, <3>2
  <2>4. Linked(m)' \subseteq Keys /\ Linked(m) \subseteq Keys /\ key \in Keys
    BY <1>2 DEF Linked
  <2> QED BY <2>3, <2>4
<1>10. ASSUME NEW m \in Levels PROVE Linked(m) \subseteq Linked(m)' /\ Nodes(m) \subseteq Nodes(m)'
  BY <1>9 DEF Nodes
<1>11. Top' = Top
  BY <1>1 DEF Top
<1>12. \A m \in Levels : /\ m < l => key \in Linked(m)
                         /\ m >= l => key \notin Linked(m)
                         /\ m >= l /\ m < inserting.height => PrevOK(m)
                         /\ m > l => next[key][m] = Unset
  BY <1>2 DEF LinkingOK, l, key
<1>13. /\ search["writer"].op = "none" /\ inserting.height <= Top /\ l < inserting.height
       /\ Top \in Nat
  BY <1>2, LevelFacts, TopFacts DEF LinkingOK, l
<1>14. ListsOK'
  <2>1. ASSUME NEW m \in Levels, NEW n \in Keys \cup {HeadNode}, n \in Nodes(m)'
        PROVE  Follows(m, n, next[n][m])'
    <3>1. CASE m # l
      <4>1. Linked(m)' = Linked(m) /\ next'[n][m] = next[n][m] /\ n \in Nodes(m)
        BY <1>8, <1>9, <2>1, <3>1 DEF Nodes
      <4>2. Follows(m, n, next[n][m])
        BY <1>2, <4>1 DEF ListsOK
      <4> QED BY <4>1, <4>2 DEF Follows
    <3>2. CASE m = l
      <4> DEFINE L == Linked(l)
      <4>1. Linked(m)' = L \cup {key} /\ L \subseteq Keys /\ L \subseteq Nat
        BY <1>9, <3>2, KeyFacts DEF Linked
      <4>2. p \in L \cup {0} /\ n \in L \cup {0, key} /\ key \in Keys /\ key # Null
        BY <1>2, <2>1, <3>2, <4>1, KeyFacts DEF Nodes, HeadNode
      <4>3. IF nx = Null THEN \A k \in L : k <= p
            ELSE nx \in L /\ p < nx /\ \A k \in L : k <= p \/ nx <= k
        BY <1>2 DEF Follows
      <4>4. CASE n = p
        <5>1. next'[n][m] = key
          BY <1>8, <3>2, <4>4
        <5>2. ASSUME NEW k \in L \cup {key} PROVE k <= n \/ key <= k
          <6>1. k \in Nat
            BY <1>2, <4>1
          <6> HIDE DEF L
          <6>2. CASE nx = Null
            BY <1>2, <4>3, <4>4, <6>1, <6>2
          <6>3. CASE nx # Null
            <7>1. nx \in Nat
              BY <4>1, <4>3, <6>3
            <7> QED BY <1>2, <4>3, <4>4, <6>1, <6>3, <7>1
          <6> QED BY <6>2, <6>3
        <5> QED BY <1>2, <4>1, <4>2, <4>4, <5>1, <5>2 DEF Follows
      <4>5. CASE n = key
        <5>1. next'[n][m] = nx
          BY <1>2, <1>4, <1>8, <3>2, <4>5 DEF key, l
        <5>2. ASSUME NEW k \in L \cup {key} PROVE k <= n \/ (nx # Null /\ nx <= k)
          <6>1. k \in Nat
            BY <1>2, <4>1
          <6> HIDE DEF L
          <6>2. CASE k = key
            BY <1>2, <4>5, <6>2
          <6>3. CASE k \in L
            BY <1>2, <4>3, <4>5, <6>1, <6>3
          <6> QED BY <6>2, <6>3
        <5>3. nx # Null => nx \in L /\ n < nx
          BY <1>2, <4>3, <4>5
        <5> QED BY <4>1, <5>1, <5>2, <5>3 DEF Follows
      <4>6. CASE n # p /\ n # key
        <5>1. n \in L \cup {0} /\ n \in Nodes(l)
          BY <4>2, <4>6 DEF Nodes, HeadNode
        <5>2. next'[n][m] = next[n][l] /\ Follows(l, n, next[n][l])
          BY <1>2, <1>8, <2>1, <3>2, <4>6, <5>1 DEF ListsOK
        <5> DEFINE z == next[n][l]
        <5>3. IF z = Null THEN \A k \in L : k <= n
              ELSE z \in L /\ n < z /\ \A k \in L : k <= n \/ z <= k
          BY <5>2 DEF Follows
        <5> HIDE DEF L, z
        <5>4. /\ n \in Nat /\ nx \in Nat \cup {Null} /\ z \in Nat \cup {Null}
              /\ (nx = Null => \A k \in L : k <= p)
              /\ (nx # Null => key < nx /\ \A k \in L : k <= p \/ nx <= k)
              /\ (z = Null => \A k \in L : k <= n)
              /\ (z # Null => \A k \in L : k <= n \/ z <= k)
          <6>1. n \in Nat
            BY <4>1, <5>1
          <6>2. /\ nx \in Nat \cup {Null} /\ (nx = Null => \A k \in L : k <= p)
                /\ (nx # Null => \A k \in L : k <= p \/ nx <= k)
            BY <4>1, <4>3
          <6>3. nx # Null => key < nx
            BY <1>2
          <6>4. /\ z \in Nat \cup {Null} /\ (z = Null => \A k \in L : k <= n)
                /\ (z # Null => \A k \in L : k <= n \/ z <= k)
            BY <4>1, <5>3
          <6> QED BY <6>1, <6>2, <6>3, <6>4
        <5>5. \A k \in L \cup {key} : k <= n \/ (z # Null /\ z <= k)
          BY <1>2, <4>1, <4>2, <4>6, <5>1, <5>4, LinkedBetween
        <5>6. IF z = Null THEN \A k \in L \cup {key} : k <= n
              ELSE z \in L \cup {key} /\ n < z /\ \A k \in L \cup {key} : k <= n \/ z <= k
          BY <5>3, <5>5
        <5> QED BY <4>1, <5>2, <5>6 DEF Follows, z
      <4> QED BY <4>4, <4>5, <4>6
    <3> QED BY <3>1, <3>2
  <2>2. ASSUME NEW a \in Levels, NEW b \in Levels, a <= b PROVE Linked(b)' \subseteq Linked(a)'
    <3>1. Linked(b) \subseteq Linked(a)
      BY <1>2, <2>2 DEF ListsOK
    <3>2. ASSUME b = l PROVE key \in Linked(a)'
      <4>1. a < l \/ a = l
        BY <1>3, <2>2, <3>2, LevelFacts
      <4> QED BY <1>9, <1>12, <4>1
    <3> QED BY <1>9, <1>10, <3>1, <3>2
  <2>3. ASSUME NEW m \in Levels, m >= Top PROVE Linked(m)' = {}
    <3>1. m # l
      BY <1>3, <1>13, <2>3, LevelFacts
    <3> QED BY <1>2, <1>9, <2>3, <3>1 DEF ListsOK
  <2> QED BY <1>11, <2>1, <2>2, <2>3 DEF ListsOK
<1>15. Linked(0)' = inserted \cup {key}
  <2>1. Linked(0) = inserted \cup (IF l > 0 THEN {key} ELSE {})
    BY <1>1 DEF SkipInv, InsertOK, l, key
  <2> QED BY <1>3, <1>9, <2>1, LevelFacts
<1>16. InsertOK'
  <2>1. CASE inserting' = NoInsert /\ inserted' = inserted \cup {key}
    BY <1>1, <1>13, <1>15, <2>1 DEF InsertOK, NoInsert
  <2>2. CASE /\ l + 1 < inserting.height /\ UNCHANGED inserted
             /\ inserting'.step = "point" /\ inserting'.turn = l + 1 /\ inserting'.key = key
             /\ inserting'.prev = inserting.prev /\ inserting'.height = inserting.height
    <3>1. ASSUME NEW m \in Levels
          PROVE  /\ m < l + 1 => key \in Linked(m)'
                 /\ m >= l + 1 => key \notin Linked(m)' /\ next'[key][m] = Unset
                 /\ m >= l + 1 /\ m < inserting.height => PrevOK(m)'
      <4>1. m \in Nat
        BY LevelFacts
      <4>2. CASE m <= l
        <5>1. m < l \/ m = l
          BY <1>3, <4>1, <4>2
        <5>2. key \in Linked(m)'
          BY <1>9, <1>12, <5>1
        <5> QED BY <1>3, <4>1, <4>2, <5>2
      <4>3. CASE m > l
        <5>1. m # l /\ m >= l /\ ~(m < l + 1)
          BY <1>3, <4>1, <4>3
        <5>2. Linked(m)' = Linked(m) /\ Nodes(m)' = Nodes(m)
          BY <1>9, <5>1 DEF Nodes
        <5>3. next'[key][m] = next[key][m]
          BY <1>2, <1>8, <5>1
        <5>4. ASSUME PrevOK(m) PROVE PrevOK(m)'
          <6>1. inserting.prev[m] \in Keys \cup {HeadNode}
            BY <1>2 DEF Insertion
          <6>2. next'[inserting.prev[m]][m] = next[inserting.prev[m]][m]
            BY <1>8, <5>1, <6>1
          <6> QED BY <2>2, <5>2, <5>4, <6>2 DEF PrevOK, key
        <5> QED BY <1>12, <4>3, <5>1, <5>2, <5>3, <5>4
      <4> QED BY <1>3, <4>1, <4>2, <4>3
    <3>2. ASSUME NEW m \in Levels PROVE m > l + 1 \/ m = l + 1 => m >= l + 1
      BY <1>3, LevelFacts
    <3>3. LinkingOK'
      BY <1>1, <1>2, <1>11, <1>13, <2>2, <3>1, <3>2 DEF LinkingOK
    <3>4. l + 1 > 0
      BY <1>3
    <3> QED BY <1>1, <1>15, <2>2, <3>3, <3>4 DEF InsertOK
  <2> QED BY <1>5, <2>1, <2>2
<1>17. SkipTypeOK'
  BY <1>1, <1>2, <1>6, <1>7, <1>8 DEF SkipTypeOK
<1>18. SearchesOK'
  <2> SUFFICES ASSUME NEW s \in Searchers, search[s].op # "none" PROVE SearchOK(search[s])'
    BY <1>1 DEF SearchesOK
  <2>1. SearchOK(search[s]) /\ search[s].level \in Levels
    BY <1>2 DEF SkipInv, SearchesOK, SkipTypeOK, Search
  <2> QED BY <1>1, <1>7, <1>10, <2>1 DEF SearchOK
<1>19. NodesOK' /\ AnswersOK'
  BY <1>1, <1>10, LevelFacts DEF SkipInv, NodesOK, AnswersOK
<1> QED BY <1>14, <1>16, <1>17, <1>18, <1>19 DEF SkipInv

LEMMA SkipStep == SkipInv /\ [SkipNext]_skipVars => SkipInv'
<1> SUFFICES ASSUME SkipInv, [SkipNext]_skipVars PROVE SkipInv'
  OBVIOUS
<1>1. CASE UNCHANGED skipVars
  <2>1. UNCHANGED <<next, heights, inserting, inserted, search, node, answer>>
    BY <1>1 DEF skipVars
  <2>2. ListsOK' /\ InsertOK' /\ \A l : Linked(l)' = Linked(l) /\ Nodes(l)' = Nodes(l)
    BY <2>1, ReaderQuiet
  <2>3. SkipTypeOK' /\ NodesOK' /\ AnswersOK'
    BY <2>1, <2>2 DEF SkipInv, SkipTypeOK, NodesOK, AnswersOK
  <2>4. SearchesOK'
    BY <2>1, <2>2 DEF SkipInv, SearchesOK, SearchOK
  <2> QED BY <2>2, <2>3, <2>4 DEF SkipInv
<1>2. CASE \E r \in Readers : Reader(r)
  BY <1>2, ReaderKeeps
<1>3. CASE Writer
  BY <1>3, InsertStarts, WriterWalks, HeightSet, PointKeeps, PublishKeeps DEF Writer, RandomHeight
<1> QED BY <1>1, <1>2, <1>3 DEF SkipNext

\* Whatever the writer does meanwhile and whichever max_height_ it loaded, a search finds a key
\* on the right side of its target, misses no key whose Insert was over when it started, and
\* loads no link that was not written.
THEOREM SearchesAreRight == SkipSpec => []SearchesMissNothing
<1>1. SkipInv => SearchesMissNothing
  <2> SUFFICES ASSUME SkipInv PROVE SearchesMissNothing
    OBVIOUS
  <2>1. \A s \in Searchers : search[s].op # "none" => IsWritten(NodeNext(search[s].x, search[s].level))
    BY SearchAt
  <2>2. \A r \in Readers : RightAnswer(answer[r])
    BY DEF SkipInv, AnswersOK
  <2> QED BY <2>1, <2>2 DEF SearchesMissNothing, RightAnswer
<1>2. SkipSpec => []SkipInv
  BY SkipInitOK, SkipStep, PTL DEF SkipSpec
<1> QED BY <1>1, <1>2, PTL
=============================================================================
