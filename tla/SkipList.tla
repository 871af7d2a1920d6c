------------------------------ MODULE SkipList ------------------------------
(***************************************************************************)
(* The skip list of a memtable (db/skiplist.h): one writer inserts, readers   *)
(* search and iterate without locks.  A step loads or stores one link.  The   *)
(* links are stored with release and loaded with acquire semantics, so with   *)
(* one writer a reader sees its stores in order; max_height_ is relaxed, so a *)
(* reader may see any value it ever had.                                      *)
(***************************************************************************)
EXTENDS Integers, FiniteSets, FiniteSetsExt

CONSTANTS Keys,       \* keys, numbers from 1 on
          MaxHeight,  \* kMaxHeight
          Readers

HeadNode == 0
Null == -1
Unset == -2           \* a link of a node that was not written yet
Infinity == Max(Keys) + 1
Levels == 0 .. MaxHeight - 1

ASSUME SkipAssumption ==
    /\ Keys \subseteq Nat \ {0} /\ \E m \in Keys : \A k \in Keys : k <= m
    /\ MaxHeight \in Nat \ {0} /\ "writer" \notin Readers

VARIABLES next,       \* next_ of every node, head_ included
          heights,    \* the values max_height_ has had; it only grows
          inserting,  \* the Insert under way: key, prev, height, turn of the loop
          inserted,   \* history: the keys whose Insert is over
          search,     \* the search of each reader and of the writer
          node,       \* node_ of each reader's iterator
          answer      \* history: the last search of each reader

skipVars == <<next, heights, inserting, inserted, search, node, answer>>

Searchers == Readers \cup {"writer"}
NoSearch == [op |-> "none", target |-> 0, x |-> HeadNode, level |-> 0, start |-> {}]
NoInsert == [step |-> "none", key |-> 0, prev |-> [l \in Levels |-> HeadNode], height |-> 0, turn |-> 0]
NoAnswer == [up |-> TRUE, target |-> 1, found |-> Null, start |-> {}]

SkipInit ==
    /\ next = [n \in Keys \cup {HeadNode} |-> [l \in Levels |-> IF n = HeadNode THEN Null ELSE Unset]]
    /\ heights = {1} /\ inserting = NoInsert /\ inserted = {}
    /\ search = [s \in Searchers |-> NoSearch]
    /\ node = [r \in Readers |-> Null]
    /\ answer = [r \in Readers |-> NoAnswer]

-----------------------------------------------------------------------------
\* Nodes.

\* Node::Next, an acquire load, and SetNext, a release store.
NodeNext(n, level) == next[n][level]
SetNext(n, level, x) == next' = [next EXCEPT ![n][level] = x]

\* NewNode leaves the links of the node, as many as its height, unwritten.
IsWritten(x) == x # Unset

RandomHeight == 1 .. MaxHeight

-----------------------------------------------------------------------------
\* Searching: FindGreaterOrEqual, FindLessThan and FindLast go right while they may and else
\* down.

\* What a search loads first; op is seek, less or last.
StartSearch(s, op, target) ==
    \E height \in IF s = "writer" THEN {Max(heights)} ELSE heights :
        search' = [search EXCEPT ![s] = [op |-> op, target |-> target, x |-> HeadNode,
                                         level |-> height - 1, start |-> inserted]]

\* KeyIsAfterNode, and the negation of the conditions of the other two.
GoesOn(op, target, n) == n # Null /\ (op = "last" \/ n < target)

\* Loads that do not end a search.
Walk(s) ==
    LET q == search[s]
        n == NodeNext(q.x, q.level)
    IN  /\ q.op # "none" /\ IsWritten(n)
        /\ \/ /\ GoesOn(q.op, q.target, n)
              /\ search' = [search EXCEPT ![s].x = n]
              /\ UNCHANGED inserting
           \/ /\ ~GoesOn(q.op, q.target, n) /\ q.level > 0
              /\ search' = [search EXCEPT ![s].level = @ - 1]
              /\ inserting' = IF s = "writer"
                              THEN [inserting EXCEPT !.prev[q.level] = q.x] ELSE inserting
        /\ UNCHANGED <<next, heights, inserted, node, answer>>

Answer(r, up, target, found, start) ==
    /\ answer' = [answer EXCEPT ![r] = [up |-> up, target |-> target, found |-> found,
                                        start |-> start]]
    /\ node' = [node EXCEPT ![r] = IF found = HeadNode THEN Null ELSE found]

\* The last load.  Seek returns the node to the right, the others the one they are at, where
\* head_ stands for none.
Found(r) ==
    LET q == search[r]
        n == NodeNext(q.x, q.level)
    IN  /\ q.op # "none" /\ IsWritten(n) /\ q.level = 0 /\ ~GoesOn(q.op, q.target, n)
        /\ IF q.op = "seek" THEN Answer(r, TRUE, q.target, n, q.start)
           ELSE Answer(r, FALSE, q.target, q.x, q.start)
        /\ search' = [search EXCEPT ![r] = NoSearch]
        /\ UNCHANGED <<next, heights, inserting, inserted>>

-----------------------------------------------------------------------------
\* The iterator.

Idle(r) == search[r].op = "none"

Valid(r) == node[r] # Null

Seek(r, target) ==
    /\ Idle(r) /\ StartSearch(r, "seek", target)
    /\ UNCHANGED <<next, heights, inserting, inserted, node, answer>>

Prev(r) ==
    /\ Idle(r) /\ Valid(r) /\ StartSearch(r, "less", node[r])
    /\ UNCHANGED <<next, heights, inserting, inserted, node, answer>>

SeekToLast(r) ==
    /\ Idle(r) /\ StartSearch(r, "last", Infinity)
    /\ UNCHANGED <<next, heights, inserting, inserted, node, answer>>

SeekToFirst(r) ==
    /\ Idle(r) /\ Answer(r, TRUE, 1, NodeNext(HeadNode, 0), inserted)
    /\ UNCHANGED <<next, heights, inserting, inserted, search>>

IterNext(r) ==
    /\ Idle(r) /\ Valid(r)
    /\ Answer(r, TRUE, node[r] + 1, NodeNext(node[r], 0), inserted)
    /\ UNCHANGED <<next, heights, inserting, inserted, search>>

-----------------------------------------------------------------------------
\* Insert.

StartInsert(key) ==
    /\ inserting.step = "none" /\ key \notin inserted
    /\ inserting' = [NoInsert EXCEPT !.step = "search", !.key = key]
    /\ StartSearch("writer", "seek", key)
    /\ UNCHANGED <<next, heights, inserted, node, answer>>

\* The end of the search, RandomHeight, the new max_height_, and NewNode.
SetHeight(height) ==
    LET q == search["writer"]
    IN  /\ inserting.step = "search" /\ q.level = 0 /\ ~GoesOn(q.op, q.target, NodeNext(q.x, 0))
        /\ inserting' = [inserting EXCEPT !.step = "point", !.height = height,
               !.prev = [l \in Levels |-> IF l = 0 THEN q.x
                                          ELSE IF l >= Max(heights) THEN HeadNode ELSE @[l]]]
        /\ heights' = IF height > Max(heights) THEN heights \cup {height} ELSE heights
        /\ search' = [search EXCEPT !["writer"] = NoSearch]
        /\ UNCHANGED <<next, inserted, node, answer>>

\* Mutant: the upper levels come first.
FromTheTop(turn) == inserting.height - 1 - turn

\* The level that is linked in a turn of the loop.
LevelOf(turn) == turn

\* The node's link at a level is written before the node is published at that level.
Point ==
    LET l == LevelOf(inserting.turn)
    IN  /\ inserting.step = "point"
        /\ SetNext(inserting.key, l, NodeNext(inserting.prev[l], l))
        /\ inserting' = [inserting EXCEPT !.step = "publish"]
        /\ UNCHANGED <<heights, inserted, search, node, answer>>

Publish ==
    LET l == LevelOf(inserting.turn)
    IN  /\ inserting.step = "publish"
        /\ SetNext(inserting.prev[l], l, inserting.key)
        /\ IF inserting.turn + 1 < inserting.height
           THEN /\ inserting' = [inserting EXCEPT !.step = "point", !.turn = @ + 1]
                /\ UNCHANGED inserted
           ELSE inserting' = NoInsert /\ inserted' = inserted \cup {inserting.key}
        /\ UNCHANGED <<heights, search, node, answer>>

Reader(r) == \/ (\E target \in Keys : Seek(r, target)) \/ Prev(r) \/ SeekToLast(r) \/ SeekToFirst(r) \/ IterNext(r)
             \/ Walk(r) \/ Found(r)

Writer == \/ \E key \in Keys : StartInsert(key)
          \/ Walk("writer") \/ (\E height \in RandomHeight : SetHeight(height))
          \/ Point \/ Publish

SkipNext == (\E r \in Readers : Reader(r)) \/ Writer

SkipSpec == SkipInit /\ [][SkipNext]_skipVars

-----------------------------------------------------------------------------
\* A search answers with a key on the right side of its target, passes over no key whose
\* Insert was over when it started, and never follows a link that was not written, although
\* the writer links nodes level by level under its eyes and max_height_ may be stale.
SearchesMissNothing ==
    /\ \A s \in Searchers : search[s].op # "none" => IsWritten(NodeNext(search[s].x, search[s].level))
    /\ \A r \in Readers :
         LET a == answer[r]
         IN  IF a.up
             THEN /\ a.found # Null => a.found >= a.target
                  /\ \A k \in a.start : k >= a.target => a.found # Null /\ a.found <= k
             ELSE /\ a.found < a.target
                  /\ \A k \in a.start : k < a.target => k <= a.found
=============================================================================
