------------------------------- MODULE DBIter -------------------------------
(***************************************************************************)
(* The iterator of LevelDB: DBIter (db/db_iter.cc) over a MergingIterator     *)
(* (table/merger.cc) over the memtable, the tables of level 0 and the levels   *)
(* below (LevelFileNumIterator and AddIterators of db/version_set.cc).  Other  *)
(* threads write into the memtable while it is used.                           *)
(*                                                                             *)
(* A child is a sequence of files that do not overlap, each a set of entries;  *)
(* the memtable and a table of level 0 have one.  A key that does not parse    *)
(* has the type "bad".  Read sampling (RecordReadSample) is left out here.     *)
(***************************************************************************)
EXTENDS InternalKey

CONSTANTS
    IterKeys,           \* user keys, numbers
    IterEntries,        \* updates in the database when the iterator is made
    IterWrites          \* updates made while it is used

VARIABLES
    children,           \* the children of the merging iterator: files and position
    merge,              \* current_ and direction_ of the merging iterator
    dbiter,             \* the fields of DBIter
    snapshot,           \* sequence_ of DBIter
    iterAt,             \* the user key the iterator has to be at, 0 if it has to be invalid
    iterWrites          \* writes made so far

iterVars == <<children, merge, dbiter, snapshot, iterAt, iterWrites>>

NoEntry == [key |-> 0, seq |-> 0, type |-> "none"]

-----------------------------------------------------------------------------
\* A child: LevelFileNumIterator over its files and an iterator over the current one.

ChildValid(c) == c.at # NoEntry

\* At the first entry of a set, in the i-th file; at the last one.
AtFirst(c, i, S) == [c EXCEPT !.index = i, !.at = IF S = {} THEN NoEntry ELSE FirstOf(S)]
AtLast(c, i, S) == [c EXCEPT !.index = i, !.at = IF S = {} THEN NoEntry ELSE LastOf(S)]

\* FindFile: the first file that ends at or after the key.
FileFor(files, key) ==
    Min({i \in DOMAIN files : files[i] # {} /\ ~Before(LastOf(files[i]), key)} \cup {Len(files) + 1})

ChildSeek(c, key) ==
    LET i == FileFor(c.files, key)
    IN  IF i > Len(c.files) THEN AtFirst(c, i, {})
        ELSE AtFirst(c, i, {e \in c.files[i] : ~Before(e, key)})

ChildSeekToFirst(c) == AtFirst(c, 1, c.files[1])
ChildSeekToLast(c) == AtLast(c, Len(c.files), Last(c.files))

ChildNext(c) ==
    LET after == {e \in c.files[c.index] : Before(c.at, e)}
    IN  IF after = {} /\ c.index < Len(c.files) THEN AtFirst(c, c.index + 1, c.files[c.index + 1])
        ELSE AtFirst(c, c.index, after)

ChildPrev(c) ==
    LET before == {e \in c.files[c.index] : Before(e, c.at)}
    IN  IF before = {} /\ c.index > 1 THEN AtLast(c, c.index - 1, c.files[c.index - 1])
        ELSE AtLast(c, c.index, before)

-----------------------------------------------------------------------------
\* MergingIterator.  The whole iterator is [ch |-> children, current, direction].

MergeValid(m) == m.current # 0
MergeKey(m) == m.ch[m.current].at

ValidChildren(m) == {i \in DOMAIN m.ch : ChildValid(m.ch[i])}

FindSmallest(m) ==
    [m EXCEPT !.current =
        Min({i \in ValidChildren(m) : \A j \in ValidChildren(m) : ~Before(m.ch[j].at, m.ch[i].at)}
                \cup (IF ValidChildren(m) = {} THEN {0} ELSE {}))]

FindLargest(m) ==
    [m EXCEPT !.current =
        Max({i \in ValidChildren(m) : \A j \in ValidChildren(m) : ~Before(m.ch[i].at, m.ch[j].at)}
                \cup (IF ValidChildren(m) = {} THEN {0} ELSE {}))]

\* Every child moved by an operation, but the current one only if all is set.
MoveChildren(m, Op(_), all) ==
    [m EXCEPT !.ch = [i \in DOMAIN m.ch |-> IF all \/ i # m.current THEN Op(m.ch[i]) ELSE m.ch[i]]]

MergeSeekToFirst(m) ==
    [FindSmallest(MoveChildren(m, ChildSeekToFirst, TRUE)) EXCEPT !.direction = "forward"]

MergeSeekToLast(m) ==
    [FindLargest(MoveChildren(m, ChildSeekToLast, TRUE)) EXCEPT !.direction = "reverse"]

MergeSeek(m, key) ==
    LET Op(c) == ChildSeek(c, key)
    IN  [FindSmallest(MoveChildren(m, Op, TRUE)) EXCEPT !.direction = "forward"]

\* A change of direction puts the other children after the key, or before it.
PastKey(c, key) ==
    LET s == ChildSeek(c, key) IN IF ChildValid(s) /\ s.at = key THEN ChildNext(s) ELSE s

\* Mutant: a child that ends before the key stays at its end.
StepBackOnly(c, key) ==
    LET s == ChildSeek(c, key) IN IF ChildValid(s) THEN ChildPrev(s) ELSE s

BeforeKey(c, key) ==
    LET s == ChildSeek(c, key) IN IF ChildValid(s) THEN ChildPrev(s) ELSE ChildSeekToLast(s)

MergeNext(m) ==
    LET Op(c) == PastKey(c, MergeKey(m))
        turned == IF m.direction = "forward" THEN m
                  ELSE [MoveChildren(m, Op, FALSE) EXCEPT !.direction = "forward"]
    IN  FindSmallest([turned EXCEPT !.ch[m.current] = ChildNext(@)])

MergePrev(m) ==
    LET Op(c) == BeforeKey(c, MergeKey(m))
        turned == IF m.direction = "reverse" THEN m
                  ELSE [MoveChildren(m, Op, FALSE) EXCEPT !.direction = "reverse"]
    IN  FindLargest([turned EXCEPT !.ch[m.current] = ChildPrev(@)])

-----------------------------------------------------------------------------
\* DBIter.  d is its state with the merging iterator in iter; a key is saved as a number, 0
\* when cleared, and a value as the sequence number it was written with.

Parses(e) == e.type \in Types

\* ParseKey: whether the entry parses and belongs to the snapshot; a bad one sets the status.
Seen(e) == Parses(e) /\ e.seq <= snapshot
NoteBad(d) == [d EXCEPT !.ok = @ /\ Parses(MergeKey(d.iter))]

\* saved_key_.clear and ClearSavedValue.
ClearSaved(d) == [d EXCEPT !.saved_key = 0, !.saved_value = 0]

RECURSIVE FindNextUserEntry(_, _, _)

FindNextUserEntry(d, skipping, skip) ==
    LET e == MergeKey(d.iter)
        deleted == Seen(e) /\ e.type = "deletion"
        after == [NoteBad(d) EXCEPT !.iter = MergeNext(@)]
    IN  IF Seen(e) /\ e.type = "value" /\ ~(skipping /\ e.key <= skip)
        THEN [d EXCEPT !.valid = TRUE, !.saved_key = 0]
        ELSE IF ~MergeValid(after.iter) THEN [after EXCEPT !.valid = FALSE, !.saved_key = 0]
        ELSE FindNextUserEntry(after, skipping \/ deleted, IF deleted THEN e.key ELSE skip)

RECURSIVE FindPrevUserEntry(_, _)

\* value_type is the type of the last entry seen, "deletion" at first.
FindPrevUserEntry(d, value_type) ==
    LET e == MergeKey(d.iter)
        found == value_type # "deletion" /\ e.key < d.saved_key
        saved == IF ~Seen(e) THEN NoteBad(d)
                 ELSE IF e.type = "deletion" THEN ClearSaved(d)
                 ELSE [d EXCEPT !.saved_key = e.key, !.saved_value = e.seq]
    IN  IF MergeValid(d.iter) /\ ~(Seen(e) /\ found)
        THEN FindPrevUserEntry([saved EXCEPT !.iter = MergePrev(@)],
                               IF Seen(e) THEN e.type ELSE value_type)
        ELSE IF value_type = "deletion"
        THEN [ClearSaved(d) EXCEPT !.valid = FALSE, !.direction = "forward"]
        ELSE [d EXCEPT !.valid = TRUE]

\* The entries of the current key are skipped by FindNextUserEntry, in either direction.
DBIterNext(d) ==
    LET moved == IF d.direction = "forward" THEN [d EXCEPT !.saved_key = MergeKey(d.iter).key]
                 ELSE [d EXCEPT !.direction = "forward",
                                !.iter = IF MergeValid(@) THEN MergeNext(@) ELSE MergeSeekToFirst(@)]
    IN  IF ~MergeValid(moved.iter) THEN [moved EXCEPT !.valid = FALSE, !.saved_key = 0]
        ELSE FindNextUserEntry(moved, TRUE, moved.saved_key)

RECURSIVE BackUntilKeyChanges(_, _)

BackUntilKeyChanges(m, key) ==
    LET p == MergePrev(m)
    IN  IF MergeValid(p) /\ ~(MergeKey(p).key < key) THEN BackUntilKeyChanges(p, key) ELSE p

DBIterPrev(d) ==
    LET m == BackUntilKeyChanges(d.iter, MergeKey(d.iter).key)
        turned == [d EXCEPT !.iter = m, !.saved_key = MergeKey(d.iter).key]
    IN  IF d.direction = "reverse" THEN FindPrevUserEntry(d, "deletion")
        ELSE IF MergeValid(m)
        THEN FindPrevUserEntry([turned EXCEPT !.direction = "reverse"], "deletion")
        ELSE [ClearSaved(turned) EXCEPT !.valid = FALSE]

FromHere(d) ==
    IF MergeValid(d.iter) THEN FindNextUserEntry(d, FALSE, 0) ELSE [d EXCEPT !.valid = FALSE]

DBIterSeek(d, target) ==
    FromHere([ClearSaved(d) EXCEPT !.direction = "forward",
                       !.iter = MergeSeek(@, LookupKey(target, snapshot))])

DBIterSeekToFirst(d) ==
    FromHere([d EXCEPT !.direction = "forward", !.saved_value = 0, !.iter = MergeSeekToFirst(@)])

DBIterSeekToLast(d) ==
    FindPrevUserEntry([d EXCEPT !.direction = "reverse", !.saved_value = 0,
                                !.iter = MergeSeekToLast(@)], "deletion")

\* key() and value().
DBIterKey(d) == IF d.direction = "forward" THEN MergeKey(d.iter).key ELSE d.saved_key
DBIterValue(d) == IF d.direction = "forward" THEN MergeKey(d.iter).seq ELSE d.saved_value

-----------------------------------------------------------------------------
\* The entries, newest in the memtable; where a user key has several, the newer ones are in
\* the upper children.

NewChild(files) == [files |-> files, index |-> 1, at |-> NoEntry]

\* NewInternalIterator and AddIterators, for an update of each sequence number: what it
\* updates and the child it is in (1: memtable, 2: level 0, 3: level 1, cut before the key).
ChildrenOf(updates, cut) ==
    LET In(c) == {[key |-> updates[s].key, seq |-> s, type |-> updates[s].type] :
                        s \in {t \in DOMAIN updates : updates[t].child = c}}
        cuts == SelectSeq(<<{e \in In(3) : e.key < cut}, {e \in In(3) : e.key >= cut}>>,
                          LAMBDA f : f # {})
    IN  <<NewChild(<<In(1)>>)>>
        \o (IF In(2) = {} THEN <<>> ELSE <<NewChild(<<In(2)>>)>>)
        \o (IF cuts = <<>> THEN <<>> ELSE <<NewChild(cuts)>>)

Layered(updates) ==
    \A s, t \in DOMAIN updates : s < t =>
        /\ updates[s].child = 1 => updates[t].child = 1
        /\ updates[s].key = updates[t].key => updates[t].child <= updates[s].child

IterInit(updates, cut, s) ==
    /\ Layered(updates)
    /\ children = ChildrenOf(updates, cut)
    /\ merge = [current |-> 0, direction |-> "forward"]
    /\ dbiter = [direction |-> "forward", valid |-> FALSE, saved_key |-> 0, saved_value |-> 0, ok |-> TRUE]
    /\ snapshot = s /\ iterAt = 0 /\ iterWrites = 0

\* The iterator as one record, and a step of it.
TheIter == [direction |-> dbiter.direction, valid |-> dbiter.valid, saved_key |-> dbiter.saved_key,
            saved_value |-> dbiter.saved_value, ok |-> dbiter.ok,
            iter |-> [ch |-> children, current |-> merge.current, direction |-> merge.direction]]

AllEntries == UNION {UNION Range(children[i].files) : i \in DOMAIN children}

\* What the iterator shows of a key: its newest entry up to the snapshot, if that is a value.
Shown(k) ==
    LET seen == {e \in AllEntries : e.key = k /\ Seen(e)}
    IN  IF seen = {} \/ FirstOf(seen).type # "value" THEN {} ELSE {FirstOf(seen)}

ShownKeys == {k \in IterKeys : Shown(k) # {}}

Least(keys) == IF keys = {} THEN 0 ELSE Min(keys)
Greatest(keys) == Max(keys \cup {0})

StepTo(op, at) ==
    /\ \E d \in {op} :
        /\ children' = d.iter.ch
        /\ merge' = [current |-> d.iter.current, direction |-> d.iter.direction]
        /\ dbiter' = [direction |-> d.direction, valid |-> d.valid, saved_key |-> d.saved_key,
                      saved_value |-> d.saved_value, ok |-> d.ok]
    /\ iterAt' = at
    /\ UNCHANGED <<snapshot, iterWrites>>

UserSeek == \E k \in IterKeys : StepTo(DBIterSeek(TheIter, k), Least({l \in ShownKeys : l >= k}))
UserSeekToFirst == StepTo(DBIterSeekToFirst(TheIter), Least(ShownKeys))
UserSeekToLast == StepTo(DBIterSeekToLast(TheIter), Greatest(ShownKeys))
UserNext == dbiter.valid /\ StepTo(DBIterNext(TheIter), Least({l \in ShownKeys : l > iterAt}))
UserPrev == dbiter.valid /\ StepTo(DBIterPrev(TheIter), Greatest({l \in ShownKeys : l < iterAt}))

\* Another thread inserts into the memtable, which the iterator reads without a lock.
WriteMeanwhile ==
    /\ iterWrites < IterWrites
    /\ \E k \in IterKeys, type \in Types :
        children' = [children EXCEPT ![1].files[1] =
                        MemTableAdd(@, k, IterEntries + iterWrites + 1, type)]
    /\ iterWrites' = iterWrites + 1
    /\ UNCHANGED <<merge, dbiter, snapshot, iterAt>>

IterNextStep ==
    UserSeek \/ UserSeekToFirst \/ UserSeekToLast \/ UserNext \/ UserPrev \/ WriteMeanwhile

-----------------------------------------------------------------------------
\* After any calls in any order, and whatever is written meanwhile, the iterator is at the
\* key it belongs at in the view of its snapshot, with the newest value of that view: no
\* deleted or overwritten entry is shown and no key is skipped at a change of direction.
DBIterAgrees ==
    /\ dbiter.valid <=> iterAt # 0
    /\ dbiter.valid => /\ DBIterKey(TheIter) = iterAt
                       /\ \E e \in Shown(iterAt) : DBIterValue(TheIter) = e.seq
    /\ ~dbiter.ok => \E e \in AllEntries : ~Parses(e)
=============================================================================
