---------------------------- MODULE InternalKey ----------------------------
(***************************************************************************)
(* The internal keys of LevelDB (db/dbformat.h, db/dbformat.cc).  An entry  *)
(* is one update: user key, sequence number and type.  Its value is left    *)
(* out: the sequence number tells one update from every other.              *)
(***************************************************************************)
EXTENDS Integers, Sequences, FiniteSets, FiniteSetsExt, SequencesExt

Types == {"value", "deletion"}

InternalKeys(Keys, Seqs) == [key : Keys, seq : Seqs, type : Types]

\* InternalKeyComparator::Compare(a, b) < 0: user keys ascend, sequence numbers descend.
Before(a, b) == a.key < b.key \/ (a.key = b.key /\ a.seq > b.seq)

\* The first and the last entry of a set; a table's smallest and largest key.
FirstOf(S) == CHOOSE e \in S : \A o \in S \ {e} : Before(e, o)
LastOf(S)  == CHOOSE e \in S : \A o \in S \ {e} : Before(o, e)

\* A set as the sequence an iterator over it yields.
InOrder(S) ==
    [i \in 1 .. Cardinality(S) |->
        CHOOSE e \in S : Cardinality({o \in S : Before(o, e)}) = i - 1]

\* LookupKey(user_key, s): sorts before every entry of the key that s may see.
LookupKey(k, s) == [key |-> k, seq |-> s, type |-> "value"]

\* What a seek to the lookup key finds in the entries of a table: the first entry at or
\* after it, if that has the user key (SaveValue).
Seek(S, k, s) ==
    LET later == {e \in S : ~Before(e, LookupKey(k, s))}
    IN  IF later = {} \/ FirstOf(later).key # k THEN {} ELSE {FirstOf(later)}

\* MemTable::Add and MemTable::Get.
MemTableAdd(S, k, s, t) == S \cup {[key |-> k, seq |-> s, type |-> t]}
MemTableGet(S, k, s) == Seek(S, k, s)
=============================================================================
