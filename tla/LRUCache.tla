------------------------------ MODULE LRUCache ------------------------------
(***************************************************************************)
(* The LRU cache and its shards (util/cache.cc) as the table cache uses them  *)
(* (db/table_cache.cc): threads look a table up, open it if it is missing,    *)
(* insert it, use it and release it, while others evict it.  Each call of a   *)
(* shard holds its mutex; between a failed Lookup and the Insert it is free.   *)
(***************************************************************************)
EXTENDS Integers, Sequences, FiniteSets, FiniteSetsExt, SequencesExt

CONSTANTS Users,        \* threads
          Files,        \* keys: numbers of tables
          Hash(_),      \* hash of a key, less than 2^HashBits
          HashBits,     \* 32 in the code
          kNumShardBits,
          TableLength,  \* first length of the hash table (4 in the code)
          Capacities    \* capacities of the whole cache; 0 turns caching off

VARIABLES shard_,       \* of each shard: its handles, lists, usage_ and hash table
          user,         \* what each thread does: at, file, the handle it holds
          pruning       \* the shard Prune comes to next; kNumShards if it does not run

cacheVars == <<shard_, user, pruning>>

kNumShards == 2^kNumShardBits
Shards == 0 .. kNumShards - 1
Shard(file) == Hash(file) \div 2^(HashBits - kNumShardBits)

\* Hashes have HashBits bits, the first kNumShardBits of which number a shard.
ASSUME CacheAssumption ==
    /\ IsFiniteSet(Users) /\ IsFiniteSet(Files) /\ Capacities \subseteq Nat
    /\ kNumShards \in Nat \ {0} /\ TableLength \in Nat \ {0}
    /\ \A file \in Files : Hash(file) \in Nat /\ Shard(file) \in Shards

Handles == 1 .. (Cardinality(Users) + Cardinality(Files) + 1)
Freed == [file |-> 0, in_cache |-> FALSE, refs |-> 0, charge |-> 0]

EmptyShard(capacity) ==
    [capacity |-> capacity, usage |-> 0, lru |-> <<>>, in_use |-> <<>>,
     handle |-> [h \in Handles |-> Freed], table |-> [b \in 1 .. TableLength |-> <<>>]]

\* The capacity is divided among the shards and rounded up.
CacheInit(capacity) ==
    /\ shard_ = [s \in Shards |-> EmptyShard((capacity + kNumShards - 1) \div kNumShards)]
    /\ pruning = kNumShards
    /\ user = [u \in Users |-> [at |-> "idle", file |-> 0, handle |-> 0]]

-----------------------------------------------------------------------------
\* HandleTable: buckets are chains of handles.

Elems(table) == FlattenSeq(table)
Bucket(table, file) == (Hash(file) % Len(table)) + 1

\* FindPointer: where the chain of the bucket holds the key, or its end.
FindPointer(c, file) ==
    LET chain == c.table[Bucket(c.table, file)]
        at == {i \in DOMAIN chain : c.handle[chain[i]].file = file}
    IN  IF at = {} THEN Len(chain) + 1 ELSE Min(at)

\* The handle of a key, 0 if there is none.
TableLookup(c, file) ==
    LET chain == c.table[Bucket(c.table, file)]
        i == FindPointer(c, file)
    IN  IF i \in DOMAIN chain THEN chain[i] ELSE 0

\* Twice as long until it has room for all.
NewLength(elems) ==
    LET doubled[k \in 0 .. elems] ==
            IF k = 0 THEN TableLength
            ELSE IF doubled[k - 1] < elems THEN 2 * doubled[k - 1] ELSE doubled[k - 1]
    IN  doubled[elems]

\* Chains are rebuilt from the front.
Resize(c) ==
    LET elems == Elems(c.table)
        empty == [b \in 1 .. NewLength(Len(elems)) |-> <<>>]
        rebuilt[k \in 0 .. Len(elems)] ==
            IF k = 0 THEN empty
            ELSE [rebuilt[k - 1] EXCEPT
                     ![Bucket(rebuilt[k - 1], c.handle[elems[k]].file)] = <<elems[k]>> \o @]
    IN  [c EXCEPT !.table = rebuilt[Len(elems)]]

\* Insert: replaces the handle of the same key, or goes to the end.
TableInsert(c, h) ==
    LET b == Bucket(c.table, c.handle[h].file)
        i == FindPointer(c, c.handle[h].file)
        d == [c EXCEPT !.table[b] = IF i \in DOMAIN @ THEN [@ EXCEPT ![i] = h] ELSE Append(@, h)]
    IN  IF Len(Elems(d.table)) > Len(d.table) THEN Resize(d) ELSE d

TableRemove(c, file) ==
    LET b == Bucket(c.table, file)
        i == FindPointer(c, file)
    IN  [c EXCEPT !.table[b] = IF i \in DOMAIN @ THEN RemoveAt(@, i) ELSE @]

-----------------------------------------------------------------------------
\* LRUCache.

\* LRU_Remove: a handle leaves the list it is on.
LRU_Remove(c, h) == [c EXCEPT !.lru = RemoveFirst(@, h), !.in_use = RemoveFirst(@, h)]

\* The newest entry of a list, "lru" or "in_use", is its last.
LRU_Append(c, list, h) == [c EXCEPT ![list] = Append(@, h)]

Ref(c, h) ==
    LET d == IF c.handle[h].refs = 1 /\ c.handle[h].in_cache
             THEN LRU_Append(LRU_Remove(c, h), "in_use", h) ELSE c
    IN  [d EXCEPT !.handle[h].refs = @ + 1]

\* The last reference calls the deleter and frees the handle.
Unref(c, h) ==
    LET d == [c EXCEPT !.handle[h].refs = @ - 1]
    IN  IF d.handle[h].refs = 0 THEN [d EXCEPT !.handle[h] = Freed]
        ELSE IF d.handle[h].in_cache /\ d.handle[h].refs = 1
             THEN LRU_Append(LRU_Remove(d, h), "lru", h) ELSE d

\* Mutant: the reference of the cache is dropped for good.
EraseForce(c, h) ==
    IF h = 0 THEN c
    ELSE [LRU_Remove(c, h) EXCEPT !.handle[h] = Freed, !.usage = @ - c.handle[h].charge]

\* Mutant: the charge stays.
KeepCharge(c, h) ==
    IF h = 0 THEN c ELSE Unref([LRU_Remove(c, h) EXCEPT !.handle[h].in_cache = FALSE], h)

\* The handle has left the hash table already.
FinishErase(c, h) ==
    IF h = 0 THEN c
    ELSE Unref([LRU_Remove(c, h) EXCEPT !.handle[h].in_cache = FALSE,
                                        !.usage = @ - c.handle[h].charge], h)

EraseKey(c, file) == FinishErase(TableRemove(c, file), TableLookup(c, file))

\* The oldest handle that nobody uses goes, while more than that is charged and there is one.
EraseOldest(c, limit) ==
    LET erased[n \in 0 .. Len(c.lru)] ==
            IF n = 0 THEN c
            ELSE LET d == erased[n - 1]
                 IN  IF d.usage > limit /\ d.lru # <<>>
                     THEN EraseKey(d, d.handle[Head(d.lru)].file) ELSE d
    IN  erased[Len(c.lru)]

\* Insert charges the handle, puts it in place of an older one of the same key and evicts
\* while too much is charged and something can go.  The charge of a table is 1.
InsertHandle(c, file, h) ==
    LET new == [file |-> file, in_cache |-> c.capacity > 0, charge |-> 1,
                refs |-> IF c.capacity > 0 THEN 2 ELSE 1]
        d == [c EXCEPT !.handle[h] = new]
        e == IF c.capacity = 0 THEN d
             ELSE FinishErase(TableInsert([LRU_Append(d, "in_use", h) EXCEPT !.usage = @ + 1], h),
                              TableLookup(c, file))
    IN  EraseOldest(e, c.capacity)

\* Lookup takes a reference on what it finds.
CacheLookup(c, file) ==
    LET h == TableLookup(c, file) IN  IF h = 0 THEN c ELSE Ref(c, h)

CacheRelease(c, h) == Unref(c, h)

\* Whatever is charged.
PruneShard(c) == EraseOldest(c, -1)

-----------------------------------------------------------------------------
\* ShardedLRUCache: a call goes to the shard of its key.

InShard(file, c) == shard_' = [shard_ EXCEPT ![Shard(file)] = c]

\* Prune locks one shard after the other.
StartPrune == pruning = kNumShards /\ pruning' = 0 /\ UNCHANGED <<shard_, user>>

Prune ==
    /\ pruning < kNumShards
    /\ shard_' = [shard_ EXCEPT ![pruning] = PruneShard(@)]
    /\ pruning' = pruning + 1
    /\ UNCHANGED user

-----------------------------------------------------------------------------
\* TableCache.

\* FindTable: a hit gives a handle, a miss opens the table without the mutex.
FindTable(u, file) ==
    /\ user[u].at = "idle"
    /\ LET c == shard_[Shard(file)]
           h == TableLookup(c, file)
       IN  /\ InShard(file, CacheLookup(c, file))
           /\ user' = [user EXCEPT ![u] = [at |-> IF h # 0 THEN "using" ELSE "opening",
                                           file |-> file, handle |-> h]]
    /\ UNCHANGED pruning

Opened(u) ==
    /\ user[u].at = "opening"
    /\ LET c == shard_[Shard(user[u].file)]
       IN  \E h \in {Min({x \in Handles : c.handle[x].refs = 0})} :
             /\ InShard(user[u].file, InsertHandle(c, user[u].file, h))
             /\ user' = [user EXCEPT ![u].at = "using", ![u].handle = h]
    /\ UNCHANGED pruning

\* Error results are not cached.
OpenFails(u) ==
    /\ user[u].at = "opening"
    /\ user' = [user EXCEPT ![u].at = "idle"]
    /\ UNCHANGED <<shard_, pruning>>

\* Get is over, or the iterator of NewIterator is deleted (UnrefEntry).
Release(u) ==
    /\ user[u].at = "using"
    /\ InShard(user[u].file, CacheRelease(shard_[Shard(user[u].file)], user[u].handle))
    /\ user' = [user EXCEPT ![u].at = "idle", ![u].handle = 0]
    /\ UNCHANGED pruning

Evict(file) ==
    InShard(file, EraseKey(shard_[Shard(file)], file)) /\ UNCHANGED <<user, pruning>>

CacheNext ==
    \/ \E u \in Users : \/ \E file \in Files : FindTable(u, file)
                        \/ Opened(u) \/ OpenFails(u) \/ Release(u)
    \/ (\E file \in Files : Evict(file)) \/ StartPrune \/ Prune

CacheSpec == (\E capacity \in Capacities : CacheInit(capacity)) /\ [][CacheNext]_cacheVars

-----------------------------------------------------------------------------
\* Properties.

\* The table a thread uses is the one it asked for and stays open until it is released, also
\* when it was evicted, pushed out or replaced by another thread's copy in between; and what
\* nobody refers to is freed.
HeldTablesStay ==
    /\ \A u \in Users : user[u].at = "using" =>
         shard_[Shard(user[u].file)].handle[user[u].handle].file = user[u].file
    /\ \A s \in Shards, h \in Handles :
         shard_[s].handle[h].refs =
             Cardinality({u \in Users : /\ user[u].at = "using" /\ user[u].handle = h
                                        /\ Shard(user[u].file) = s})
             + (IF shard_[s].handle[h].in_cache THEN 1 ELSE 0)

\* In every shard the hash table, the two lists and usage_ agree on what is in the cache, no
\* key is there twice and every key is where a lookup goes.
CacheAgrees ==
    \A s \in Shards :
      LET c == shard_[s]
          in == {h \in Handles : c.handle[h].in_cache}
      IN  /\ ToSet(Elems(c.table)) = in /\ Len(Elems(c.table)) = Cardinality(in)
          /\ \A h \in in : TableLookup(c, c.handle[h].file) = h /\ Shard(c.handle[h].file) = s
          /\ ToSet(c.lru) = {h \in in : c.handle[h].refs = 1}
          /\ ToSet(c.in_use) = {h \in in : c.handle[h].refs > 1}
          /\ c.usage = Cardinality(in)
=============================================================================
