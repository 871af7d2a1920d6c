---------------------------- MODULE MCConcurrent ----------------------------
(***************************************************************************)
(* The parts of LevelDB that threads and processes share, one at a time:      *)
(* writers and the background thread, the skip list, the arena, the table     *)
(* cache, files, locks and background work; and the way of a rating to the    *)
(* server.  A behaviour runs one of them.                                      *)
(***************************************************************************)
EXTENDS DBWrite, SkipList, Arena, LRUCache, PosixFile, PosixEnv, Ratings

VARIABLE component

Components == {"write", "skiplist", "arena", "cache", "file", "limiter", "lock", "work",
               "rating"}

allVars == <<writeVars, skipVars, arenaVars, cacheVars, fileVars, envVars, ratingVars, component>>

Init ==
    /\ component \in Components
    /\ IF component = "write" THEN \E c \in Calls : WriteInit(c)
       ELSE WriteInit(CHOOSE c \in Calls : TRUE)
    /\ IF component = "cache" THEN \E capacity \in Capacities : CacheInit(capacity)
       ELSE CacheInit(0)
    /\ SkipInit /\ ArenaInit /\ FileInit /\ EnvInit /\ RatingInit
    /\ component # "file" => wfile.name = CHOOSE n \in FileNames : TRUE

Next ==
    /\ \/ component = "write" /\ WriteNext
          /\ UNCHANGED <<skipVars, arenaVars, cacheVars, fileVars, envVars, ratingVars>>
       \/ component = "skiplist" /\ SkipNext
          /\ UNCHANGED <<writeVars, arenaVars, cacheVars, fileVars, envVars, ratingVars>>
       \/ component = "arena" /\ ArenaNext
          /\ UNCHANGED <<writeVars, skipVars, cacheVars, fileVars, envVars, ratingVars>>
       \/ component = "cache" /\ CacheNext
          /\ UNCHANGED <<writeVars, skipVars, arenaVars, fileVars, envVars, ratingVars>>
       \/ component = "file" /\ (Writing \/ Reading)
          /\ UNCHANGED <<writeVars, skipVars, arenaVars, cacheVars, envVars, ratingVars>>
       \/ component = "limiter" /\ Opening
          /\ UNCHANGED <<writeVars, skipVars, arenaVars, cacheVars, envVars, ratingVars>>
       \/ component = "lock" /\ Locking
          /\ UNCHANGED <<writeVars, skipVars, arenaVars, cacheVars, fileVars, ratingVars>>
       \/ component = "work" /\ Working
          /\ UNCHANGED <<writeVars, skipVars, arenaVars, cacheVars, fileVars, ratingVars>>
       \/ component = "rating" /\ RatingNext
          /\ UNCHANGED <<writeVars, skipVars, arenaVars, cacheVars, fileVars, envVars>>
    /\ UNCHANGED component

\* The threads of the database are scheduled, and the mutex is free again and again.  Nobody
\* need call Close.
WriteFairness ==
    /\ \A t \in Threads : WF_allVars(component = "write" /\ Thread(t)
                                         /\ UNCHANGED <<skipVars, arenaVars, cacheVars, fileVars,
                                                        envVars, ratingVars, component>>)
    /\ WF_allVars(component = "write" /\ (Background \/ Closed)
                     /\ UNCHANGED <<skipVars, arenaVars, cacheVars, fileVars, envVars, ratingVars, component>>)

\* The background thread of PosixEnv is scheduled.
EnvFairness ==
    WF_allVars(component = "work" /\ (BackgroundThreadMain \/ RunWork)
                 /\ UNCHANGED <<writeVars, skipVars, arenaVars, cacheVars, fileVars,
                                ratingVars, component>>)

\* The shared queue runs what is on it, a scheduled attempt is made, and the server answers as
\* long as the connection lasts.
RatingFairness ==
    WF_allVars(component = "rating" /\ RatingProgress
                 /\ UNCHANGED <<writeVars, skipVars, arenaVars, cacheVars, fileVars, envVars,
                                component>>)

Spec == Init /\ [][Next]_allVars /\ WriteFairness /\ EnvFairness /\ RatingFairness

-----------------------------------------------------------------------------
\* Values for TLC.

Batch(n, s) == [batch |-> n, compact |-> FALSE, sync |-> s]
CompactMemTable == [batch |-> 0, compact |-> TRUE, sync |-> FALSE]

\* Three threads: a sync write among others, a call that compacts the memtable, and a sync
\* write that takes others along.
SomeCalls ==
    {[t1 |-> Batch(2, FALSE), t2 |-> Batch(1, TRUE), t3 |-> Batch(1, FALSE)],
     [t1 |-> Batch(2, FALSE), t2 |-> Batch(1, FALSE), t3 |-> CompactMemTable],
     [t1 |-> Batch(1, TRUE), t2 |-> Batch(1, FALSE), t3 |-> Batch(1, FALSE)]}

\* A MANIFEST in a directory and one without, and a log of a database called MANIFEST-db.
FileName(path, dir, manifest) == [path |-> path, dir |-> dir, manifest |-> manifest]
SomeFileNames ==
    {FileName(<<"a", "/", "db", "/", "MANIFEST", "-1">>, <<"a", "/", "db">>, TRUE),
     FileName(<<"MANIFEST", "-1">>, <<".">>, TRUE),
     FileName(<<"MANIFEST", "-db", "/", "1.log">>, <<"MANIFEST", "-db">>, FALSE)}

\* Hashes of three bits: two of the keys go to the first shard and collide there as long as
\* the hash table has two buckets.
SomeHash(file) == <<0, 2, 5>>[file]
=============================================================================
