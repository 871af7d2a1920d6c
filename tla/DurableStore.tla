---------------------------- MODULE DurableStore ----------------------------
(***************************************************************************)
(* What LevelDB promises of its updates (include/leveldb/options.h,          *)
(* WriteOptions::sync).  An open store holds a set of updates.  An update    *)
(* that was acknowledged stays, also when the process ends; when the machine *)
(* crashes, only those acknowledged after a sync must.                       *)
(***************************************************************************)
EXTENDS Naturals

CONSTANT Updates

VARIABLES open,    \* whether the store is open
          store,   \* the updates an open store holds
          acked,   \* those that must be there after the process ends
          synced   \* those that must be there after the machine crashes

vars == <<open, store, acked, synced>>

Init == open = FALSE /\ store = {} /\ acked = {} /\ synced = {}

\* A write is applied and acknowledged, with or without a sync.
Put(u, sync) ==
    /\ open /\ u \notin store
    /\ store' = store \cup {u} /\ acked' = acked \cup {u}
    /\ synced' = IF sync THEN synced \cup {u} ELSE synced
    /\ UNCHANGED open

\* The process ends, or the machine stops.
Exit == open /\ open' = FALSE /\ store' = {} /\ UNCHANGED <<acked, synced>>
MachineCrash == open' = FALSE /\ store' = {} /\ acked' = synced /\ UNCHANGED synced

\* The store is opened again: with all that it must hold, and perhaps with updates that
\* were written and need not have stayed.
Reopen == /\ ~open /\ open' = TRUE
          /\ store' \in {s \in SUBSET Updates : acked \subseteq s}
          /\ UNCHANGED <<acked, synced>>

\* The database is destroyed, and with it what was promised.
Destroy == ~open /\ acked' = {} /\ synced' = {} /\ UNCHANGED <<open, store>>

Next == (\E u \in Updates, sync \in BOOLEAN : Put(u, sync)) \/ Exit \/ MachineCrash \/ Reopen
        \/ Destroy

Spec == Init /\ [][Next]_vars
=============================================================================
