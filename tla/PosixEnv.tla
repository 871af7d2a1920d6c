------------------------------ MODULE PosixEnv ------------------------------
(***************************************************************************)
(* Lock files and background work of PosixEnv (util/env_posix.cc).  Processes *)
(* lock the database with fcntl, which knows processes and not threads, so    *)
(* each also keeps a table of the files it has locked.  Work is scheduled for *)
(* one background thread.                                                     *)
(***************************************************************************)
EXTENDS Integers, Sequences, FiniteSets

CONSTANTS Processes,    \* processes that open the database
          Callers,      \* threads of each process
          MaxWork       \* bound: work items scheduled

VARIABLES held,      \* the process that has the fcntl lock, as a set
          table,     \* whether locks_ of a process has the file
          locker,    \* what each thread of each process is doing
          collision, \* history: a process closed a descriptor while it had the lock
          background \* the work queue and the background thread

envVars == <<held, table, locker, collision, background>>

EnvInit ==
    /\ held = {} /\ collision = FALSE
    /\ table = [p \in Processes |-> FALSE]
    /\ locker = [c \in Processes \X Callers |-> "out"]
    /\ background = [queue |-> <<>>, scheduled |-> 0, done |-> <<>>, started |-> FALSE,
                     at |-> "check", item |-> 0, signal |-> FALSE]

Go(c, from, to) == locker[c] = from /\ locker' = [locker EXCEPT ![c] = to]

\* LockFile opens the file, ...
OpenLock(c) == Go(c, "out", "opened") /\ UNCHANGED <<held, table, collision, background>>

\* Mutant: the process does not look at its own table.
NoLockTable(c) ==
    /\ Go(c, "opened", "entered")
    /\ table' = [table EXCEPT ![c[1]] = TRUE]
    /\ UNCHANGED <<held, collision, background>>

\* ... enters it into the table; if it is there, the descriptor is closed again, and with it
\* goes every fcntl lock that the process has on the file; ...
InsertLock(c) ==
    /\ IF table[c[1]]
       THEN /\ Go(c, "opened", "out")
            /\ held' = held \ {c[1]} /\ collision' = (collision \/ c[1] \in held)
            /\ UNCHANGED table
       ELSE /\ Go(c, "opened", "entered")
            /\ table' = [table EXCEPT ![c[1]] = TRUE]
            /\ UNCHANGED <<held, collision>>
    /\ UNCHANGED background

\* ... and locks it.
FcntlLock(c) ==
    /\ IF held \subseteq {c[1]}
       THEN Go(c, "entered", "in") /\ held' = {c[1]} /\ UNCHANGED table
       ELSE /\ Go(c, "entered", "out")
            /\ table' = [table EXCEPT ![c[1]] = FALSE] /\ UNCHANGED held
    /\ UNCHANGED <<collision, background>>

\* UnlockFile: fcntl, the table, the descriptor.
Unlock(c) ==
    /\ Go(c, "in", "unlocked") /\ held' = held \ {c[1]}
    /\ UNCHANGED <<table, collision, background>>
RemoveLock(c) ==
    /\ Go(c, "unlocked", "removed") /\ table' = [table EXCEPT ![c[1]] = FALSE]
    /\ UNCHANGED <<held, collision, background>>
CloseLock(c) ==
    /\ Go(c, "removed", "out") /\ held' = held \ {c[1]}
    /\ collision' = (collision \/ c[1] \in held)
    /\ UNCHANGED <<table, background>>

Locking == \E c \in Processes \X Callers :
             \/ OpenLock(c) \/ InsertLock(c) \/ FcntlLock(c)
             \/ Unlock(c) \/ RemoveLock(c) \/ CloseLock(c)

-----------------------------------------------------------------------------
\* Mutant: the thread is woken when there was work already.
SignalIfBusy(b) == [b EXCEPT !.signal = @ \/ (b.at = "wait" /\ b.queue # <<>>)]

\* "If the queue is empty, the background thread may be waiting for work."
SignalIfEmpty(b) == [b EXCEPT !.signal = @ \/ (b.at = "wait" /\ b.queue = <<>>)]

\* Schedule starts the thread the first time.
Schedule ==
    /\ background.scheduled < MaxWork
    /\ background' = [SignalIfEmpty(background) EXCEPT
                          !.started = TRUE, !.scheduled = @ + 1,
                          !.queue = Append(@, background.scheduled + 1)]
    /\ UNCHANGED <<held, table, locker, collision>>

\* The loop of BackgroundThreadMain: it waits, or takes an item ...
BackgroundThreadMain ==
    LET b == background
    IN  /\ b.started /\ (b.at = "check" \/ (b.at = "wait" /\ b.signal))
        /\ background' = IF b.queue = <<>> THEN [b EXCEPT !.at = "wait", !.signal = FALSE]
                         ELSE [b EXCEPT !.at = "run", !.signal = FALSE,
                                        !.item = Head(b.queue), !.queue = Tail(b.queue)]
        /\ UNCHANGED <<held, table, locker, collision>>

\* ... and runs it, without the mutex.
RunWork ==
    /\ background.at = "run"
    /\ background' = [background EXCEPT !.at = "check", !.item = 0,
                                        !.done = Append(@, background.item)]
    /\ UNCHANGED <<held, table, locker, collision>>

Working == Schedule \/ BackgroundThreadMain \/ RunWork

EnvSpec == EnvInit /\ [][Locking \/ Working]_envVars

-----------------------------------------------------------------------------
\* Properties.

\* "Used to prevent concurrent access to the same db by multiple processes" (env.h): at most
\* one thread of one process has the database, as long as no process has closed another
\* descriptor of the file while it had the lock, which gave the lock away.
OneOwner ==
    collision \/ Cardinality({c \in Processes \X Callers : locker[c] = "in"}) <= 1

\* Work is done once and in the order in which it was scheduled.
WorkInOrder == \A i \in DOMAIN background.done : background.done[i] = i

\* All scheduled work is done, in that order.
WorkIsDone ==
    /\ \A n \in 1 .. MaxWork : background.scheduled = n ~> Len(background.done) >= n
    /\ []WorkInOrder
=============================================================================
