----------------------------- MODULE MCDBFiles -----------------------------
(* Scenarios of DBFiles for TLC. *)
EXTENDS DBFiles

\* Flushes, a compaction and two crashes, with a new log after each.
Crashes == [updates |-> 2, files |-> 8, crashes |-> 2, pinned |-> 0, errors |-> 0,
            reuse_logs |-> FALSE]
\* One update, with old logs and an old MANIFEST that go on being used.
Reuse == [Crashes EXCEPT !.updates = 1, !.files = 7, !.reuse_logs = TRUE]
\* An iterator that outlives compactions.
Iterators == [Crashes EXCEPT !.files = 9, !.crashes = 0, !.pinned = 1]
\* A failure of the file system and a crash.
Errors == [Crashes EXCEPT !.crashes = 1, !.errors = 1]

AllScenarios == {Crashes, Reuse, Iterators, Errors}

\* A crash of the machine right after the database was made.
CreationScenario == {[Crashes EXCEPT !.updates = 1, !.files = 4, !.crashes = 1]}
\* An append to the log fails, the next one does not, and the process ends.
TornScenario == {[Crashes EXCEPT !.crashes = 1, !.errors = 1]}
=============================================================================
