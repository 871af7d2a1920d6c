------------------------------ MODULE MCDBTree ------------------------------
(* Workloads of DBTree for TLC. *)
EXTENDS DBTree

\* Updates and deletions under a snapshot.
Snapshots == [types |-> Types, updates |-> 4, snapshots |-> 1, seeks |-> FALSE,
              ranges |-> {}, compactions |-> 0]
\* Reads that charge files with their seeks.  One of the present finds its key in the first
\* file, when there are two keys; one of a snapshot may have to go on.
Seeks == [Snapshots EXCEPT !.types = {"value"}, !.seeks = TRUE]
\* Manual compaction of the whole range, of the part from a key on, of a single key.
Manual == [types |-> {"value"}, updates |-> 4, snapshots |-> 0, seeks |-> FALSE,
           ranges |-> {<<BeginKey, EndKey>>, <<2, EndKey>>, <<1, 1>>}, compactions |-> 1]

AllWorkloads == {Snapshots, Seeks, Manual}

\* Manual compaction of files that leave a gap between them.
GapWorkload == {[types |-> {"value"}, updates |-> 5, snapshots |-> 0, seeks |-> FALSE,
                 ranges |-> {<<BeginKey, EndKey>>}, compactions |-> 1]}

\* A key deleted while a snapshot is held.
DeleteWorkload == {Snapshots}
=============================================================================
