------------------------------- MODULE Repair -------------------------------
(***************************************************************************)
(* RepairDB (db/repair.cc): the logs are turned into tables, every table is   *)
(* scanned, damaged ones are copied, and a new MANIFEST lists the tables.     *)
(* Calls to the file system may fail, and the process may stop between any    *)
(* two steps and repair again.                                               *)
(*                                                                           *)
(* A file is <<kind, number>>.  A log is the sequence of the records its      *)
(* reader returns: [handed, small], the updates WriteBatch::Iterate hands     *)
(* over (only the first ones of a malformed batch) and whether the record is  *)
(* shorter than a batch header.  A table is [opens, entries, bad]: whether    *)
(* its footer and index can be read, its entries, and those in blocks that    *)
(* cannot be read.  An entry of type "bad" has a key that does not parse.     *)
(* Damage is in the file; a read may also fail once and succeed the next time. *)
(***************************************************************************)
EXTENDS InternalKey, TLC

CONSTANTS
    RepairDisks,    \* directories to start from: functions from files to contents
    RepairFaults,   \* how many calls to the file system fail
    RepairRuns      \* how often the program is run

VARIABLES
    disk,       \* the files of the database directory
    lost,       \* the files of its subdirectory "lost"
    repairer,   \* the fields of Repairer, and pc
    faults,     \* failures still to come
    runs,       \* runs still to come
    start       \* the entries that could be read at the start

repairVars == <<disk, lost, repairer, faults, runs, start>>

\* What can be read of a file.
Readable(file, contents) ==
    CASE file[1] \in {"ldb", "sst"} -> IF contents.opens THEN contents.entries \ contents.bad ELSE {}
      [] file[1] = "log" -> UNION {Range(r.handed) : r \in {x \in Range(contents) : ~x.small}}
      [] OTHER -> {}

ReadableIn(files) == UNION {Readable(f, files[f]) : f \in DOMAIN files}

NewRepairer ==
    [pc |-> "find", logs |-> <<>>, numbers |-> <<>>, manifests |-> <<>>, tables |-> <<>>,
     next |-> 1, info |-> <<>>, src |-> <<>>, copy |-> <<>>, skipped |-> FALSE]

RepairInit ==
    /\ disk \in RepairDisks /\ lost = <<>>
    /\ repairer = NewRepairer
    /\ faults = RepairFaults /\ runs = RepairRuns
    /\ start = ReadableIn(disk)

\* A call to the file system succeeds or, while there are failures to come, does not.
Outcomes == IF faults = 0 THEN {TRUE} ELSE BOOLEAN

Spent(ok) == faults' = IF ok THEN faults ELSE faults - 1

\* What is read if it succeeds, or fails once: the records of a log up to a block; of a table
\* what is not in the block, and nothing if the table was not opened.
LogReads(records, ok) == IF ok THEN {records} ELSE {SubSeq(records, 1, n) : n \in 0..Len(records)}
TableReads(entries, ok) == IF ok THEN {entries} ELSE SUBSET entries

Without(files, names) == [f \in DOMAIN files \ names |-> files[f]]

\* The orders in which the directory may list the files.
Orders(S) == {s \in [1..Cardinality(S) -> S] : Range(s) = S}

At(pc) == repairer.pc = pc

\* To the next log, the next table, or the descriptor.
Onward(r) == [r EXCEPT !.pc = IF r.logs # <<>> THEN "convert"
                              ELSE IF r.numbers # <<>> THEN "scan" ELSE "describe"]

-----------------------------------------------------------------------------

\* Mutant: the largest number found is given to the next file.
NumberOfLast(numbers) == Max({1} \cup numbers)

NumberAfter(numbers) == Max({1} \cup {n + 1 : n \in numbers})

FindFiles ==
    /\ At("find")
    /\ \E ok \in Outcomes :
          /\ Spent(ok)
          /\ IF ~ok THEN repairer' = [repairer EXCEPT !.pc = "failed"]
             ELSE LET Found(kinds) == {f \in DOMAIN disk : f[1] \in kinds}
                  IN  \E logs \in Orders(Found({"log"})), tables \in Orders(Found({"ldb", "sst"})),
                         manifests \in Orders(Found({"manifest"})) :
                         repairer' = Onward([repairer EXCEPT
                             !.logs = [i \in DOMAIN logs |-> logs[i][2]],
                             !.numbers = [i \in DOMAIN tables |-> tables[i][2]],
                             !.manifests = manifests,
                             !.next = NumberAfter({f[2] : f \in DOMAIN disk \ Found({"manifest"})})])
    /\ UNCHANGED <<disk, lost, runs, start>>

\* Move a file to the directory "lost"; that it cannot be moved is only logged.
ArchiveFile(files, ok) ==
    LET moved == IF ok THEN files \cap DOMAIN disk ELSE {}
    IN  /\ disk' = Without(disk, moved)
        /\ lost' = [f \in moved |-> disk[f]] @@ lost

\* The memtable goes into a new table.
IntoTable(entries, r) ==
    IF entries = {} THEN repairer' = [r EXCEPT !.next = @ + 1] /\ UNCHANGED disk
    ELSE /\ repairer' = [r EXCEPT !.next = @ + 1, !.pc = "build"]
         /\ disk' = (<<"ldb", r.next>> :> [opens |-> FALSE, entries |-> entries, bad |-> {}]) @@ disk

\* ConvertLogToTable: all records go into a memtable, those before a failing read if there is
\* one, and nothing if the log cannot be opened.
ConvertLogToTable ==
    /\ At("convert")
    /\ LET log == <<"log", Head(repairer.logs)>>
           r == [repairer EXCEPT !.pc = "archive_log"]
       IN  \E ok \in Outcomes :
              /\ Spent(ok)
              /\ \/ ~ok /\ repairer' = r /\ UNCHANGED disk
                 \/ \E records \in LogReads(disk[log], ok) : IntoTable(Readable(log, records), r)
    /\ UNCHANGED <<lost, runs, start>>

\* The rest of BuildTable: the table is finished, or its file deleted.
BuildTable ==
    /\ At("build")
    /\ \E ok \in Outcomes :
          /\ Spent(ok)
          /\ LET table == <<"ldb", repairer.next - 1>>
                 r == [repairer EXCEPT !.pc = "archive_log"]
             IN  IF ok
                 THEN /\ disk' = [disk EXCEPT ![table].opens = TRUE]
                      /\ repairer' = [r EXCEPT !.numbers = Append(@, table[2])]
                 ELSE disk' = Without(disk, {table}) /\ repairer' = r
    /\ UNCHANGED <<lost, runs, start>>

\* The log is archived whatever became of its conversion.
ArchiveLog ==
    /\ At("archive_log")
    /\ \E ok \in Outcomes :
          Spent(ok) /\ ArchiveFile({<<"log", Head(repairer.logs)>>}, ok)
    /\ repairer' = Onward([repairer EXCEPT !.logs = Tail(@)])
    /\ UNCHANGED <<runs, start>>

-----------------------------------------------------------------------------

\* What the loop over a table's iterator learns: keys that do not parse are passed over.
\* (complete is for the properties: nothing was missed that can be read.)
TableInfo(number, seen, size, complete) ==
    LET parsed == {e \in seen : e.type # "bad"}
    IN  [number |-> number, size |-> size,
         smallest |-> IF parsed = {} THEN <<>> ELSE <<FirstOf(parsed)>>,
         largest |-> IF parsed = {} THEN <<>> ELSE <<LastOf(parsed)>>,
         max_sequence |-> Max({0} \cup {e.seq : e \in parsed}),
         complete |-> complete]

\* ScanTable: a table is known by its number, so the file is looked for under both names.
ScanTable ==
    /\ At("scan")
    /\ LET n == Head(repairer.numbers)
           names == {<<"ldb", n>>, <<"sst", n>>}
           r == [repairer EXCEPT !.numbers = Tail(@)]
       IN  \E sized \in Outcomes :
              LET found == (IF sized THEN names ELSE {<<"sst", n>>}) \cap DOMAIN disk
              IN  /\ Spent(sized)
                  /\ IF found = {} THEN ArchiveFile(names, TRUE) /\ repairer' = Onward(r)
                     ELSE /\ repairer' = [r EXCEPT !.pc = "read", !.src =
                                             IF <<"ldb", n>> \in found THEN <<"ldb", n>> ELSE <<"sst", n>>]
                          /\ UNCHANGED <<disk, lost>>
    /\ UNCHANGED <<runs, start>>

\* Its loop.  A table that cannot be opened, or not be read to the end, now or for good, is
\* copied.
ReadTable ==
    /\ At("read")
    /\ LET table == disk[repairer.src]
       IN  \E ok \in Outcomes : \E seen \in TableReads(Readable(repairer.src, table), ok) :
              LET info == TableInfo(repairer.src[2], seen, Cardinality(table.entries), ok)
              IN  /\ Spent(ok)
                  /\ repairer' = IF ok /\ table.opens /\ table.bad = {}
                                 THEN Onward([repairer EXCEPT !.tables = Append(@, info)])
                                 ELSE [repairer EXCEPT !.pc = "copy", !.info = info]
    /\ UNCHANGED <<disk, lost, runs, start>>

\* RepairTable, up to the end of its loop: what can be read goes to a copy.  That the loop ended
\* with an error is not looked at.
RepairTable ==
    /\ At("copy")
    /\ LET r == [repairer EXCEPT !.next = @ + 1]
           copy == <<"ldb", repairer.next>>
       IN  \E ok \in Outcomes :
              /\ Spent(ok)
              /\ \/ ~ok /\ repairer' = Onward([r EXCEPT !.skipped = TRUE]) /\ UNCHANGED disk
                 \/ \E seen \in TableReads(Readable(r.src, disk[r.src]), ok) :
                       /\ disk' = (copy :> [opens |-> FALSE, bad |-> {}, entries |-> seen]) @@ disk
                       /\ repairer' = [r EXCEPT !.pc = "archive_source", !.copy = copy]
    /\ UNCHANGED <<lost, runs, start>>

ArchiveSource ==
    /\ At("archive_source")
    /\ \E ok \in Outcomes : Spent(ok) /\ ArchiveFile({repairer.src}, ok)
    /\ repairer' = [repairer EXCEPT !.pc = "finish"]
    /\ UNCHANGED <<runs, start>>

\* A copy without entries is abandoned, and stays behind as an empty file.
FinishCopy ==
    /\ At("finish")
    /\ \E ok \in Outcomes :
          /\ Spent(ok)
          /\ LET copy == repairer.copy
                 entries == disk[copy].entries
             IN  /\ disk' = IF ~ok THEN Without(disk, {copy})
                            ELSE IF entries = {} THEN disk ELSE [disk EXCEPT ![copy].opens = TRUE]
                 /\ repairer' = IF ok /\ entries # {}
                                THEN [repairer EXCEPT !.pc = "rename", !.info.size = Cardinality(entries)]
                                ELSE Onward(repairer)
    /\ UNCHANGED <<lost, runs, start>>

\* The copy takes the name of the table.
RenameCopy ==
    /\ At("rename")
    /\ \E ok \in Outcomes :
          /\ Spent(ok)
          /\ LET copy == repairer.copy
                 rest == Without(disk, {copy})
             IN  IF ok THEN /\ disk' = (<<"ldb", repairer.info.number>> :> disk[copy]) @@ rest
                            /\ repairer' = Onward([repairer EXCEPT !.tables = Append(@, repairer.info)])
                 ELSE disk' = rest /\ repairer' = Onward(repairer)
    /\ UNCHANGED <<lost, runs, start>>

-----------------------------------------------------------------------------

Temp == <<"dbtmp", 1>>
Manifest == <<"manifest", 1>>

\* The edit with every table in level 0 is written to a temporary file.
WriteDescriptor ==
    /\ At("describe")
    /\ \E ok \in Outcomes :
          /\ Spent(ok)
          /\ LET edit == [log_number |-> 0, next_file |-> repairer.next, files |-> repairer.tables,
                          last_sequence |-> Max({0} \cup {t.max_sequence : t \in Range(repairer.tables)})]
             IN  IF ok THEN /\ disk' = (Temp :> edit) @@ disk
                            /\ repairer' = [repairer EXCEPT !.pc = "discard"]
                 ELSE /\ disk' = Without(disk, {Temp})
                      /\ repairer' = [repairer EXCEPT !.pc = "failed"]
    /\ UNCHANGED <<lost, runs, start>>

DiscardManifests ==
    /\ At("discard") /\ repairer.manifests # <<>>
    /\ \E ok \in Outcomes : Spent(ok) /\ ArchiveFile({Head(repairer.manifests)}, ok)
    /\ repairer' = [repairer EXCEPT !.manifests = Tail(@)]
    /\ UNCHANGED <<runs, start>>

InstallManifest ==
    /\ At("discard") /\ repairer.manifests = <<>>
    /\ \E ok \in Outcomes :
          /\ Spent(ok)
          /\ disk' = IF ok THEN (Manifest :> disk[Temp]) @@ Without(disk, {Temp})
                     ELSE Without(disk, {Temp})
          /\ repairer' = [repairer EXCEPT !.pc = IF ok THEN "set_current" ELSE "failed"]
    /\ UNCHANGED <<lost, runs, start>>

\* SetCurrentFile
SetCurrent ==
    /\ At("set_current")
    /\ \E ok \in Outcomes :
          /\ Spent(ok)
          /\ disk' = IF ok THEN (<<"current", 0>> :> Manifest) @@ disk ELSE disk
          /\ repairer' = [repairer EXCEPT !.pc = IF ok THEN "done" ELSE "failed"]
    /\ UNCHANGED <<lost, runs, start>>

\* The program stopped, or reported an error, and is run again.
RunAgain ==
    /\ runs > 1 /\ ~At("done") /\ ~At("find")
    /\ runs' = runs - 1
    /\ repairer' = [NewRepairer EXCEPT !.skipped = repairer.skipped]
    /\ UNCHANGED <<disk, lost, faults, start>>

RepairNext ==
    \/ FindFiles \/ ConvertLogToTable \/ BuildTable \/ ArchiveLog
    \/ ScanTable \/ ReadTable \/ RepairTable \/ ArchiveSource \/ FinishCopy \/ RenameCopy
    \/ WriteDescriptor \/ DiscardManifests \/ InstallManifest \/ SetCurrent \/ RunAgain

-----------------------------------------------------------------------------

\* Every entry that could be read is in a file of the database or of "lost".
NothingDestroyed == start \subseteq ReadableIn(disk) \cup ReadableIn(lost)

\* The descriptor of a repair that succeeded: its tables are there with their sizes, and their
\* entries are within the bounds and at or below last_sequence, no number at or above next_file
\* is in use, and what can be read is in the tables, in a log that will be replayed, or archived
\* after an error.  Two cases are wrong in the code and are left out.  A damaged table whose copy
\* could not be created stays out of the descriptor.  A table that could not be read to the end,
\* but could be when it was copied, is listed with the bounds and the largest sequence number of
\* what was read first.
DescriptorIsRight ==
    At("done") =>
        LET edit == disk[disk[<<"current", 0>>]]
            numbers == {t.number : t \in Range(edit.files)}
            incomplete == {t.number : t \in {u \in Range(edit.files) : ~u.complete}}
            tables == {f \in DOMAIN disk : f[1] \in {"ldb", "sst"} /\ f[2] \in numbers}
            listed == UNION {Readable(f, disk[f]) : f \in tables}
            logs == UNION {Readable(f, disk[f]) : f \in {g \in DOMAIN disk : g[1] = "log"}}
            archived == IF faults = RepairFaults /\ runs = RepairRuns THEN {} ELSE ReadableIn(lost)
            Within(e, first, last) == ~Before(e, first) /\ ~Before(last, e)
            Parsed(f) == {e \in disk[f].entries : e.type # "bad"}
        IN  /\ \A t \in Range(edit.files) : \E f \in tables :
                  /\ f[2] = t.number /\ disk[f].opens /\ t.size = Cardinality(disk[f].entries)
                  /\ t.complete => \A e \in Parsed(f) : t.smallest # <<>> /\ Within(e, t.smallest[1], t.largest[1])
            /\ \A f \in tables : f[2] \notin incomplete =>
                  \A e \in Readable(f, disk[f]) : e.type # "bad" => e.seq <= edit.last_sequence
            /\ \A f \in DOMAIN disk : f[1] \in {"ldb", "sst", "log"} => f[2] < edit.next_file
            /\ ~repairer.skipped => start \subseteq listed \cup logs \cup archived

\* Repair destroys nothing it can read and installs a description of the files that are there,
\* wherever it stops, and if one call fails anywhere.  (If two do, a read of RepairTable's loop and
\* the ArchiveFile behind it, the copy that lacks entries takes the place of the table.)
RepairKeepsData == NothingDestroyed /\ DescriptorIsRight
=============================================================================
