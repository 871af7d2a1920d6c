------------------------------ MODULE DBFiles ------------------------------
(***************************************************************************)
(* The files of a LevelDB database and how they survive (db/db_impl.cc,      *)
(* db/version_set.cc): log files, tables, MANIFEST files and CURRENT;        *)
(* opening and recovery, flushes, compactions, garbage collection, failures  *)
(* of writes, the end of the process and crashes of the machine at any point.*)
(* Of an update only its sequence number and its identity are kept.           *)
(*                                                                           *)
(* The disk: creating, renaming and deleting files lasts at once and in      *)
(* order; of a file that was not synced, any prefix from the synced one on    *)
(* may survive a crash, and it may end inside a record.                      *)
(***************************************************************************)
EXTENDS Integers, Sequences, FiniteSets, FiniteSetsExt, SequencesExt, Functions

CONSTANTS MaxUpdates,       \* bound: writes in a behaviour
          Scenarios,        \* bounds and options of a behaviour
          UnsyncedCrashes,  \* whether the machine may crash while the database rests on
                            \* records of a MANIFEST that were never synced
          TornAppends       \* whether a record may be appended behind an unfinished one

\* The highest file number, the ends of the process or of the machine, iterators alive at
\* once, failures of the file system, and Options::reuse_logs.
Scenario == [updates : 0 .. MaxUpdates, files : Nat, crashes : Nat, pinned : Nat,
             errors : Nat, reuse_logs : BOOLEAN]

ASSUME FilesAssumption ==
    /\ MaxUpdates \in Nat /\ UnsyncedCrashes \in BOOLEAN /\ TornAppends \in BOOLEAN
    /\ \A s \in Scenarios : s \in Scenario

VARIABLES current,    \* the MANIFEST that CURRENT names; 0 if there is no CURRENT
          manifests,  \* number -> [records : sequence of edits, synced : length]
          logs,       \* number -> [records : sequence of updates, synced : length]
          tables,     \* number -> [data : set of updates, complete : BOOLEAN]
          torn,       \* <<"log" or "manifest", number, k>>: behind record k of that file
                      \* there is the beginning of a record that was not finished
          db,         \* the incarnation of DBImpl and VersionSet
          written,    \* history: writes so far
          acked, synced, \* history: updates acknowledged, and those after a sync
          relied,     \* history: records of CURRENT's MANIFEST that were in use, synced or
                      \* not, when CURRENT or the descriptor was opened for more
          crashes, errors, bounds

diskVars == <<current, manifests, logs, tables, torn>>
promised == <<written, acked, synced, bounds>>
history == <<promised, relied>>
vars == <<diskVars, db, history, crashes, errors>>

-----------------------------------------------------------------------------
\* Records and states.

Updates == [id : 1 .. MaxUpdates, seq : 1 .. MaxUpdates]

\* VersionEdit; -1 stands for a field that is not set.
NoEdit == [log_number |-> -1, next_file |-> -1, last_sequence |-> -1,
           added |-> {}, deleted |-> {}]
NewDBEdit == [NoEdit EXCEPT !.log_number = 0, !.next_file = 2, !.last_sequence = 0]

\* An object DBImpl before Recover.
NewIncarnation ==
    [phase |-> "down",        \* down, new_db, recover, replay, open, failed
     version |-> {},          \* tables of the current version
     pinned |-> <<>>,         \* versions that iterators hold
     log_number |-> 0, logfile |-> 0, next_file |-> 2, last_sequence |-> 0,
     manifest |-> 0,          \* manifest_file_number_
     descriptor |-> FALSE,    \* descriptor_log_ is open
     mem |-> {}, imm |-> {}, has_imm |-> FALSE,
     pending |-> {},          \* pending_outputs_
     bg_error |-> FALSE,
     save_manifest |-> FALSE, edit |-> NoEdit, logs_left |-> {},
     job |-> "none",          \* open, flush or merge: who is in LogAndApply or before it
     step |-> "none",         \* where: table, manifest, append, sync, current, install
     output |-> 0,            \* the table being built
     merge |-> [inputs |-> {}, output |-> 0]] \* the compaction under way

File(content) == [records |-> content, synced |-> 0]

\* The files after a file was made, or made again.
Make(files, number, file) ==
    [n \in DOMAIN files \cup {number} |-> IF n = number THEN file ELSE files[n]]

Init ==
    /\ current = 0 /\ manifests = <<>> /\ logs = <<>> /\ tables = <<>> /\ torn = {}
    /\ db = NewIncarnation
    /\ written = 0 /\ acked = {} /\ synced = {} /\ relied = 0 /\ crashes = 0 /\ errors = 0
    /\ bounds \in Scenarios

\* The updates that reads find.
Contents == db.mem \cup db.imm \cup UNION {tables[n].data : n \in db.version}

HasNumber == db.next_file <= bounds.files

-----------------------------------------------------------------------------
\* Unfinished records.  An append that fails, or is cut off by the end of the process, leaves
\* the beginning of its record in the file (log::Writer writes header and payload apart).

\* A file that is made, or made again, has none.
Fresh(kind, number) == {t \in torn : <<t[1], t[2]>> # <<kind, number>>}

TornBehind(kind, number, records) == <<kind, number, Len(records)>> \in torn

MayAppend(kind, number, records) == TornAppends \/ ~TornBehind(kind, number, records)

\* At most the last record is unfinished.
Sound(kind, number, records) ==
    \A t \in torn : <<t[1], t[2]>> = <<kind, number>> => t[3] >= Len(records)

\* log::Reader.  An unfinished record at the end of the file is taken for the end.  Behind one
\* in the middle the header of the unfinished record claims bytes of the next ones, and up to
\* the end of the block, or of the file, what is there is dropped: how many records, depends on
\* lengths that are not modelled.
Reads(kind, number, records) ==
    IF Sound(kind, number, records) THEN {records}
    ELSE LET first == Min({t[3] : t \in {u \in torn : <<u[1], u[2]>> = <<kind, number>>}})
         IN  {SubSeq(records, 1, first) \o rest :
                 rest \in AllSubSeqs(SubSeq(records, first + 1, Len(records)))}

\* Of a MANIFEST a damaged record is reported, and then nothing of it counts (<<>>).
ManifestReads ==
    LET records == IF current \in DOMAIN manifests THEN manifests[current].records ELSE <<>>
    IN  Reads("manifest", current, records)
            \cup (IF Sound("manifest", current, records) THEN {} ELSE {<<>>})

-----------------------------------------------------------------------------
\* DB::Open.

\* NewDB writes MANIFEST-000001, which it closes without a sync, ...
NewDB ==
    /\ db.phase = "down" /\ current = 0
    /\ manifests' = Make(manifests, 1, File(<<NewDBEdit>>)) /\ torn' = Fresh("manifest", 1)
    /\ db' = [db EXCEPT !.phase = "new_db"]
    /\ UNCHANGED <<current, logs, tables, history, crashes, errors>>

\* ... and then CURRENT.
NewDBCurrent ==
    /\ db.phase = "new_db"
    /\ current' = 1 /\ relied' = 1
    /\ db' = [db EXCEPT !.phase = "recover"]
    /\ UNCHANGED <<manifests, logs, tables, torn, promised, crashes, errors>>

\* The last value that the edits give a field.
LastOf(edits, field) ==
    LET set == {i \in DOMAIN edits : edits[i][field] # -1}
    IN  IF set = {} THEN -1 ELSE edits[Max(set)][field]

\* The tables that are there after the edits: added by one of them and not deleted later.
FilesOf(edits) ==
    {n \in UNION {edits[i].added : i \in DOMAIN edits} :
        \E i \in DOMAIN edits : n \in edits[i].added /\ \A j \in DOMAIN edits : j > i => n \notin edits[j].deleted}

\* MarkFileNumberUsed.
NextAfter(next, number) == IF next <= number THEN number + 1 ELSE next

\* The logs whose updates are not all in tables.
NeededLogs(log_number, d) == {n \in DOMAIN logs : n >= log_number}

\* ReuseManifest: an old MANIFEST goes on being used if that is allowed and it is not large.
ReuseManifest == {FALSE, bounds.reuse_logs}

\* What the edits read from the MANIFEST lead to.
RecoverFrom(edits) ==
    LET log   == LastOf(edits, "log_number")
        next  == LastOf(edits, "next_file")
        last  == LastOf(edits, "last_sequence")
        files == FilesOf(edits)
        found == DOMAIN tables \cup DOMAIN logs \cup DOMAIN manifests
    IN  IF -1 \in {log, next, last} \/ ~(files \subseteq found)
        THEN db' = [db EXCEPT !.phase = "failed"] /\ UNCHANGED relied
        ELSE \E reuse \in ReuseManifest :
             /\ db' = [db EXCEPT !.phase = "replay", !.version = files,
                         !.log_number = log, !.last_sequence = last,
                         !.next_file = next + 1,
                         !.manifest = IF reuse THEN current ELSE next,
                         !.descriptor = reuse, !.save_manifest = ~reuse,
                         !.logs_left = NeededLogs(log, db)]
             /\ relied' = IF reuse THEN Len(manifests[current].records) ELSE relied

\* VersionSet::Recover, and of DBImpl::Recover what comes before the logs.
Recover ==
    /\ db.phase = "recover" \/ (db.phase = "down" /\ current # 0)
    /\ \E edits \in ManifestReads : RecoverFrom(edits)
    /\ UNCHANGED <<diskVars, promised, crashes, errors>>

\* Mutant: the descriptor's sequence number is taken for the last one.
LastKnown(records, last) == last

\* The highest sequence number in a log.
MaxSeq(records, last) == Max({last} \cup {u.seq : u \in ToSet(records)})

\* The records read from a log.  Memtables that fill up while it is read go into tables of
\* level 0 (one table stands for them), and so does the last one, unless none filled up and the
\* log is the last and goes on being used.
ReplayLog(n, records) ==
    \E full \in 0 .. Len(records) :
    LET parts == <<SubSeq(records, 1, full), SubSeq(records, full + 1, Len(records))>>
        db1   == [db EXCEPT !.logs_left = @ \ {n}, !.last_sequence = MaxSeq(records, @)]
        new   == {i \in 1 .. 2 : parts[i] # <<>>}
        number(i) == IF i = 2 /\ 1 \in new THEN db.next_file + 1 ELSE db.next_file
        made  == {number(i) : i \in new}
    IN  \/ /\ bounds.reuse_logs /\ db.logs_left = {n} /\ full = 0
           /\ db' = [db1 EXCEPT !.logfile = n, !.mem = ToSet(parts[2]),
                                !.next_file = NextAfter(@, n)]
           /\ UNCHANGED tables
        \/ /\ tables' = [k \in DOMAIN tables \cup made |->
                           IF k \notin made THEN tables[k]
                           ELSE [data |-> UNION {ToSet(parts[i]) : i \in {j \in new : number(j) = k}},
                                 complete |-> TRUE]]
           /\ db' = [db1 EXCEPT !.edit.added = @ \cup made,
                                !.save_manifest = @ \/ new # {},
                                !.next_file = NextAfter(@ + Cardinality(new), n)]

\* RecoverLogFile for the oldest log left.  Damage is not reported: paranoid_checks is off.
RecoverLogFile ==
    /\ db.phase = "replay" /\ db.logs_left # {} /\ HasNumber
    /\ LET n == Min(db.logs_left)
       IN  \E records \in Reads("log", n, logs[n].records) : ReplayLog(n, records)
    /\ UNCHANGED <<current, manifests, logs, torn, history, crashes, errors>>

\* LogAndApply up to its writes: the edit also says where the numbers are.
StartLogAndApply(d, job, edit) ==
    [d EXCEPT !.job = job, !.step = IF d.descriptor THEN "append" ELSE "manifest",
              !.edit = [edit EXCEPT !.next_file = d.next_file,
                                    !.last_sequence = d.last_sequence]]

\* Open makes a new log, unless an old one goes on, and saves the descriptor if something
\* has changed.
OpenLog ==
    /\ db.phase = "replay" /\ db.logs_left = {} /\ db.job = "none" /\ HasNumber
    /\ LET fresh == db.logfile = 0
           n     == IF fresh THEN db.next_file ELSE db.logfile
           db1   == [db EXCEPT !.logfile = n, !.next_file = IF fresh THEN @ + 1 ELSE @]
       IN  /\ logs' = IF fresh THEN Make(logs, n, File(<<>>)) ELSE logs
           /\ torn' = IF fresh THEN Fresh("log", n) ELSE torn
           /\ db' = IF db.save_manifest
                    THEN StartLogAndApply(db1, "open", [db1.edit EXCEPT !.log_number = n])
                    ELSE [db1 EXCEPT !.job = "open", !.step = "opened"]
    /\ UNCHANGED <<current, manifests, tables, history, crashes, errors>>

-----------------------------------------------------------------------------
\* VersionSet::LogAndApply.  The new version is made of the current one and the edit.

\* A new MANIFEST starts with a snapshot of the current version.
WriteSnapshot == <<[NoEdit EXCEPT !.added = db.version]>>

CreateManifest ==
    /\ db.step = "manifest"
    /\ manifests' = Make(manifests, db.manifest, File(WriteSnapshot))
    /\ torn' = Fresh("manifest", db.manifest)
    /\ db' = [db EXCEPT !.step = "append"]
    /\ UNCHANGED <<current, logs, tables, history, crashes, errors>>

AppendEdit ==
    /\ db.step = "append" /\ MayAppend("manifest", db.manifest, manifests[db.manifest].records)
    /\ manifests' = [manifests EXCEPT ![db.manifest].records = Append(@, db.edit)]
    /\ db' = [db EXCEPT !.step = "sync"]
    /\ UNCHANGED <<current, logs, tables, torn, history, crashes, errors>>

\* Mutant: CURRENT is written first.
CurrentBeforeSync ==
    /\ db.step = "sync"
    /\ db' = [db EXCEPT !.step = IF db.descriptor THEN "install" ELSE "current"]
    /\ UNCHANGED <<diskVars, history, crashes, errors>>

SyncManifest ==
    /\ db.step = "sync"
    /\ manifests' = [manifests EXCEPT ![db.manifest].synced =
                                          Len(manifests[db.manifest].records)]
    /\ db' = [db EXCEPT !.step = IF db.descriptor THEN "install" ELSE "current"]
    /\ UNCHANGED <<current, logs, tables, torn, history, crashes, errors>>

\* SetCurrentFile: a synced temporary file is renamed to CURRENT.
SetCurrentFile ==
    /\ db.step = "current"
    /\ current' = db.manifest /\ relied' = 0
    /\ db' = [db EXCEPT !.step = "install", !.descriptor = TRUE]
    /\ UNCHANGED <<manifests, logs, tables, torn, promised, crashes, errors>>

\* What DeleteObsoleteFiles keeps: AddLiveFiles and the pending outputs, the logs from
\* LogNumber on, the current MANIFEST and later ones.
Live(d) == d.pending \cup d.version \cup UNION ToSet(d.pinned)

\* DeleteObsoleteFiles.  Errors of DeleteFile are ignored and a crash may come before: the
\* files may also stay.
DeleteObsoleteFiles(d) ==
    \/ UNCHANGED diskVars
    \/ /\ ~d.bg_error
       /\ tables' = Restrict(tables, DOMAIN tables \cap Live(d))
       /\ logs' = Restrict(logs, NeededLogs(d.log_number, d))
       /\ manifests' = Restrict(manifests, {n \in DOMAIN manifests : n >= d.manifest})
       /\ UNCHANGED <<current, torn>>

AppendVersion(d) == [d EXCEPT !.version = (@ \ d.edit.deleted) \cup d.edit.added]

CleanupCompaction(d) ==
    [d EXCEPT !.pending = @ \ {d.merge.output}, !.merge = NewIncarnation.merge]

\* The version is installed, and the caller of LogAndApply goes on: a flush drops imm_, a
\* merge is cleaned up, Open is over.
Install ==
    /\ db.step = "install"
    /\ LET d == [AppendVersion(db) EXCEPT
                    !.log_number = db.edit.log_number, !.edit = NoEdit, !.job = "none",
                    !.step = "none", !.output = 0, !.save_manifest = FALSE]
           e == CASE db.job = "open"  -> [d EXCEPT !.phase = "open"]
                  [] db.job = "flush" -> [d EXCEPT !.imm = {}, !.has_imm = FALSE]
                  [] db.job = "merge" -> CleanupCompaction(d)
       IN  db' = e /\ DeleteObsoleteFiles(e)
    /\ UNCHANGED <<history, crashes, errors>>

\* Open with nothing to save.
Opened ==
    /\ db.step = "opened"
    /\ LET d == [db EXCEPT !.phase = "open", !.job = "none", !.step = "none"]
       IN  db' = d /\ DeleteObsoleteFiles(d)
    /\ UNCHANGED <<history, crashes, errors>>

Fails == errors < bounds.errors /\ errors' = errors + 1

\* A background job gives up: RecordBackgroundError, and nothing is collected any more.
GiveUp(d) ==
    LET e == [d EXCEPT !.bg_error = TRUE, !.step = "none", !.job = "none",
                       !.edit = NoEdit, !.output = 0]
    IN  IF d.job = "flush" THEN e ELSE CleanupCompaction(e)

\* An error while the MANIFEST is written: it may hold the edit, a part of it or nothing.  An
\* open fails and removes a MANIFEST it made.  A merge under way goes on after the error of a
\* flush, and appends its own edit behind.
LogAndApplyFails ==
    /\ db.step \in {"manifest", "append", "sync", "current"} /\ Fails
    /\ IF db.job = "open"
       THEN /\ db' = NewIncarnation
            /\ manifests' = IF db.descriptor THEN manifests
                            ELSE Restrict(manifests, DOMAIN manifests \ {db.manifest})
       ELSE db' = GiveUp(db) /\ UNCHANGED manifests
    /\ torn' = IF db.step = "append" /\ db.descriptor
               THEN torn \cup {<<"manifest", db.manifest, Len(manifests[db.manifest].records)>>}
               ELSE torn
    /\ UNCHANGED <<current, logs, tables, history, crashes>>

\* NewDB removes a MANIFEST that it could not write, and Open fails.
NewDBFails ==
    /\ db.phase = "new_db" /\ Fails
    /\ db' = NewIncarnation
    /\ manifests' = Restrict(manifests, DOMAIN manifests \ {1})
    /\ UNCHANGED <<current, logs, tables, torn, history, crashes>>

\* BuildTable fails and removes the table, or a compaction fails and leaves it behind.
TableFails ==
    /\ Fails
    /\ \/ /\ db.job = "flush" /\ db.step = "table"
          /\ db' = GiveUp([db EXCEPT !.pending = @ \ {db.output}])
          /\ tables' = Restrict(tables, DOMAIN tables \ {db.output})
       \/ /\ db.job = "none" /\ db.merge.output # 0
          /\ db' = GiveUp([db EXCEPT !.job = "merge"])
          /\ UNCHANGED tables
    /\ UNCHANGED <<current, manifests, logs, torn, history, crashes>>

-----------------------------------------------------------------------------
\* The open database.

\* A writer may be in log::Writer::AddRecord.
WriteStarts ==
    /\ db.phase = "open" /\ ~db.bg_error /\ written < bounds.updates
    /\ MayAppend("log", db.logfile, logs[db.logfile].records)

\* Write: the record is appended to the log and, if asked for, synced.
Write(sync) ==
    /\ WriteStarts
    /\ LET u == [id |-> written + 1, seq |-> db.last_sequence + 1]
           records == Append(logs[db.logfile].records, u)
       IN  /\ logs' = [logs EXCEPT ![db.logfile] =
                           [records |-> records,
                            synced |-> IF sync THEN Len(records) ELSE @.synced]]
           /\ db' = [db EXCEPT !.mem = @ \cup {u}, !.last_sequence = @ + 1]
           /\ written' = written + 1
           /\ acked' = acked \cup {u}
           /\ synced' = IF sync THEN synced \cup {u} ELSE synced
    /\ UNCHANGED <<current, manifests, tables, torn, bounds, relied, crashes, errors>>

\* A sync that fails: the record may be in the log, the caller gets the error, and all
\* later writes fail.
SyncFails ==
    /\ WriteStarts /\ Fails
    /\ LET u == [id |-> written + 1, seq |-> db.last_sequence + 1]
       IN  logs' = [logs EXCEPT ![db.logfile].records = Append(@, u)]
    /\ db' = [db EXCEPT !.last_sequence = @ + 1, !.bg_error = TRUE]
    /\ written' = written + 1
    /\ UNCHANGED <<current, manifests, tables, torn, acked, synced, bounds, relied, crashes>>

\* An append that fails, asked to sync or not: the caller gets the error, and that is all.  It
\* is no background error, and later writes go on in the same log.
WriteFails ==
    /\ WriteStarts /\ Fails
    /\ torn' = torn \cup {<<"log", db.logfile, Len(logs[db.logfile].records)>>}
    /\ db' = [db EXCEPT !.last_sequence = @ + 1]
    /\ written' = written + 1
    /\ UNCHANGED <<current, manifests, logs, tables, acked, synced, bounds, relied, crashes>>

\* The last branch of MakeRoomForWrite: a new log and a new memtable.
SwitchMemTable ==
    /\ db.phase = "open" /\ ~db.bg_error /\ ~db.has_imm /\ HasNumber
    /\ logs' = Make(logs, db.next_file, File(<<>>)) /\ torn' = Fresh("log", db.next_file)
    /\ db' = [db EXCEPT !.logfile = db.next_file, !.next_file = @ + 1,
                        !.imm = db.mem, !.has_imm = TRUE, !.mem = {}]
    /\ UNCHANGED <<current, manifests, tables, history, crashes, errors>>

\* NewIterator keeps the version it was made from, until it is deleted.
NewIterator ==
    /\ db.phase = "open" /\ Len(db.pinned) < bounds.pinned
    /\ db' = [db EXCEPT !.pinned = Append(@, db.version)]
    /\ UNCHANGED <<diskVars, history, crashes, errors>>

DeleteIterator(i) ==
    /\ db.phase = "open"
    /\ db' = [db EXCEPT !.pinned = RemoveAt(@, i)]
    /\ UNCHANGED <<diskVars, history, crashes, errors>>

\* CompactMemTable, also in the middle of a merge, and there even after an error.
\* WriteLevel0Table and BuildTable: the
\* table is written, synced and taken out of pending_outputs_ before the version is logged.
StartFlush ==
    /\ db.phase = "open" /\ db.has_imm /\ db.job = "none" /\ HasNumber
    /\ db.bg_error => db.merge.output # 0
    /\ tables' = IF db.imm = {} THEN tables
                 ELSE Make(tables, db.next_file, [data |-> db.imm, complete |-> FALSE])
    /\ db' = [db EXCEPT !.job = "flush", !.step = "table", !.output = db.next_file,
                        !.next_file = @ + 1, !.pending = @ \cup {db.next_file}]
    /\ UNCHANGED <<current, manifests, logs, torn, history, crashes, errors>>

FinishFlush ==
    /\ db.job = "flush" /\ db.step = "table"
    /\ tables' = IF db.imm = {} THEN tables
                 ELSE [tables EXCEPT ![db.output].complete = TRUE]
    /\ db' = StartLogAndApply([db EXCEPT !.pending = @ \ {db.output}], "flush",
                 [NoEdit EXCEPT !.log_number = db.logfile,
                                !.added = IF db.imm = {} THEN {} ELSE {db.output}])
    /\ UNCHANGED <<current, manifests, logs, torn, history, crashes, errors>>

\* Mutant: the output is not protected while it is written.
MergeNotPending(inputs) ==
    /\ db.phase = "open" /\ db.job = "none" /\ db.merge.output = 0 /\ ~db.bg_error /\ HasNumber
    /\ tables' = Make(tables, db.next_file, [data |-> UNION {tables[n].data : n \in inputs},
                                               complete |-> FALSE])
    /\ db' = [db EXCEPT !.merge = [inputs |-> inputs, output |-> db.next_file],
                        !.next_file = @ + 1]
    /\ UNCHANGED <<current, manifests, logs, torn, history, crashes, errors>>

\* A compaction: OpenCompactionOutputFile, FinishCompactionOutputFile,
\* InstallCompactionResults.  All updates are kept here; what may go is DBTree's concern.
StartMerge(inputs) ==
    /\ db.phase = "open" /\ db.job = "none" /\ db.merge.output = 0 /\ ~db.bg_error /\ HasNumber
    /\ tables' = Make(tables, db.next_file, [data |-> UNION {tables[n].data : n \in inputs},
                                               complete |-> FALSE])
    /\ db' = [db EXCEPT !.merge = [inputs |-> inputs, output |-> db.next_file],
                        !.next_file = @ + 1, !.pending = @ \cup {db.next_file}]
    /\ UNCHANGED <<current, manifests, logs, torn, history, crashes, errors>>

FinishMerge ==
    /\ db.job = "none" /\ db.merge.output # 0
    /\ tables' = [n \in DOMAIN tables |-> IF n = db.merge.output
                      THEN [tables[n] EXCEPT !.complete = TRUE] ELSE tables[n]]
    /\ db' = StartLogAndApply(db, "merge",
                 [NoEdit EXCEPT !.log_number = db.log_number,
                                !.added = {db.merge.output}, !.deleted = db.merge.inputs])
    /\ UNCHANGED <<current, manifests, logs, torn, history, crashes, errors>>

-----------------------------------------------------------------------------
\* Ends.

\* The appends that may be under way.
UnderWay ==
    (IF WriteStarts THEN {<<"log", db.logfile, Len(logs[db.logfile].records)>>} ELSE {})
    \cup (IF db.step = "append"
          THEN {<<"manifest", db.manifest, Len(manifests[db.manifest].records)>>} ELSE {})

\* The process ends at any point, or the DBImpl is deleted: the files stay as they are, with
\* the beginnings of what was being appended.
EndProcess ==
    /\ db.phase # "down" /\ crashes < bounds.crashes
    /\ crashes' = crashes + 1
    /\ db' = NewIncarnation
    /\ \E begun \in SUBSET UnderWay : torn' = torn \cup begun
    /\ UNCHANGED <<current, manifests, logs, tables, history, errors>>

\* The machine stops: unsynced ends of files are lost, each to any length, and of a table
\* that was not finished nothing can be said.
Cut(files) ==
    LET lengths == [DOMAIN files -> 0 .. Max({0} \cup {Len(files[n].records) : n \in DOMAIN files})]
    IN  {[n \in DOMAIN files |-> [records |-> SubSeq(files[n].records, 1, len[n]),
                                  synced |-> len[n]]] :
            len \in {l \in lengths : \A n \in DOMAIN files :
                        l[n] \in files[n].synced .. Len(files[n].records)}}

\* The unfinished records that are followed by others, in these files.
Behind(kind, files) ==
    {t \in torn : t[1] = kind /\ t[2] \in DOMAIN files /\ t[3] < Len(files[t[2]].records)}

\* Where a file now ends inside a record, of those files' records: in one that was cut off, or
\* in one that was unfinished before.
CutRecords(kind, files, left) ==
    {t \in {<<kind, n, Len(left[n].records)>> : n \in DOMAIN files} :
        t[3] < Len(files[t[2]].records) \/ t \in torn \cup UnderWay}

MachineCrash ==
    /\ current # 0 => UnsyncedCrashes \/ manifests[current].synced >= relied
    /\ crashes < bounds.crashes
    /\ crashes' = crashes + 1
    /\ db' = NewIncarnation
    /\ logs' \in Cut(logs) /\ manifests' \in Cut(manifests)
    /\ \E begun \in SUBSET (CutRecords("log", logs, logs') \cup CutRecords("manifest", manifests, manifests')) :
           torn' = Behind("log", logs') \cup Behind("manifest", manifests') \cup begun
    /\ acked' = synced
    /\ UNCHANGED <<current, tables, written, synced, bounds, relied, errors>>

\* DestroyDB, with the database closed: all its files go, and all promises.
DestroyDB ==
    /\ db.phase = "down" /\ current # 0 /\ crashes < bounds.crashes
    /\ crashes' = crashes + 1
    /\ current' = 0 /\ manifests' = <<>> /\ logs' = <<>> /\ tables' = <<>>
    /\ torn' = {} /\ acked' = {} /\ synced' = {} /\ relied' = 0
    /\ UNCHANGED <<db, written, bounds, errors>>

Opening == NewDB \/ NewDBCurrent \/ Recover \/ RecoverLogFile \/ OpenLog
LogAndApply == CreateManifest \/ AppendEdit \/ SyncManifest \/ SetCurrentFile \/ Install \/ Opened
Background == \/ StartFlush \/ FinishFlush \/ FinishMerge
              \/ \E inputs \in SUBSET db.version \ {{}} : StartMerge(inputs)
Application == \/ \E sync \in BOOLEAN : Write(sync)
               \/ SwitchMemTable \/ NewIterator
               \/ \E i \in DOMAIN db.pinned : DeleteIterator(i)
Failures == \/ LogAndApplyFails \/ NewDBFails \/ TableFails \/ SyncFails \/ WriteFails
            \/ EndProcess \/ MachineCrash \/ DestroyDB

Next == Opening \/ LogAndApply \/ Background \/ Application \/ Failures

Spec == Init /\ [][Next]_vars

-----------------------------------------------------------------------------
\* Properties.

\* Every acknowledged update is found again after the process ended at any point, and every
\* one acknowledged after a sync even when the machine crashed (WriteOptions::sync): the
\* logs, the tables and the MANIFEST hand updates over to one another without a gap.
Store == INSTANCE DurableStore WITH open <- db.phase = "open",
                                    store <- IF db.phase = "open" THEN Contents ELSE {}
KeepsPromises == Store!Spec

\* No file that is still needed is missing or was overwritten: not the tables of the current
\* version and of the versions iterators hold, nor the log in use, nor the outputs and
\* inputs of the compaction under way.
NeededFilesExist ==
    db.phase = "open" =>
        /\ \A n \in db.version \cup (UNION ToSet(db.pinned)) \cup db.merge.inputs :
               n \in DOMAIN tables /\ tables[n].complete
        /\ db.merge.output # 0 => db.merge.output \in DOMAIN tables
        /\ db.logfile \in DOMAIN logs /\ current \in DOMAIN manifests

\* Sequence numbers go on from the highest one in use: a recovered update is never hidden
\* behind, or confused with, one that is written later.
SequenceAhead == db.phase = "open" => \A u \in Contents : u.seq <= db.last_sequence

\* Whatever happened before, the database can be opened: "the creation of the DB is
\* committed only when the descriptor is created" (db_impl.cc, DBImpl::Recover), and from
\* then on CURRENT names a MANIFEST that says which files there are.
OpensAgain == db.phase # "failed"

\* "A DB write with sync==true has similar crash semantics to a write() system call followed by
\* fsync()" (WriteOptions::sync): an open database holds every update acknowledged after a sync.
SyncedIsHeld == db.phase = "open" => synced \subseteq Contents
=============================================================================
