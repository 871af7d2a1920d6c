--------------------------- MODULE DBFilesProofs ---------------------------
(***************************************************************************)
(* Proofs about DBFiles: while the machine does not crash on records of a   *)
(* MANIFEST that were never synced, and no record is appended behind one    *)
(* that was not finished, no file that is needed is missing, the database   *)
(* opens again, sequence numbers go on, and what was promised of updates is *)
(* kept (the refinement of DurableStore).                                   *)
(***************************************************************************)
EXTENDS DBFiles, FiniteSetTheorems, SequenceTheorems, WellFoundedInduction, TLAPS

-----------------------------------------------------------------------------
\* The inductive invariant: types.

Phases == {"down", "new_db", "recover", "replay", "open"}
Jobs == {"none", "open", "flush", "merge"}
Steps == {"none", "table", "manifest", "append", "sync", "current", "install", "opened"}

AnyUpdate == [id : Nat, seq : Nat]
Edits == [log_number : Int, next_file : Int, last_sequence : Int, added : SUBSET Nat, deleted : SUBSET Nat]
ManifestType == [records : Seq(Edits), synced : Nat]
LogType == [records : Seq(AnyUpdate), synced : Nat]
TableType == [data : SUBSET AnyUpdate, complete : BOOLEAN]

DbType ==
    [phase : Phases, version : SUBSET Nat, pinned : Seq(SUBSET Nat),
     log_number : Nat, logfile : Nat, next_file : Nat, last_sequence : Nat,
     manifest : Nat, descriptor : BOOLEAN,
     mem : SUBSET AnyUpdate, imm : SUBSET AnyUpdate, has_imm : BOOLEAN,
     pending : SUBSET Nat, bg_error : BOOLEAN, save_manifest : BOOLEAN, edit : Edits,
     logs_left : SUBSET Nat, job : Jobs, step : Steps, output : Nat,
     merge : [inputs : SUBSET Nat, output : Nat]]

\* The updates written so far.
Known(U) == \A u \in U : u.id \in 1 .. written /\ u.seq \in 1 .. written

DiskTypeOK ==
    /\ current \in Nat /\ written \in Nat /\ relied \in Nat
    /\ acked \subseteq AnyUpdate /\ synced \subseteq acked
    /\ DOMAIN manifests \subseteq Nat /\ DOMAIN logs \subseteq Nat \ {0} /\ DOMAIN tables \subseteq Nat
    /\ \A n \in DOMAIN manifests :
           manifests[n] \in ManifestType /\ manifests[n].synced <= Len(manifests[n].records)
    /\ \A n \in DOMAIN logs : logs[n] \in LogType /\ logs[n].synced <= Len(logs[n].records)
    /\ \A n \in DOMAIN tables : tables[n] \in TableType

\* Bounds of the updates.
UpdatesOK ==
    /\ written <= bounds.updates /\ bounds \in Scenario
    /\ db.last_sequence <= written
    /\ \A n \in DOMAIN logs : Known(ToSet(logs[n].records))
    /\ \A n \in DOMAIN tables : Known(tables[n].data)
    /\ Known(db.mem) /\ Known(db.imm)

-----------------------------------------------------------------------------
\* The inductive invariant: the disk.

\* Updates in tables of T, and in logs of G, all or only what was synced.
Data(T, F) == UNION {T[n].data : n \in F}
AllOf(G, n) == ToSet(G[n].records)
SyncedOf(G, n) == {G[n].records[i] : i \in 1 .. G[n].synced}
From(G, log) == {n \in DOMAIN G : n >= log}
LogData(G, L) == UNION {AllOf(G, n) : n \in L}
SyncedData(G, L) == UNION {SyncedOf(G, n) : n \in L}

\* The tables after the first k edits.
FilesAt(edits, k) ==
    {n \in UNION {edits[i].added : i \in 1 .. k} :
        \E i \in 1 .. k : n \in edits[i].added /\ \A j \in 1 .. k : j > i => n \notin edits[j].deleted}

Records == manifests[current].records
End == Len(Records)

\* Where the MANIFEST may end after a crash, or be read to.
Points == {k \in 1 .. End : k >= manifests[current].synced /\ k >= relied}

\* The tables of a set are there.
TablesOK(T, F) == \A n \in F : n \in DOMAIN T /\ T[n].complete
Below(F, number) == \A n \in F : n < number
SeqsBelow(U, last) == \A u \in U : u.seq <= last

\* An opening that reads records up to e, which leave the tables F, goes well: the promised
\* updates A, and S after a crash, are in these tables and in the logs from e's log number on.
GoodEdit(T, G, A, S, c, w, e, F) ==
    /\ e.log_number \in Nat /\ e.next_file \in Nat /\ e.last_sequence \in Nat
    /\ e.log_number < e.next_file /\ c < e.next_file /\ e.last_sequence <= w
    /\ TablesOK(T, F) /\ Below(F, e.next_file) /\ SeqsBelow(Data(T, F), e.last_sequence)
    /\ A \subseteq Data(T, F) \cup LogData(G, From(G, e.log_number))
    /\ S \subseteq Data(T, F) \cup SyncedData(G, From(G, e.log_number))

GoodAt(k) ==
    /\ GoodEdit(tables, logs, acked, synced, current, written, Records[k], FilesAt(Records, k))
    /\ Records[k].next_file <= Records[End].next_file
    /\ Records[k].last_sequence <= Records[End].last_sequence

DiskOK ==
    IF current = 0
    THEN /\ db.phase \in {"down", "new_db"} /\ acked = {} /\ relied = 0
         /\ DOMAIN logs = {} /\ DOMAIN tables = {}
    ELSE /\ current \in DOMAIN manifests /\ db.phase # "new_db"
         /\ relied <= End /\ (manifests[current].synced > 0 \/ relied > 0)
         /\ \A k \in Points : GoodAt(k)

-----------------------------------------------------------------------------
\* The inductive invariant: the database.

\* Before it is read nothing is known.
ClosedOK ==
    db.phase \in {"down", "new_db", "recover"} =>
        /\ db = [NewIncarnation EXCEPT !.phase = db.phase]
        /\ db.phase = "new_db" => 1 \in DOMAIN manifests /\ manifests[1] = File(<<NewDBEdit>>)
        /\ db.phase = "recover" => current # 0

Busy == db.phase \in {"replay", "open"}
InManifest == db.step \in {"sync", "current", "install"}
Applying == InManifest \/ db.step \in {"manifest", "append"}

\* Numbers are ahead of all that is in use.
NumbersOK ==
    /\ \A k \in Points : Records[k].next_file <= db.next_file /\ Records[k].last_sequence <= db.last_sequence
    /\ \A n \in DOMAIN logs : n < db.next_file \/ n \in db.logs_left
    /\ TablesOK(tables, db.version \cup db.edit.added) /\ Below(db.version \cup db.edit.added, db.next_file)
    /\ SeqsBelow(db.mem \cup db.imm \cup Data(tables, db.version \cup db.edit.added), db.last_sequence)
    /\ db.logfile # 0 => db.logfile \in DOMAIN logs /\ db.logfile < db.next_file /\ db.mem \subseteq AllOf(logs, db.logfile)
    /\ db.logfile = 0 => db.mem = {}
    /\ db.job = "none" => db.step = "none"
    /\ db.phase = "replay" => db.log_number < db.next_file

\* What LogAndApply writes, and where it is.
EditOK ==
    Applying =>
        /\ db.edit.next_file \in Nat /\ db.edit.last_sequence \in Nat /\ db.edit.log_number \in Nat
        /\ db.edit.next_file <= db.next_file /\ db.edit.last_sequence <= db.last_sequence
        /\ db.edit.log_number < db.edit.next_file /\ db.manifest < db.edit.next_file
        /\ db.edit.log_number <= db.logfile
        /\ Below(db.edit.added, db.edit.next_file) /\ SeqsBelow(Data(tables, db.edit.added), db.edit.last_sequence)
        /\ \A k \in Points : /\ Records[k].next_file <= db.edit.next_file
                             /\ Records[k].last_sequence <= db.edit.last_sequence

Snapshot == [NoEdit EXCEPT !.added = db.version]

\* The MANIFEST in use and the version agree; a new MANIFEST is made of the version.
ManifestOK ==
    /\ IF InManifest /\ db.descriptor
       THEN /\ Records[End] = db.edit /\ End \in Points
            /\ ~db.bg_error => FilesAt(Records, End) = (db.version \ db.edit.deleted) \cup db.edit.added
       ELSE ~db.bg_error => FilesAt(Records, End) = db.version /\ Records[End].log_number = db.log_number
    /\ db.step = "install" => db.descriptor /\ manifests[current].synced = End
    /\ db.descriptor => db.manifest = current /\ db.step \notin {"manifest", "current"}
    /\ ~db.descriptor =>
          /\ db.phase = "replay" /\ db.manifest \notin {0, current} /\ db.manifest < db.next_file
          /\ db.step \in {"append", "sync", "current"} => db.manifest \in DOMAIN manifests
          /\ db.step = "append" => manifests[db.manifest].records = <<Snapshot>>
          /\ db.step \in {"sync", "current"} => manifests[db.manifest].records = <<Snapshot, db.edit>>
          /\ db.step = "current" => manifests[db.manifest].synced = 2

\* While the logs are read, and until Open is over.
ReplayOK ==
    db.phase = "replay" =>
        /\ ~db.bg_error /\ db.imm = {} /\ ~db.has_imm /\ db.pinned = <<>> /\ db.pending = {}
        /\ db.merge = [inputs |-> {}, output |-> 0] /\ db.output = 0
        /\ db.logs_left \subseteq From(logs, db.log_number)
        /\ db.logfile # 0 => db.logs_left = {} /\ db.logfile >= db.log_number
        /\ acked \subseteq Data(tables, db.version \cup db.edit.added) \cup db.mem \cup LogData(logs, db.logs_left)
        /\ synced \subseteq Data(tables, db.version \cup db.edit.added)
                            \cup (IF db.logfile = 0 THEN {} ELSE db.mem \cap SyncedOf(logs, db.logfile))
                            \cup SyncedData(logs, db.logs_left)
        /\ db.edit.deleted = {}
        /\ db.descriptor /\ ~InManifest => relied = End
        /\ ~db.save_manifest => db.descriptor /\ db.edit.added = {}
        /\ db.job \in {"none", "open"}
        /\ db.job = "open" => /\ db.logs_left = {} /\ db.logfile # 0 /\ (Applying \/ db.step = "opened")
                              /\ db.step # "opened" => db.edit.log_number = db.logfile
                              /\ db.step = "opened" => ~db.save_manifest

\* Updates of an open database are in its memtables and tables, and the synced ones are in a
\* synced log or a table.
OpenOK ==
    db.phase = "open" =>
        /\ db.descriptor /\ db.logs_left = {} /\ ~db.save_manifest /\ db.logfile # 0
        /\ acked \subseteq Contents
        /\ synced \subseteq Data(tables, db.version) \cup db.imm \cup (db.mem \cap SyncedOf(logs, db.logfile))
        /\ ~db.has_imm => db.imm = {}
        /\ \A k \in Points : /\ db.log_number <= Records[k].log_number
                             /\ Records[k].log_number <= db.logfile
                             /\ Data(tables, db.version) \subseteq Data(tables, FilesAt(Records, k))
        /\ db.job \in {"none", "flush", "merge"}

\* Iterators and the jobs of the background thread.
Held == UNION ToSet(db.pinned)

JobsOK ==
    db.phase = "open" =>
        /\ TablesOK(tables, Held) /\ Below(Held, db.next_file)
        /\ db.merge.inputs \subseteq db.version
        /\ IF db.merge.output = 0 THEN db.merge.inputs = {}
           ELSE /\ db.merge.output \in db.pending /\ db.merge.output \in DOMAIN tables
                /\ db.merge.output < db.next_file
                /\ tables[db.merge.output].data = Data(tables, db.merge.inputs)
        /\ db.job = "none" => db.edit.added = {}
        /\ db.job = "flush" =>
              /\ db.has_imm /\ db.step \in {"table", "append", "sync", "install"}
              /\ db.imm # {} => db.output \in DOMAIN tables /\ tables[db.output].data = db.imm
              /\ db.output < db.next_file
              /\ IF db.step = "table"
                 THEN /\ db.edit.added = {} /\ db.output \notin db.version \cup Held
                      /\ db.output # db.merge.output
                      /\ \A k \in Points : db.output \notin FilesAt(Records, k)
                 ELSE /\ db.edit.log_number = db.logfile /\ db.edit.deleted = {}
                      /\ db.edit.added = IF db.imm = {} THEN {} ELSE {db.output}
        /\ db.job = "merge" =>
              /\ db.merge.output # 0 /\ db.step \in {"append", "sync", "install"}
              /\ db.edit.log_number = db.log_number
              /\ db.edit.added = {db.merge.output} /\ db.edit.deleted = db.merge.inputs

BusyOK == Busy => NumbersOK /\ EditOK /\ ManifestOK

FilesInv ==
    /\ DiskTypeOK /\ db \in DbType /\ UpdatesOK /\ DiskOK
    /\ ClosedOK /\ BusyOK /\ ReplayOK /\ OpenOK /\ JobsOK
-----------------------------------------------------------------------------
\* Numbers, sets and sequences.

LEMMA LeastOf ==
    ASSUME NEW S, S \subseteq Nat, S # {}
    PROVE  Min(S) \in S /\ \A x \in S : Min(S) <= x
<1> DEFINE R == OpToRel(<, Nat)
<1>1. \A x, y \in Nat : <<x, y>> \in R <=> x < y
  BY DEF OpToRel
<1>2. IsWellFoundedOn(R, Nat)
  BY Zenon, NatLessThanWellFounded
<1> HIDE DEF R
<1>3. PICK m \in S : \A y \in S : ~(<<y, m>> \in R)
  BY <1>2, WFMin
<1>4. \A x \in S : m <= x
  <2> SUFFICES ASSUME NEW x \in S PROVE m <= x
    OBVIOUS
  <2>1. x \in Nat /\ m \in Nat
    OBVIOUS
  <2>2. ~(x < m)
    BY <1>1, <1>3, <2>1
  <2> QED BY <2>1, <2>2
<1> QED BY <1>4 DEF Min

LEMMA GreatestOf ==
    ASSUME NEW S, NEW n \in Nat, S \subseteq 0 .. n, S # {}
    PROVE  Max(S) \in S /\ \A x \in S : Max(S) >= x
<1> DEFINE T == {n - x : x \in S}
<1>1. T \subseteq Nat /\ T # {}
  <2>1. \A x \in S : n - x \in Nat
    OBVIOUS
  <2>2. PICK x \in S : TRUE
    OBVIOUS
  <2>3. n - x \in T
    OBVIOUS
  <2> QED BY <2>1, <2>3
<1> DEFINE t == Min(T)
<1>2. t \in T /\ \A y \in T : t <= y
  BY <1>1, LeastOf
<1>3. PICK m \in S : t = n - m
  BY <1>2
<1> HIDE DEF t
<1>4. \A x \in S : m >= x
  <2> SUFFICES ASSUME NEW x \in S PROVE m >= x
    OBVIOUS
  <2>1. n - x \in T
    OBVIOUS
  <2>2. n - m <= n - x /\ x \in Nat /\ m \in Nat
    BY SMTT(30), <1>2, <1>3, <2>1
  <2> QED BY <2>2
<1> QED BY <1>4 DEF Max

LEMMA AppendFacts ==
    ASSUME NEW S, NEW s \in Seq(S), NEW e \in S
    PROVE  /\ Append(s, e) \in Seq(S) /\ Len(Append(s, e)) = Len(s) + 1
           /\ Append(s, e)[Len(s) + 1] = e /\ \A i \in 1 .. Len(s) : Append(s, e)[i] = s[i]
OBVIOUS

LEMMA PrefixFacts ==
    ASSUME NEW S, NEW s \in Seq(S), NEW l \in 0 .. Len(s)
    PROVE  /\ SubSeq(s, 1, l) \in Seq(S) /\ Len(SubSeq(s, 1, l)) = l
           /\ \A i \in 1 .. l : SubSeq(s, 1, l)[i] = s[i]
OBVIOUS

LEMMA ToSetFacts ==
    ASSUME NEW S, NEW s \in Seq(S)
    PROVE  ToSet(s) \subseteq S /\ \A i \in 1 .. Len(s) : s[i] \in ToSet(s)
BY DEF ToSet

LEMMA AppendOne ==
    ASSUME NEW S, NEW a \in S, NEW b \in S
    PROVE  Append(<<a>>, b) = <<a, b>>
<1> DEFINE s == <<a>>
           t == Append(s, b)
           r == <<a, b>>
<1>1. s \in Seq(S) /\ Len(s) = 1 /\ s[1] = a
  OBVIOUS
<1>2. r \in Seq(S) /\ Len(r) = 2 /\ r[1] = a /\ r[2] = b
  OBVIOUS
<1> HIDE DEF s, r
<1>3. t \in Seq(S) /\ Len(t) = 2 /\ t[1] = a /\ t[2] = b
  <2>1. /\ t \in Seq(S) /\ Len(t) = Len(s) + 1 /\ t[Len(s) + 1] = b /\ \A i \in 1 .. Len(s) : t[i] = s[i]
    BY SMTT(60), <1>1, AppendFacts
  <2> HIDE DEF t
  <2> QED BY <1>1, <2>1
<1> HIDE DEF t
<1>4. \A i \in 1 .. 2 : i = 1 \/ i = 2
  OBVIOUS
<1>5. \A i \in 1 .. Len(t) : t[i] = r[i]
  BY <1>2, <1>3, <1>4
<1>6. t = r
  BY <1>2, <1>3, <1>5, SeqEqual
<1> QED BY <1>6 DEF s, t, r

LEMMA FilesAtAppend ==
    ASSUME NEW s \in Seq(Edits), NEW e \in Edits
    PROVE  /\ \A k \in 0 .. Len(s) : FilesAt(Append(s, e), k) = FilesAt(s, k)
           /\ FilesAt(Append(s, e), Len(s) + 1) = (FilesAt(s, Len(s)) \ e.deleted) \cup e.added
<1> DEFINE t == Append(s, e)
           m == Len(s)
<1>1. m \in Nat /\ t[m + 1] = e /\ \A i \in 1 .. m : t[i] = s[i]
  BY AppendFacts
<1> HIDE DEF t, m
<1>2. ASSUME NEW k \in 0 .. m PROVE FilesAt(t, k) = FilesAt(s, k)
  <2>1. \A i \in 1 .. k : i \in 1 .. m
    BY <1>1
  <2>2. \A i \in 1 .. k : t[i] = s[i]
    BY <1>1, <2>1
  <2> QED BY <2>2 DEF FilesAt
<1>3. FilesAt(t, m + 1) = (FilesAt(s, m) \ e.deleted) \cup e.added
  <2>1. 1 .. m + 1 = (1 .. m) \cup {m + 1}
    BY <1>1
  <2>2. \A i \in 1 .. m : i < m + 1 /\ ~(i > m + 1)
    BY <1>1
  <2>3. ASSUME NEW n \in FilesAt(t, m + 1) PROVE n \in (FilesAt(s, m) \ e.deleted) \cup e.added
    <3>1. PICK i \in 1 .. m + 1 : n \in t[i].added /\ \A j \in 1 .. m + 1 : j > i => n \notin t[j].deleted
      BY <2>3 DEF FilesAt
    <3>2. CASE i = m + 1
      BY <1>1, <3>1, <3>2
    <3>3. CASE i \in 1 .. m
      <4>1. n \notin e.deleted
        <5>1. m + 1 \in 1 .. m + 1 /\ m + 1 > i
          BY <1>1, <2>2, <3>3
        <5> QED BY <1>1, <3>1, <5>1
      <4>2. n \in s[i].added /\ \A j \in 1 .. m : j > i => n \notin s[j].deleted
        BY <1>1, <2>1, <3>1, <3>3
      <4> QED BY <3>3, <4>1, <4>2 DEF FilesAt
    <3> QED BY <2>1, <3>2, <3>3
  <2>4. ASSUME NEW n \in e.added PROVE n \in FilesAt(t, m + 1)
    <3>1. m + 1 \in 1 .. m + 1 /\ n \in t[m + 1].added
      BY <1>1, <2>4
    <3>2. \A j \in 1 .. m + 1 : ~(j > m + 1)
      BY <1>1
    <3> QED BY <3>1, <3>2 DEF FilesAt
  <2>5. ASSUME NEW n \in FilesAt(s, m), n \notin e.deleted PROVE n \in FilesAt(t, m + 1)
    <3>1. PICK i \in 1 .. m : n \in s[i].added /\ \A j \in 1 .. m : j > i => n \notin s[j].deleted
      BY <2>5 DEF FilesAt
    <3>2. i \in 1 .. m + 1 /\ n \in t[i].added
      BY <1>1, <2>1, <3>1
    <3>3. \A j \in 1 .. m + 1 : j > i => n \notin t[j].deleted
      BY <1>1, <2>1, <2>5, <3>1
    <3> QED BY <3>2, <3>3 DEF FilesAt
  <2> QED BY <2>3, <2>4, <2>5
<1> QED BY <1>2, <1>3 DEF t, m

LEMMA FilesAtPrefix ==
    ASSUME NEW s \in Seq(Edits), NEW l \in 0 .. Len(s), NEW k \in 0 .. l
    PROVE  FilesAt(SubSeq(s, 1, l), k) = FilesAt(s, k)
<1>1. \A i \in 1 .. k : SubSeq(s, 1, l)[i] = s[i]
  <2>1. \A i \in 1 .. k : i \in 1 .. l
    OBVIOUS
  <2> QED BY <2>1, PrefixFacts
<1> QED BY <1>1 DEF FilesAt

LEMMA FilesOfAll ==
    ASSUME NEW s \in Seq(Edits)
    PROVE  FilesOf(s) = FilesAt(s, Len(s))
<1>1. DOMAIN s = 1 .. Len(s)
  OBVIOUS
<1> QED BY <1>1 DEF FilesOf, FilesAt

\* The last record of a MANIFEST has all numbers.
LEMMA LastOfLast ==
    ASSUME NEW s \in Seq(Edits), Len(s) > 0, NEW f \in {"log_number", "next_file", "last_sequence"},
           s[Len(s)][f] \in Nat
    PROVE  LastOf(s, f) = s[Len(s)][f]
<1> DEFINE set == {i \in DOMAIN s : s[i][f] # -1}
           m == Len(s)
<1>1. m \in Nat /\ DOMAIN s = 1 .. m /\ m > 0
  OBVIOUS
<1>2. s[m][f] # -1
  OBVIOUS
<1> HIDE DEF m
<1>3. m \in set /\ set \subseteq 0 .. m
  BY <1>1, <1>2
<1> HIDE DEF set
<1>4. Max(set) \in set /\ \A x \in set : Max(set) >= x
  BY <1>1, <1>3, GreatestOf
<1> DEFINE x == Max(set)
<1> HIDE DEF x
<1>5. x \in 0 .. m /\ x >= m
  BY <1>3, <1>4 DEF x
<1>6. x = m
  BY <1>1, <1>5
<1>7. LastOf(s, f) = IF set = {} THEN -1 ELSE s[x][f]
  BY DEF LastOf, set, x
<1> QED BY <1>3, <1>6, <1>7 DEF m

\* The highest sequence number.
LEMMA MaxSeqFacts ==
    ASSUME NEW s \in Seq(AnyUpdate), NEW last \in Nat, NEW w \in Nat, last <= w,
           \A u \in ToSet(s) : u.seq <= w
    PROVE  /\ MaxSeq(s, last) \in Nat /\ last <= MaxSeq(s, last) /\ MaxSeq(s, last) <= w
           /\ \A u \in ToSet(s) : u.seq <= MaxSeq(s, last)
<1> DEFINE S == {last} \cup {u.seq : u \in ToSet(s)}
           x == Max(S)
<1>1. \A u \in ToSet(s) : u.seq \in Nat
  <2>1. ToSet(s) \subseteq AnyUpdate
    BY ToSetFacts
  <2> QED BY <2>1 DEF AnyUpdate
<1>2. S \subseteq 0 .. w /\ S # {}
  BY <1>1
<1>3. x \in S /\ \A y \in S : x >= y
  BY <1>2, GreatestOf
<1>4. MaxSeq(s, last) = x
  BY DEF MaxSeq
<1>5. \A u \in ToSet(s) : u.seq \in S
  OBVIOUS
<1> HIDE DEF x
<1>6. last \in S
  OBVIOUS
<1> HIDE DEF S
<1>7. x \in 0 .. w /\ x >= last /\ \A u \in ToSet(s) : x >= u.seq
  BY <1>2, <1>3, <1>5, <1>6
<1> QED BY <1>1, <1>4, <1>7
-----------------------------------------------------------------------------
\* What steps leave alone.

LEMMA DbFields ==
    ASSUME NEW d \in DbType
    PROVE  /\ d.phase \in Phases /\ d.version \subseteq Nat /\ d.pinned \in Seq(SUBSET Nat)
           /\ d.log_number \in Nat /\ d.logfile \in Nat /\ d.next_file \in Nat
           /\ d.last_sequence \in Nat /\ d.manifest \in Nat /\ d.descriptor \in BOOLEAN
           /\ d.mem \subseteq AnyUpdate /\ d.imm \subseteq AnyUpdate /\ d.has_imm \in BOOLEAN
           /\ d.pending \subseteq Nat /\ d.bg_error \in BOOLEAN /\ d.save_manifest \in BOOLEAN
           /\ d.edit \in Edits /\ d.logs_left \subseteq Nat /\ d.job \in Jobs /\ d.step \in Steps
           /\ d.output \in Nat /\ d.merge \in [inputs : SUBSET Nat, output : Nat]
           /\ d.merge.inputs \subseteq Nat /\ d.merge.output \in Nat
BY DEF DbType

DbNames == {"phase", "version", "pinned", "log_number", "logfile", "next_file", "last_sequence",
            "manifest", "descriptor", "mem", "imm", "has_imm", "pending", "bg_error", "save_manifest",
            "edit", "logs_left", "job", "step", "output", "merge"}
IsDb(d) == DOMAIN d = DbNames /\ d = [x \in DbNames |-> d[x]]

LEMMA DbFromFields ==
    ASSUME NEW d, IsDb(d),
           d.phase \in Phases, d.version \subseteq Nat, d.pinned \in Seq(SUBSET Nat),
           d.log_number \in Nat, d.logfile \in Nat, d.next_file \in Nat,
           d.last_sequence \in Nat, d.manifest \in Nat, d.descriptor \in BOOLEAN,
           d.mem \subseteq AnyUpdate, d.imm \subseteq AnyUpdate, d.has_imm \in BOOLEAN,
           d.pending \subseteq Nat, d.bg_error \in BOOLEAN, d.save_manifest \in BOOLEAN,
           d.edit \in Edits, d.logs_left \subseteq Nat, d.job \in Jobs, d.step \in Steps,
           d.output \in Nat, d.merge \in [inputs : SUBSET Nat, output : Nat]
    PROVE  d \in DbType
BY DEF DbType, IsDb, DbNames

LEMMA DbIsDb ==
    ASSUME NEW d \in DbType
    PROVE  IsDb(d)
BY DEF DbType, IsDb, DbNames

EditNames == {"log_number", "next_file", "last_sequence", "added", "deleted"}
IsEdit(e) == DOMAIN e = EditNames /\ e = [x \in EditNames |-> e[x]]

LEMMA EditFromFields ==
    ASSUME NEW e, IsEdit(e), e.log_number \in Int, e.next_file \in Int, e.last_sequence \in Int,
           e.added \subseteq Nat, e.deleted \subseteq Nat
    PROVE  e \in Edits
BY DEF Edits, IsEdit, EditNames

LEMMA EditIsEdit ==
    ASSUME NEW e \in Edits
    PROVE  IsEdit(e)
BY DEF Edits, IsEdit, EditNames

LEMMA EditFields ==
    ASSUME NEW e \in Edits
    PROVE  /\ e.log_number \in Int /\ e.next_file \in Int /\ e.last_sequence \in Int
           /\ e.added \subseteq Nat /\ e.deleted \subseteq Nat
BY DEF Edits

LEMMA DataFacts ==
    ASSUME NEW T
    PROVE  /\ \A F, G : F \subseteq G => Data(T, F) \subseteq Data(T, G)
           /\ \A F, G : Data(T, F \cup G) = Data(T, F) \cup Data(T, G)
           /\ Data(T, {}) = {}
           /\ \A n : Data(T, {n}) = T[n].data
           /\ \A F, n : n \in F => T[n].data \subseteq Data(T, F)
BY DEF Data

LEMMA DataOne ==
    ASSUME NEW T, NEW n
    PROVE  Data(T, {n}) = T[n].data
BY DEF Data

\* The tables of F in T are in U.
KeptTables(T, U, F) ==
    \A n \in F : n \in DOMAIN U /\ U[n].data = T[n].data /\ (T[n].complete => U[n].complete)

\* The logs of L in G are in H, and have perhaps grown.
KeptLogs(G, H, L) ==
    \A n \in L : n \in DOMAIN H /\ AllOf(G, n) \subseteq AllOf(H, n) /\ SyncedOf(G, n) \subseteq SyncedOf(H, n)

LEMMA KeptFacts ==
    ASSUME NEW T, NEW U, NEW F, KeptTables(T, U, F)
    PROVE  (TablesOK(T, F) => TablesOK(U, F)) /\ Data(U, F) = Data(T, F)
BY DEF KeptTables, TablesOK, Data

LEMMA KeptSubset ==
    ASSUME NEW T, NEW U, NEW F, NEW E, E \subseteq F, KeptTables(T, U, F)
    PROVE  KeptTables(T, U, E)
BY DEF KeptTables

LEMMA LogDataMono ==
    ASSUME NEW G, NEW L, NEW K, L \subseteq K
    PROVE  LogData(G, L) \subseteq LogData(G, K) /\ SyncedData(G, L) \subseteq SyncedData(G, K)
BY DEF LogData, SyncedData

LEMMA LogDataGrows ==
    ASSUME NEW G, NEW H, NEW L, KeptLogs(G, H, L)
    PROVE  LogData(G, L) \subseteq LogData(H, L) /\ SyncedData(G, L) \subseteq SyncedData(H, L)
BY DEF KeptLogs, LogData, SyncedData

LEMMA LogDataFromGrows ==
    ASSUME NEW G, NEW H, NEW number, KeptLogs(G, H, From(G, number))
    PROVE  /\ LogData(G, From(G, number)) \subseteq LogData(H, From(H, number))
           /\ SyncedData(G, From(G, number)) \subseteq SyncedData(H, From(H, number))
<1>1. From(G, number) \subseteq From(H, number)
  BY DEF KeptLogs, From
<1> QED BY <1>1, LogDataGrows, LogDataMono

\* A good end of the MANIFEST stays one while what it needs stays.
LEMMA GoodStays ==
    ASSUME NEW T, NEW U, NEW G, NEW H, NEW A, NEW S, NEW c, NEW w \in Nat, NEW v \in Nat, NEW e, NEW F,
           GoodEdit(T, G, A, S, c, w, e, F), w <= v, e.last_sequence \in Nat,
           KeptTables(T, U, F), KeptLogs(G, H, From(G, e.log_number))
    PROVE  GoodEdit(U, H, A, S, c, v, e, F)
<1>1. TablesOK(U, F) /\ Data(U, F) = Data(T, F)
  BY KeptFacts DEF GoodEdit
<1>2. e.last_sequence <= v
  BY DEF GoodEdit
<1> QED BY <1>1, <1>2, LogDataFromGrows DEF GoodEdit

LEMMA InvParts ==
    ASSUME FilesInv
    PROVE  /\ DiskTypeOK /\ db \in DbType /\ UpdatesOK /\ DiskOK /\ ClosedOK /\ BusyOK
           /\ ReplayOK /\ OpenOK /\ JobsOK
BY DEF FilesInv

\* The MANIFEST in use.
LEMMA RecordsFacts ==
    ASSUME FilesInv, current # 0
    PROVE  /\ current \in DOMAIN manifests /\ Records \in Seq(Edits) /\ End \in Nat /\ End >= 1
           /\ manifests[current].synced \in Nat /\ manifests[current].synced <= End
           /\ relied \in Nat /\ relied <= End /\ End \in Points /\ Points \subseteq 1 .. End
           /\ \A k \in Points : Records[k] \in Edits
           /\ GoodAt(End)
<1>1. /\ current \in DOMAIN manifests /\ relied <= End /\ relied \in Nat
      /\ manifests[current].synced > 0 \/ relied > 0
      /\ \A k \in Points : GoodAt(k)
  BY InvParts DEF DiskOK, DiskTypeOK
<1>2. manifests[current] \in ManifestType /\ manifests[current].synced <= Len(manifests[current].records)
  BY <1>1, InvParts DEF DiskTypeOK
<1>3. Records \in Seq(Edits) /\ manifests[current].synced \in Nat /\ manifests[current].synced <= End
  BY <1>2 DEF ManifestType, Records, End
<1>4. End \in Nat
  BY <1>3 DEF End
<1>5. End >= 1
  BY <1>1, <1>3, <1>4
<1>6. End \in Points
  BY <1>1, <1>3, <1>4, <1>5 DEF Points
<1>7. \A k \in 1 .. End : Records[k] \in Edits
  BY <1>3 DEF End
<1> QED BY <1>1, <1>3, <1>4, <1>5, <1>6, <1>7 DEF Points

\* Steps that leave the MANIFEST alone, and all files that it may need.
LEMMA DiskStays ==
    ASSUME FilesInv, current # 0, UNCHANGED <<current, acked, synced>>, current \in DOMAIN manifests',
           manifests'[current] = manifests[current], written' \in Nat, written <= written',
           relied' \in Nat, relied <= relied', relied' <= End, db'.phase # "new_db",
           \A k \in Points : KeptTables(tables, tables', FilesAt(Records, k)),
           \A n \in DOMAIN logs : KeptLogs(logs, logs', {n})
    PROVE  /\ DiskOK' /\ Records' = Records /\ End' = End /\ Points' \subseteq Points
           /\ End \in Points' /\ (relied' = relied => Points' = Points)
<1>1. Records' = Records /\ manifests'[current'].synced = manifests[current].synced
  BY DEF Records
<1>2. End' = End
  BY <1>1 DEF End
<1>3. End \in Nat /\ relied \in Nat /\ End >= 1 /\ manifests[current].synced \in Nat
      /\ manifests[current].synced <= End
  BY RecordsFacts
<1>4. Points' \subseteq Points /\ End \in Points'
  BY <1>1, <1>2, <1>3 DEF Points
<1>5. ASSUME NEW k \in Points PROVE GoodAt(k)'
  <2> DEFINE e == Records[k]
             F == FilesAt(Records, k)
  <2>1. GoodAt(k)
    BY InvParts DEF DiskOK
  <2>2. KeptLogs(logs, logs', From(logs, e.log_number))
    BY DEF KeptLogs, From
  <2>3. written \in Nat
    BY InvParts DEF DiskTypeOK
  <2>4. GoodEdit(tables, logs, acked, synced, current, written, e, F) /\ e.last_sequence \in Nat
    BY <2>1 DEF GoodAt, GoodEdit
  <2>5. KeptTables(tables, tables', F)
    OBVIOUS
  <2> HIDE DEF e, F
  <2>6. GoodEdit(tables', logs', acked', synced', current', written', e, F)
    BY <2>2, <2>3, <2>4, <2>5, GoodStays
  <2> QED BY <1>1, <1>2, <2>1, <2>6 DEF GoodAt, e, F
<1>6. manifests[current].synced > 0 \/ relied' > 0
  <2>1. manifests[current].synced > 0 \/ relied > 0
    BY InvParts DEF DiskOK
  <2> QED BY <1>3, <2>1
<1>7. DiskOK'
  BY <1>1, <1>2, <1>4, <1>5, <1>6 DEF DiskOK
<1> QED BY <1>1, <1>2, <1>4, <1>7 DEF Points

\* A file that is made, or made again.
LEMMA MakeFacts ==
    ASSUME NEW f, NEW n, NEW v
    PROVE  /\ DOMAIN Make(f, n, v) = DOMAIN f \cup {n} /\ Make(f, n, v)[n] = v
           /\ \A m \in DOMAIN f : m # n => Make(f, n, v)[m] = f[m]
BY DEF Make

LEMMA RestrictFacts ==
    ASSUME NEW f, NEW S
    PROVE  DOMAIN Restrict(f, S) = S /\ \A n \in S : Restrict(f, S)[n] = f[n]
BY DEF Restrict

LEMMA NewTyped ==
    ASSUME NEW p \in Phases
    PROVE  LET d == [NewIncarnation EXCEPT !.phase = p]
           IN  d \in DbType /\ d.phase = p /\ d.last_sequence = 0 /\ d.mem = {} /\ d.imm = {}
<1> DEFINE d == [NewIncarnation EXCEPT !.phase = p]
<1>1. <<>> \in Seq(SUBSET Nat)
  OBVIOUS
<1>2. NoEdit \in Edits
  BY DEF NoEdit, Edits
<1> QED BY <1>1, <1>2 DEF NewIncarnation, DbType, Jobs, Steps, Phases

\* The database is closed after a step.
LEMMA ClosedStep ==
    ASSUME FilesInv, UNCHANGED <<written, bounds>>, DiskTypeOK', DiskOK',
           db' = [NewIncarnation EXCEPT !.phase = db'.phase],
           db'.phase \in {"down", "new_db", "recover"},
           db'.phase = "new_db" => 1 \in DOMAIN manifests' /\ manifests'[1] = File(<<NewDBEdit>>),
           db'.phase = "recover" => current' # 0,
           \A n \in DOMAIN logs' : Known(ToSet(logs'[n].records)),
           \A n \in DOMAIN tables' : Known(tables'[n].data)
    PROVE  FilesInv'
<1>1. db' \in DbType /\ db'.last_sequence = 0 /\ db'.mem = {} /\ db'.imm = {}
  BY ZenonT(60), NewTyped DEF Phases
<1>2. written \in Nat /\ written <= bounds.updates /\ bounds \in Scenario
  BY InvParts DEF DiskTypeOK, UpdatesOK
<1>3. UpdatesOK'
  BY <1>1, <1>2 DEF UpdatesOK, Known
<1>4. ClosedOK'
  BY DEF ClosedOK
<1>5. BusyOK' /\ ReplayOK' /\ OpenOK' /\ JobsOK'
  BY DEF BusyOK, Busy, ReplayOK, OpenOK, JobsOK
<1> QED BY <1>1, <1>3, <1>4, <1>5 DEF FilesInv

LEMMA NewIsDown ==
    NewIncarnation = [NewIncarnation EXCEPT !.phase = "down"] /\ NewIncarnation.phase = "down"
<1> DEFINE D == {"phase", "version", "pinned", "log_number", "logfile", "next_file", "last_sequence",
                 "manifest", "descriptor", "mem", "imm", "has_imm", "pending", "bg_error", "save_manifest",
                 "edit", "logs_left", "job", "step", "output", "merge"}
<1>1. NewIncarnation.phase = "down" /\ DOMAIN NewIncarnation = D
  BY DEF NewIncarnation
<1>2. NewIncarnation = [x \in D |-> NewIncarnation[x]]
  BY <1>1 DEF NewIncarnation
<1> HIDE DEF D
<1>3. [NewIncarnation EXCEPT !.phase = "down"] = [x \in D |-> IF x = "phase" THEN "down" ELSE NewIncarnation[x]]
  BY <1>1
<1> QED BY <1>1, <1>2, <1>3

LEMMA InitKeeps == Init => FilesInv
<1> SUFFICES ASSUME Init PROVE FilesInv
  OBVIOUS
<1> USE DEF Init
<1>1. DOMAIN manifests = {} /\ DOMAIN logs = {} /\ DOMAIN tables = {}
  OBVIOUS
<1>2. db = [NewIncarnation EXCEPT !.phase = "down"] /\ db.phase = "down"
  BY NewIsDown
<1>3. db \in DbType /\ db.last_sequence = 0 /\ db.mem = {} /\ db.imm = {}
  BY <1>2, NewTyped DEF Phases
<1>4. bounds \in Scenario
  BY FilesAssumption
<1>5. DiskTypeOK
  BY <1>1 DEF DiskTypeOK
<1>6. UpdatesOK
  BY <1>1, <1>3, <1>4 DEF UpdatesOK, Known, Scenario
<1>7. DiskOK
  BY <1>1, <1>2 DEF DiskOK
<1>8. ClosedOK
  BY <1>2 DEF ClosedOK
<1>9. BusyOK /\ ReplayOK /\ OpenOK /\ JobsOK
  BY <1>2 DEF BusyOK, Busy, ReplayOK, OpenOK, JobsOK
<1> QED BY <1>3, <1>5, <1>6, <1>7, <1>8, <1>9 DEF FilesInv
-----------------------------------------------------------------------------
\* Steps that end with a closed database.

LEMMA NewDBKeeps == FilesInv /\ NewDB => FilesInv'
<1> SUFFICES ASSUME FilesInv, NewDB PROVE FilesInv'
  OBVIOUS
<1>1. /\ db.phase = "down" /\ current = 0 /\ UNCHANGED <<current, logs, tables, written, acked, synced, relied, bounds>>
      /\ manifests' = Make(manifests, 1, File(<<NewDBEdit>>)) /\ db' = [db EXCEPT !.phase = "new_db"]
  BY DEF NewDB, history, promised
<1>2. db = [NewIncarnation EXCEPT !.phase = "down"]
  BY <1>1, InvParts DEF ClosedOK
<1>3. db' = [NewIncarnation EXCEPT !.phase = "new_db"] /\ db'.phase = "new_db"
  BY <1>1, <1>2 DEF NewIncarnation
<1> DEFINE m == File(<<NewDBEdit>>)
<1>4. m \in ManifestType /\ m.synced <= Len(m.records)
  <2>1. NewDBEdit \in Edits
    <3>1. IsEdit(NewDBEdit)
      BY DEF NewDBEdit, NoEdit, IsEdit, EditNames
    <3>2. /\ NewDBEdit.log_number = 0 /\ NewDBEdit.next_file = 2 /\ NewDBEdit.last_sequence = 0
          /\ NewDBEdit.added = {} /\ NewDBEdit.deleted = {}
      BY DEF NewDBEdit, NoEdit
    <3> QED BY <3>1, <3>2, EditFromFields
  <2> HIDE DEF NewDBEdit
  <2>2. <<NewDBEdit>> \in Seq(Edits) /\ Len(<<NewDBEdit>>) = 1
    BY <2>1
  <2> QED BY <2>2 DEF File, ManifestType
<1> HIDE DEF m
<1>5. /\ 1 \in DOMAIN manifests' /\ manifests'[1] = m /\ DOMAIN manifests' = DOMAIN manifests \cup {1}
      /\ \A n \in DOMAIN manifests : n # 1 => manifests'[n] = manifests[n]
  BY <1>1 DEF m, Make
<1>6. DiskTypeOK'
  BY <1>1, <1>4, <1>5, InvParts DEF DiskTypeOK
<1>7. DiskOK'
  BY <1>1, <1>3, InvParts DEF DiskOK
<1>8. /\ \A n \in DOMAIN logs' : Known(ToSet(logs'[n].records))
      /\ \A n \in DOMAIN tables' : Known(tables'[n].data)
  BY <1>1, InvParts DEF UpdatesOK
<1> QED BY <1>1, <1>3, <1>5, <1>6, <1>7, <1>8, ClosedStep DEF m

LEMMA NewDBCurrentKeeps == FilesInv /\ NewDBCurrent => FilesInv'
<1> SUFFICES ASSUME FilesInv, NewDBCurrent PROVE FilesInv'
  OBVIOUS
<1>1. /\ db.phase = "new_db" /\ current' = 1 /\ relied' = 1 /\ db' = [db EXCEPT !.phase = "recover"]
      /\ UNCHANGED <<manifests, logs, tables, written, acked, synced, bounds>>
  BY DEF NewDBCurrent, promised
<1>2. /\ db = [NewIncarnation EXCEPT !.phase = "new_db"]
      /\ 1 \in DOMAIN manifests /\ manifests[1] = File(<<NewDBEdit>>)
  BY <1>1, InvParts DEF ClosedOK
<1>3. db' = [NewIncarnation EXCEPT !.phase = "recover"] /\ db'.phase = "recover"
  BY <1>1, <1>2 DEF NewIncarnation
<1>4. acked = {} /\ DOMAIN logs = {} /\ DOMAIN tables = {}
  BY <1>1, InvParts DEF DiskOK
<1>5. synced = {} /\ written \in Nat
  BY <1>4, InvParts DEF DiskTypeOK
<1>6. DiskTypeOK'
  BY <1>1, InvParts DEF DiskTypeOK
<1>7. Records' = <<NewDBEdit>> /\ manifests'[current'].synced = 0
  BY <1>1, <1>2 DEF Records, File
<1>8. End' = 1 /\ Points' = {1}
  <2>1. End' = 1
    BY <1>7 DEF End
  <2> QED BY <1>1, <1>7, <2>1 DEF Points
<1>9. GoodAt(1)'
  <2>1. FilesAt(<<NewDBEdit>>, 1) = {}
    <3>1. 1 .. 1 = {1} /\ NewDBEdit.added = {}
      BY DEF NewDBEdit, NoEdit
    <3> QED BY <3>1 DEF FilesAt
  <2>2. NewDBEdit.log_number = 0 /\ NewDBEdit.next_file = 2 /\ NewDBEdit.last_sequence = 0
    BY DEF NewDBEdit, NoEdit
  <2>3. GoodEdit(tables, logs, {}, {}, 1, written, NewDBEdit, {})
    BY <1>5, <2>2 DEF GoodEdit, TablesOK, Below, SeqsBelow, Data
  <2>4. Records'[1] = NewDBEdit
    BY <1>7
  <2>5. GoodEdit(tables, logs, acked, synced, 1, written, Records'[1], FilesAt(Records', 1))
    BY <1>4, <1>5, <1>7, <2>1, <2>3
  <2>6. GoodEdit(tables, logs, acked, synced, current, written, Records[1], FilesAt(Records, 1))'
    BY <1>1, <2>5
  <2>7. (Records[1].next_file <= Records[End].next_file /\ Records[1].last_sequence <= Records[End].last_sequence)'
    BY <1>8, <2>2, <2>4
  <2> QED BY <2>6, <2>7 DEF GoodAt
<1>10. DiskOK'
  BY <1>1, <1>2, <1>3, <1>8, <1>9 DEF DiskOK
<1>11. /\ \A n \in DOMAIN logs' : Known(ToSet(logs'[n].records))
       /\ \A n \in DOMAIN tables' : Known(tables'[n].data)
  BY <1>1, <1>4
<1>12. current' # 0 /\ UNCHANGED <<written, bounds>>
  BY <1>1
<1> QED BY <1>3, <1>6, <1>10, <1>11, <1>12, ClosedStep

LEMMA NewDBFailsKeeps == FilesInv /\ NewDBFails => FilesInv'
<1> SUFFICES ASSUME FilesInv, NewDBFails PROVE FilesInv'
  OBVIOUS
<1>1. /\ db.phase = "new_db" /\ db' = NewIncarnation
      /\ manifests' = Restrict(manifests, DOMAIN manifests \ {1})
      /\ UNCHANGED <<current, logs, tables, written, acked, synced, relied, bounds>>
  BY DEF NewDBFails, history, promised
<1>2. db' = [NewIncarnation EXCEPT !.phase = "down"] /\ db'.phase = "down"
  BY <1>1, NewIsDown
<1>3. current = 0
  BY <1>1, InvParts DEF DiskOK
<1>4. DiskTypeOK'
  BY <1>1, InvParts, RestrictFacts DEF DiskTypeOK
<1>5. DiskOK'
  BY <1>1, <1>2, <1>3, InvParts DEF DiskOK
<1>6. /\ \A n \in DOMAIN logs' : Known(ToSet(logs'[n].records))
      /\ \A n \in DOMAIN tables' : Known(tables'[n].data)
  BY <1>1, InvParts DEF UpdatesOK
<1> QED BY <1>1, <1>2, <1>4, <1>5, <1>6, ClosedStep

\* The process ends, or an open fails: the disk stays, but for a MANIFEST not in use.
LEMMA StopKeeps ==
    ASSUME FilesInv, db' = NewIncarnation,
           UNCHANGED <<current, logs, tables, written, acked, synced, relied, bounds>>,
           DOMAIN manifests' \subseteq DOMAIN manifests,
           \A n \in DOMAIN manifests' : manifests'[n] = manifests[n],
           current # 0 => current \in DOMAIN manifests'
    PROVE  FilesInv'
<1>1. db' = [NewIncarnation EXCEPT !.phase = "down"] /\ db'.phase = "down"
  BY NewIsDown
<1>2. DiskTypeOK'
  BY InvParts DEF DiskTypeOK
<1>3. ASSUME current = 0 PROVE DiskOK'
  BY <1>1, <1>3, InvParts DEF DiskOK
<1>4. ASSUME current # 0 PROVE DiskOK'
  <2>1. \A F : KeptTables(tables, tables', F) <=> F \subseteq DOMAIN tables
    BY DEF KeptTables
  <2>2. \A k \in Points : KeptTables(tables, tables', FilesAt(Records, k))
    BY <1>4, <2>1, InvParts DEF DiskOK, GoodAt, GoodEdit, TablesOK
  <2>3. \A n \in DOMAIN logs : KeptLogs(logs, logs', {n})
    BY DEF KeptLogs
  <2>4. written \in Nat /\ relied \in Nat /\ relied <= End
    BY <1>4, InvParts DEF DiskTypeOK, DiskOK
  <2> QED BY <1>1, <1>4, <2>2, <2>3, <2>4, DiskStays
<1>5. /\ \A n \in DOMAIN logs' : Known(ToSet(logs'[n].records))
      /\ \A n \in DOMAIN tables' : Known(tables'[n].data)
  BY InvParts DEF UpdatesOK
<1>6. DiskOK'
  BY <1>3, <1>4
<1> QED BY <1>1, <1>2, <1>5, <1>6, ClosedStep

LEMMA EndProcessKeeps == FilesInv /\ EndProcess => FilesInv'
<1> SUFFICES ASSUME FilesInv, EndProcess PROVE FilesInv'
  OBVIOUS
<1>1. /\ db' = NewIncarnation
      /\ UNCHANGED <<current, manifests, logs, tables, written, acked, synced, relied, bounds>>
  BY DEF EndProcess, diskVars, history, promised
<1>2. current # 0 => current \in DOMAIN manifests
  BY InvParts DEF DiskOK
<1> QED BY <1>1, <1>2, StopKeeps

LEMMA OpenFailsKeeps == FilesInv /\ LogAndApplyFails /\ db.job = "open" => FilesInv'
<1> SUFFICES ASSUME FilesInv, LogAndApplyFails, db.job = "open" PROVE FilesInv'
  OBVIOUS
<1>1. /\ db' = NewIncarnation
      /\ manifests' = IF db.descriptor THEN manifests ELSE Restrict(manifests, DOMAIN manifests \ {db.manifest})
      /\ UNCHANGED <<current, logs, tables, written, acked, synced, relied, bounds>>
  BY DEF LogAndApplyFails, history, promised
<1>2. Busy
  <2>1. db.phase \in Phases
    BY InvParts, DbFields
  <2>2. db.phase \in {"down", "new_db", "recover"} => db.job = "none"
    BY InvParts DEF ClosedOK, NewIncarnation
  <2> QED BY <2>1, <2>2 DEF Phases, Busy
<1>3. current # 0 /\ current \in DOMAIN manifests
  BY <1>2, InvParts DEF DiskOK, Busy
<1>4. ~db.descriptor => db.manifest # current
  BY <1>2, InvParts DEF BusyOK, ManifestOK
<1>5. CASE db.descriptor
  BY <1>1, <1>3, <1>5, StopKeeps
<1>6. CASE ~db.descriptor
  BY <1>1, <1>3, <1>4, <1>6, StopKeeps, RestrictFacts
<1> QED BY <1>5, <1>6

LEMMA DestroyDBKeeps == FilesInv /\ DestroyDB => FilesInv'
<1> SUFFICES ASSUME FilesInv, DestroyDB PROVE FilesInv'
  OBVIOUS
<1>1. /\ db.phase = "down" /\ current' = 0 /\ manifests' = <<>> /\ logs' = <<>> /\ tables' = <<>>
      /\ acked' = {} /\ synced' = {} /\ relied' = 0 /\ UNCHANGED <<db, written, bounds>>
  BY DEF DestroyDB
<1>2. db' = [NewIncarnation EXCEPT !.phase = "down"] /\ db'.phase = "down"
  BY <1>1, InvParts DEF ClosedOK
<1>3. DOMAIN manifests' = {} /\ DOMAIN logs' = {} /\ DOMAIN tables' = {}
  BY <1>1
<1>4. DiskTypeOK'
  BY <1>1, <1>3, InvParts DEF DiskTypeOK
<1>5. DiskOK'
  BY <1>1, <1>2, <1>3 DEF DiskOK
<1> QED BY <1>1, <1>2, <1>3, <1>4, <1>5, ClosedStep

\* What is left of files after a crash of the machine.
LEMMA CutFacts ==
    ASSUME NEW f, NEW g \in Cut(f), NEW S, \A n \in DOMAIN f : f[n].records \in Seq(S) /\ f[n].synced \in Nat
    PROVE  /\ DOMAIN g = DOMAIN f
           /\ \A n \in DOMAIN f : /\ g[n] = [records |-> SubSeq(f[n].records, 1, g[n].synced), synced |-> g[n].synced]
                                  /\ g[n].synced \in Nat /\ g[n].synced >= f[n].synced
                                  /\ g[n].synced <= Len(f[n].records)
<1> DEFINE top == Max({0} \cup {Len(f[n].records) : n \in DOMAIN f})
<1> HIDE DEF top
<1>1. Cut(f) = {[n \in DOMAIN f |-> [records |-> SubSeq(f[n].records, 1, len[n]), synced |-> len[n]]] :
                   len \in {l \in [DOMAIN f -> 0 .. top] : \A n \in DOMAIN f :
                                  l[n] \in f[n].synced .. Len(f[n].records)}}
  BY DEF Cut, top
<1>2. PICK len : /\ \A n \in DOMAIN f : len[n] \in f[n].synced .. Len(f[n].records)
                 /\ g = [n \in DOMAIN f |-> [records |-> SubSeq(f[n].records, 1, len[n]), synced |-> len[n]]]
  BY <1>1
<1>3. ASSUME NEW n \in DOMAIN f
      PROVE  /\ g[n] = [records |-> SubSeq(f[n].records, 1, len[n]), synced |-> len[n]]
             /\ len[n] \in Nat /\ len[n] >= f[n].synced /\ len[n] <= Len(f[n].records)
  <2>1. len[n] \in f[n].synced .. Len(f[n].records) /\ f[n].synced \in Nat /\ Len(f[n].records) \in Nat
    BY <1>2
  <2>2. len[n] \in Nat /\ len[n] >= f[n].synced /\ len[n] <= Len(f[n].records)
    BY <2>1
  <2> QED BY <1>2, <2>2
<1>4. DOMAIN g = DOMAIN f
  BY <1>2
<1> QED BY <1>3, <1>4

\* A log that was cut keeps what was synced.
LEMMA CutLog ==
    ASSUME NEW s \in Seq(AnyUpdate), NEW k \in Nat, NEW l \in Nat, k <= l, l <= Len(s)
    PROVE  LET t == SubSeq(s, 1, l)
           IN  /\ t \in Seq(AnyUpdate) /\ Len(t) = l /\ ToSet(t) \subseteq ToSet(s)
               /\ \A i \in 1 .. k : i \in 1 .. l /\ t[i] = s[i] /\ t[i] \in ToSet(t)
<1> DEFINE t == SubSeq(s, 1, l)
           m == Len(s)
<1>1. t \in Seq(AnyUpdate) /\ Len(t) = l /\ \A i \in 1 .. l : t[i] = s[i]
  BY PrefixFacts
<1>2. DOMAIN t = 1 .. l /\ DOMAIN s = 1 .. m /\ l <= m /\ m \in Nat
  BY <1>1
<1> HIDE DEF t, m
<1>3. \A i \in 1 .. l : i \in 1 .. m
  BY <1>2
<1>4. ToSet(t) \subseteq ToSet(s) /\ \A i \in 1 .. l : t[i] \in ToSet(t)
  BY <1>1, <1>2, <1>3 DEF ToSet
<1>5. \A i \in 1 .. k : i \in 1 .. l
  OBVIOUS
<1> QED BY <1>1, <1>4, <1>5 DEF t

LEMMA MachineCrashKeeps == FilesInv /\ MachineCrash /\ ~UnsyncedCrashes => FilesInv'
<1> SUFFICES ASSUME FilesInv, MachineCrash, ~UnsyncedCrashes PROVE FilesInv'
  OBVIOUS
<1>1. /\ current # 0 => manifests[current].synced >= relied
      /\ db' = NewIncarnation /\ logs' \in Cut(logs) /\ manifests' \in Cut(manifests) /\ acked' = synced
      /\ UNCHANGED <<current, tables, written, synced, relied, bounds>>
  BY DEF MachineCrash
<1>2. db' = [NewIncarnation EXCEPT !.phase = "down"] /\ db'.phase = "down"
  BY <1>1, NewIsDown
<1>3. \A n \in DOMAIN logs : logs[n].records \in Seq(AnyUpdate) /\ logs[n].synced \in Nat
  BY InvParts DEF DiskTypeOK, LogType
<1>4. \A n \in DOMAIN manifests : manifests[n].records \in Seq(Edits) /\ manifests[n].synced \in Nat
  BY InvParts DEF DiskTypeOK, ManifestType
<1>5. /\ DOMAIN logs' = DOMAIN logs
      /\ \A n \in DOMAIN logs :
             /\ logs'[n] = [records |-> SubSeq(logs[n].records, 1, logs'[n].synced), synced |-> logs'[n].synced]
             /\ logs'[n].synced \in Nat /\ logs'[n].synced >= logs[n].synced
             /\ logs'[n].synced <= Len(logs[n].records)
  BY <1>1, <1>3, CutFacts
<1>6. /\ DOMAIN manifests' = DOMAIN manifests
      /\ \A n \in DOMAIN manifests :
             /\ manifests'[n] = [records |-> SubSeq(manifests[n].records, 1, manifests'[n].synced), synced |-> manifests'[n].synced]
             /\ manifests'[n].synced \in Nat /\ manifests'[n].synced >= manifests[n].synced
             /\ manifests'[n].synced <= Len(manifests[n].records)
  BY <1>1, <1>4, CutFacts
<1>7. ASSUME NEW n \in DOMAIN logs
      PROVE  /\ logs'[n] \in LogType /\ logs'[n].synced <= Len(logs'[n].records)
             /\ AllOf(logs', n) \subseteq AllOf(logs, n)
             /\ SyncedOf(logs, n) \subseteq AllOf(logs', n) /\ SyncedOf(logs, n) \subseteq SyncedOf(logs', n)
  <2> DEFINE s == logs[n].records
             k == logs[n].synced
             l == logs'[n].synced
             t == SubSeq(s, 1, l)
  <2>1. s \in Seq(AnyUpdate) /\ k \in Nat /\ l \in Nat /\ k <= l /\ l <= Len(s)
    BY <1>3, <1>5
  <2>2. logs'[n] = [records |-> t, synced |-> l]
    BY <1>5
  <2>3. logs'[n].records = t
    BY <2>2
  <2> HIDE DEF s, k, l, t
  <2>4. /\ t \in Seq(AnyUpdate) /\ Len(t) = l /\ ToSet(t) \subseteq ToSet(s)
        /\ \A i \in 1 .. k : i \in 1 .. l /\ t[i] = s[i] /\ t[i] \in ToSet(t)
    BY <2>1, CutLog DEF t
  <2>5. logs'[n] \in LogType
    BY <2>1, <2>2, <2>4 DEF LogType
  <2>6. AllOf(logs', n) = ToSet(t) /\ AllOf(logs, n) = ToSet(s)
    BY <2>3 DEF AllOf, s
  <2>7. SyncedOf(logs', n) = {t[i] : i \in 1 .. l} /\ SyncedOf(logs, n) = {s[i] : i \in 1 .. k}
    BY <2>3 DEF SyncedOf, s, k, l
  <2>8. logs'[n].synced <= Len(logs'[n].records)
    BY <2>1, <2>3, <2>4 DEF l
  <2> QED BY <2>4, <2>5, <2>6, <2>7, <2>8
<1>8. ASSUME NEW n \in DOMAIN manifests
      PROVE  manifests'[n] \in ManifestType /\ manifests'[n].synced <= Len(manifests'[n].records)
  <2> DEFINE s == manifests[n].records
             l == manifests'[n].synced
             t == SubSeq(s, 1, l)
  <2>1. s \in Seq(Edits) /\ l \in 0 .. Len(s)
    BY <1>4, <1>6
  <2>2. manifests'[n] = [records |-> t, synced |-> l]
    BY <1>6
  <2> HIDE DEF s, l, t
  <2>3. t \in Seq(Edits) /\ Len(t) = l /\ l \in Nat
    BY <2>1, PrefixFacts DEF t
  <2> QED BY <2>2, <2>3 DEF ManifestType
<1>9. DiskTypeOK'
  BY <1>1, <1>5, <1>6, <1>7, <1>8, InvParts DEF DiskTypeOK
<1>10. /\ \A n \in DOMAIN logs' : Known(ToSet(logs'[n].records))
       /\ \A n \in DOMAIN tables' : Known(tables'[n].data)
  <2>1. \A n \in DOMAIN logs' : ToSet(logs'[n].records) \subseteq ToSet(logs[n].records)
    BY <1>5, <1>7 DEF AllOf
  <2> QED BY <1>1, <1>5, <2>1, InvParts DEF UpdatesOK, Known
<1>11. ASSUME current = 0 PROVE DiskOK'
  BY <1>1, <1>2, <1>5, <1>11, InvParts DEF DiskOK, DiskTypeOK
<1>12. ASSUME current # 0 PROVE DiskOK'
  <2>1. /\ current \in DOMAIN manifests /\ Records \in Seq(Edits) /\ End \in Nat
        /\ manifests[current].synced \in Nat /\ relied \in Nat
        /\ manifests[current].synced > 0 \/ relied > 0
    BY <1>12, RecordsFacts, InvParts DEF DiskOK
  <2>2. PICK l \in Nat : /\ l = manifests'[current].synced
                         /\ l >= manifests[current].synced /\ l <= Len(Records)
                         /\ manifests'[current] = [records |-> SubSeq(Records, 1, l), synced |-> l]
    BY <1>6, <2>1 DEF Records
  <2>3. l \in 1 .. End /\ l >= relied
    BY <1>1, <1>12, <2>1, <2>2 DEF End
  <2>4. Records' = SubSeq(Records, 1, l)
    BY <1>1, <2>2 DEF Records
  <2>5. l \in Points
    BY <2>2, <2>3 DEF Points
  <2>6. manifests'[current'].synced = l /\ current' \in DOMAIN manifests'
    BY <1>1, <1>6, <2>1, <2>2
  <2>7. Len(Records') = l /\ Records'[l] = Records[l] /\ FilesAt(Records', l) = FilesAt(Records, l)
    <3>1. l \in 0 .. Len(Records) /\ l \in 0 .. l /\ l \in 1 .. l
      BY <2>3 DEF End
    <3> QED BY <2>1, <2>4, <3>1, PrefixFacts, FilesAtPrefix
  <2>8. End' = l
    BY <2>7 DEF End
  <2>9. Points' = {l}
    BY <1>1, <2>3, <2>6, <2>8 DEF Points
  <2>10. GoodAt(l)
    BY <1>12, <2>5, InvParts DEF DiskOK
  <2> DEFINE e == Records[l]
             F == FilesAt(Records, l)
  <2>11. GoodEdit(tables, logs, acked, synced, current, written, e, F)
    BY <2>10 DEF GoodAt
  <2> HIDE DEF e, F
  <2>12. GoodEdit(tables, logs', synced, synced, current, written, e, F)
    <3>1. From(logs', e.log_number) = From(logs, e.log_number)
      BY <1>5 DEF From
    <3>2. /\ SyncedData(logs, From(logs, e.log_number)) \subseteq LogData(logs', From(logs, e.log_number))
          /\ SyncedData(logs, From(logs, e.log_number)) \subseteq SyncedData(logs', From(logs, e.log_number))
      BY <1>7 DEF SyncedData, LogData, From
    <3> QED BY <2>11, <3>1, <3>2 DEF GoodEdit
  <2>13. GoodEdit(tables, logs, acked, synced, current, written, Records[l], FilesAt(Records, l))'
    BY <1>1, <2>7, <2>12 DEF e, F
  <2>14. /\ Records'[l].next_file <= Records'[End'].next_file
         /\ Records'[l].last_sequence <= Records'[End'].last_sequence
    BY <2>7, <2>8, <2>11 DEF GoodEdit, e
  <2>15. GoodAt(l)'
    BY <2>13, <2>14 DEF GoodAt
  <2> QED BY <1>1, <1>2, <1>12, <2>3, <2>6, <2>8, <2>9, <2>15 DEF DiskOK
<1>13. DiskOK' /\ UNCHANGED <<written, bounds>>
  BY <1>1, <1>11, <1>12
<1> QED BY <1>2, <1>9, <1>10, <1>13, ClosedStep
-----------------------------------------------------------------------------
\* Recovery.

\* What recovery reads.
LEMMA RecoverReads ==
    ASSUME FilesInv, current # 0
    PROVE  LET e == Records[End]
           IN  /\ LastOf(Records, "log_number") = e.log_number /\ LastOf(Records, "next_file") = e.next_file
               /\ LastOf(Records, "last_sequence") = e.last_sequence /\ FilesOf(Records) = FilesAt(Records, End)
               /\ e.log_number \in Nat /\ e.next_file \in Nat /\ e.last_sequence \in Nat
               /\ FilesAt(Records, End) \subseteq DOMAIN tables
<1>1. Records \in Seq(Edits) /\ End \in Nat /\ End >= 1 /\ GoodAt(End) /\ End = Len(Records)
  BY RecordsFacts DEF End
<1>2. /\ Records[End].log_number \in Nat /\ Records[End].next_file \in Nat /\ Records[End].last_sequence \in Nat
      /\ FilesAt(Records, End) \subseteq DOMAIN tables
  BY <1>1 DEF GoodAt, GoodEdit, TablesOK
<1>3. Len(Records) > 0
  BY <1>1
<1>4. /\ LastOf(Records, "log_number") = Records[End].log_number
      /\ LastOf(Records, "next_file") = Records[End].next_file
      /\ LastOf(Records, "last_sequence") = Records[End].last_sequence
  BY <1>1, <1>2, <1>3, LastOfLast
<1> QED BY <1>1, <1>2, <1>4, FilesOfAll

\* The database is not open, and the logs are read.
Replays == db.phase # "open" /\ db'.phase = "replay" /\ UNCHANGED <<acked, synced>>

\* Files are read as they were written.
Intact ==
    /\ current \in DOMAIN manifests => ManifestReads = {Records}
    /\ \A n \in DOMAIN logs : Reads("log", n, logs[n].records) = {logs[n].records}

LEMMA RecoverKeeps == FilesInv /\ Intact /\ Recover => FilesInv' /\ Replays
<1> SUFFICES ASSUME FilesInv, Intact, Recover PROVE FilesInv' /\ Replays
  OBVIOUS
<1> DEFINE e == Records[End]
           F == FilesAt(Records, End)
<1>1. db.phase \in {"down", "recover"} /\ current # 0
  BY Zenon, InvParts DEF Recover, ClosedOK
<1>2. db = [NewIncarnation EXCEPT !.phase = db.phase] /\ db \in DbType /\ IsDb(db)
  BY <1>1, InvParts, DbIsDb DEF ClosedOK
<1>3. /\ LastOf(Records, "log_number") = e.log_number /\ LastOf(Records, "next_file") = e.next_file
      /\ LastOf(Records, "last_sequence") = e.last_sequence /\ FilesOf(Records) = F
      /\ e.log_number \in Nat /\ e.next_file \in Nat /\ e.last_sequence \in Nat
      /\ F \subseteq DOMAIN tables
  BY <1>1, RecoverReads
<1>4. /\ current \in DOMAIN manifests /\ End \in Nat /\ End >= 1 /\ End \in Points /\ GoodAt(End)
      /\ relied \in Nat /\ relied <= End
  BY <1>1, RecordsFacts
<1> HIDE DEF e, F
<1>5. /\ UNCHANGED <<current, manifests, logs, tables, written, acked, synced, bounds>>
      /\ \E reuse \in ReuseManifest :
           /\ db' = [db EXCEPT !.phase = "replay", !.version = F,
                        !.log_number = e.log_number, !.last_sequence = e.last_sequence,
                        !.next_file = e.next_file + 1,
                        !.manifest = IF reuse THEN current ELSE e.next_file,
                        !.descriptor = reuse, !.save_manifest = ~reuse,
                        !.logs_left = NeededLogs(e.log_number, db)]
           /\ relied' = IF reuse THEN End ELSE relied
  <2>1. /\ -1 \notin {e.log_number, e.next_file, e.last_sequence}
        /\ F \subseteq DOMAIN tables \cup DOMAIN logs \cup DOMAIN manifests
    BY <1>3, <1>4
  <2>2. ManifestReads = {Records}
    BY <1>4 DEF Intact
  <2>3. UNCHANGED <<current, manifests, logs, tables, written, acked, synced, bounds>>
    BY Zenon DEF Recover, diskVars, promised
  <2>4. \E edits \in ManifestReads : RecoverFrom(edits)
    BY Zenon DEF Recover
  <2>5. RecoverFrom(Records)
    BY Zenon, <2>2, <2>4
  <2> QED BY ZenonT(60), <1>3, <2>1, <2>3, <2>5 DEF RecoverFrom, Records, End
<1>6. PICK reuse \in ReuseManifest :
           /\ db' = [db EXCEPT !.phase = "replay", !.version = F,
                        !.log_number = e.log_number, !.last_sequence = e.last_sequence,
                        !.next_file = e.next_file + 1,
                        !.manifest = IF reuse THEN current ELSE e.next_file,
                        !.descriptor = reuse, !.save_manifest = ~reuse,
                        !.logs_left = NeededLogs(e.log_number, db)]
           /\ relied' = IF reuse THEN End ELSE relied
  BY Zenon, <1>5
<1>7. reuse \in BOOLEAN
  BY InvParts DEF ReuseManifest, UpdatesOK, Scenario
<1>8. NeededLogs(e.log_number, db) = From(logs, e.log_number)
  BY DEF NeededLogs, From
<1>9. /\ db.pinned = <<>> /\ db.logfile = 0 /\ db.mem = {} /\ db.imm = {} /\ db.has_imm = FALSE
      /\ db.pending = {} /\ db.bg_error = FALSE /\ db.edit = NoEdit /\ db.job = "none"
      /\ db.step = "none" /\ db.output = 0 /\ db.merge = [inputs |-> {}, output |-> 0]
  BY <1>2 DEF NewIncarnation
<1>10. /\ IsDb(db') /\ db'.phase = "replay" /\ db'.version = F /\ db'.log_number = e.log_number
       /\ db'.last_sequence = e.last_sequence /\ db'.next_file = e.next_file + 1
       /\ db'.manifest = (IF reuse THEN current ELSE e.next_file) /\ db'.descriptor = reuse
       /\ db'.save_manifest = ~reuse /\ db'.logs_left = From(logs, e.log_number)
       /\ db'.pinned = <<>> /\ db'.logfile = 0 /\ db'.mem = {} /\ db'.imm = {}
       /\ db'.has_imm = FALSE /\ db'.pending = {} /\ db'.bg_error = FALSE /\ db'.edit = NoEdit
       /\ db'.job = "none" /\ db'.step = "none" /\ db'.output = 0
       /\ db'.merge = [inputs |-> {}, output |-> 0]
  BY ZenonT(120), <1>2, <1>6, <1>8, <1>9 DEF IsDb, DbNames
<1>11. NoEdit \in Edits /\ NoEdit.added = {} /\ NoEdit.deleted = {}
  BY DEF NoEdit, Edits
<1>12. current \in Nat /\ DOMAIN logs \subseteq Nat /\ DOMAIN tables \subseteq Nat /\ written \in Nat
  BY InvParts DEF DiskTypeOK
<1>13. db' \in DbType
  <2>1. F \subseteq Nat /\ From(logs, e.log_number) \subseteq Nat
    BY <1>3, <1>12 DEF From
  <2>2. /\ db'.pinned \in Seq(SUBSET Nat) /\ db'.logfile \in Nat /\ db'.mem \subseteq AnyUpdate
        /\ db'.imm \subseteq AnyUpdate /\ db'.pending \subseteq Nat /\ db'.output \in Nat
    BY <1>10
  <2>3. db'.merge \in [inputs : SUBSET Nat, output : Nat] /\ db'.edit \in Edits
    BY <1>10, <1>11
  <2>4. db'.phase \in Phases /\ db'.job \in Jobs /\ db'.step \in Steps
    BY <1>10 DEF Phases, Jobs, Steps
  <2>5. db'.log_number \in Nat /\ db'.next_file \in Nat /\ db'.last_sequence \in Nat /\ db'.manifest \in Nat
    BY <1>3, <1>7, <1>10, <1>12
  <2>6. db'.descriptor \in BOOLEAN /\ db'.has_imm \in BOOLEAN /\ db'.bg_error \in BOOLEAN /\ db'.save_manifest \in BOOLEAN
    BY <1>7, <1>10
  <2> QED BY <1>10, <2>1, <2>2, <2>3, <2>4, <2>5, <2>6, DbFromFields
<1>14. relied' \in Nat /\ relied <= relied' /\ relied' <= End /\ (reuse => relied' = End)
  BY <1>4, <1>6, <1>7
<1>15. /\ DiskOK' /\ Records' = Records /\ End' = End /\ Points' \subseteq Points
  <2>1. \A G : KeptTables(tables, tables', G) <=> G \subseteq DOMAIN tables
    BY <1>5 DEF KeptTables
  <2>2. \A k \in Points : KeptTables(tables, tables', FilesAt(Records, k))
    BY <1>1, <2>1, InvParts DEF DiskOK, GoodAt, GoodEdit, TablesOK
  <2>3. \A n \in DOMAIN logs : KeptLogs(logs, logs', {n})
    BY <1>5 DEF KeptLogs
  <2>4. /\ UNCHANGED <<current, acked, synced>> /\ current \in DOMAIN manifests'
        /\ manifests'[current] = manifests[current] /\ written' \in Nat /\ written <= written'
        /\ db'.phase # "new_db"
    BY <1>4, <1>5, <1>10, <1>12
  <2> QED BY <1>1, <1>14, <2>2, <2>3, <2>4, DiskStays
<1>16. GoodEdit(tables, logs, acked, synced, current, written, e, F)
  BY <1>4 DEF GoodAt, e, F
<1>17. DiskTypeOK'
  BY <1>5, <1>14, InvParts DEF DiskTypeOK
<1>18. UpdatesOK'
  <2>1. e.last_sequence <= written
    BY <1>16 DEF GoodEdit
  <2> QED BY <1>5, <1>10, <2>1, InvParts DEF UpdatesOK, Known
<1>19. ClosedOK' /\ OpenOK' /\ JobsOK'
  BY <1>10 DEF ClosedOK, OpenOK, JobsOK
<1>20. \A k \in Points : Records[k].next_file <= e.next_file /\ Records[k].last_sequence <= e.last_sequence
                         /\ Records[k].next_file \in Nat
  BY <1>1, InvParts DEF DiskOK, GoodAt, GoodEdit, e
<1>21. NumbersOK'
  <2>1. (\A k \in Points : Records[k].next_file <= db.next_file /\ Records[k].last_sequence <= db.last_sequence)'
    BY <1>3, <1>10, <1>15, <1>20
  <2>2. \A n \in DOMAIN logs' : n < db'.next_file \/ n \in db'.logs_left
    <3>1. e.log_number < e.next_file
      BY <1>16 DEF GoodEdit
    <3>2. ASSUME NEW n \in DOMAIN logs PROVE n < e.next_file + 1 \/ n \in From(logs, e.log_number)
      BY <1>3, <1>12, <3>1 DEF From
    <3> QED BY <1>5, <1>10, <3>2
  <2>3. db'.version \cup db'.edit.added = F /\ db'.mem \cup db'.imm = {}
    BY <1>10, <1>11
  <2>4. TablesOK(tables', F) /\ Below(F, db'.next_file) /\ SeqsBelow(Data(tables', F), db'.last_sequence)
    <3>1. \A n \in F : n \in Nat
      BY <1>3, <1>12
    <3> QED BY <1>3, <1>5, <1>10, <1>16, <3>1 DEF GoodEdit, Below
  <2>5. SeqsBelow(db'.mem \cup db'.imm \cup Data(tables', F), db'.last_sequence)
    BY <2>3, <2>4 DEF SeqsBelow
  <2>6. db'.log_number < db'.next_file
    BY <1>3, <1>10, <1>16 DEF GoodEdit
  <2> QED BY <1>10, <2>1, <2>2, <2>3, <2>4, <2>5, <2>6 DEF NumbersOK
<1>22. EditOK'
  BY <1>10 DEF EditOK, Applying, InManifest
<1>23. ManifestOK'
  <2>1. current < e.next_file
    BY <1>16 DEF GoodEdit
  <2>2. /\ FilesAt(Records', End') = db'.version /\ Records'[End'].log_number = db'.log_number
    BY <1>10, <1>15 DEF e, F
  <2>3. db'.descriptor => db'.manifest = current'
    BY <1>5, <1>7, <1>10
  <2>4. ~db'.descriptor => db'.manifest # 0 /\ db'.manifest # current' /\ db'.manifest < db'.next_file
    BY <1>3, <1>5, <1>7, <1>10, <1>12, <2>1
  <2> QED BY <1>10, <2>2, <2>3, <2>4 DEF ManifestOK, InManifest
<1>24. ReplayOK'
  <2>1. db'.version \cup db'.edit.added = F
    BY <1>10, <1>11
  <2>2. /\ acked' \subseteq Data(tables', F) \cup LogData(logs', db'.logs_left)
        /\ synced' \subseteq Data(tables', F) \cup SyncedData(logs', db'.logs_left)
    BY <1>5, <1>10, <1>16 DEF GoodEdit
  <2>3. db'.descriptor => relied' = End'
    BY <1>7, <1>10, <1>14, <1>15
  <2> QED BY <1>5, <1>7, <1>10, <1>11, <2>1, <2>2, <2>3 DEF ReplayOK
<1>25. Replays
  BY <1>1, <1>5, <1>10 DEF Replays
<1> QED BY <1>13, <1>15, <1>17, <1>18, <1>19, <1>21, <1>22, <1>23, <1>24, <1>25 DEF FilesInv, BusyOK

\* The two parts of a log that goes into tables.
LEMMA SplitFacts ==
    ASSUME NEW S, NEW s \in Seq(S), NEW full \in 0 .. Len(s)
    PROVE  ToSet(SubSeq(s, 1, full)) \cup ToSet(SubSeq(s, full + 1, Len(s))) = ToSet(s)
<1> DEFINE a == SubSeq(s, 1, full)
           b == SubSeq(s, full + 1, Len(s))
           m == Len(s)
<1>1. /\ m \in Nat /\ full \in Nat /\ full <= m /\ DOMAIN s = 1 .. m
      /\ DOMAIN a = 1 .. full /\ \A i \in 1 .. full : a[i] = s[i]
  BY PrefixFacts
<1>2. DOMAIN b = 1 .. (m - full) /\ \A i \in 1 .. (m - full) : b[i] = s[full + i]
  OBVIOUS
<1> HIDE DEF a, b, m
<1>3. ToSet(a) = {s[i] : i \in 1 .. full} /\ ToSet(s) = {s[i] : i \in 1 .. m}
  <2>1. \A i \in 1 .. full : i \in 1 .. m
    BY <1>1
  <2> QED BY <1>1, <2>1 DEF ToSet
<1>4. ToSet(b) = {s[full + i] : i \in 1 .. (m - full)}
  BY <1>2 DEF ToSet
<1>5. ASSUME NEW i \in 1 .. m PROVE s[i] \in ToSet(a) \cup ToSet(b)
  <2>1. CASE i <= full
    <3>1. i \in 1 .. full
      BY <1>1, <2>1
    <3> QED BY <1>3, <3>1
  <2>2. CASE i > full
    <3>1. i - full \in 1 .. (m - full) /\ full + (i - full) = i
      BY <1>1, <2>2
    <3>2. s[full + (i - full)] \in ToSet(b)
      BY <1>4, <3>1
    <3> QED BY <3>1, <3>2
  <2> QED BY <1>1, <2>1, <2>2
<1>6. \A i \in 1 .. full : i \in 1 .. m
  BY <1>1
<1>7. \A i \in 1 .. (m - full) : full + i \in 1 .. m
  BY <1>1
<1> QED BY <1>3, <1>4, <1>5, <1>6, <1>7 DEF a, b, m

LEMMA MadeFacts ==
    ASSUME NEW a, NEW b, NEW next \in Nat
    PROVE  LET parts == <<a, b>>
               new == {i \in 1 .. 2 : parts[i] # <<>>}
               number(i) == IF i = 2 /\ 1 \in new THEN next + 1 ELSE next
               made == {number(i) : i \in new}
               data(k) == UNION {ToSet(parts[i]) : i \in {j \in new : number(j) = k}}
           IN  /\ Cardinality(new) \in Nat /\ (new = {} <=> made = {})
               /\ \A k \in made : k \in Nat /\ k >= next /\ k < next + Cardinality(new)
               /\ UNION {data(k) : k \in made} = ToSet(a) \cup ToSet(b)
<1> DEFINE parts == <<a, b>>
           new == {i \in 1 .. 2 : parts[i] # <<>>}
           number(i) == IF i = 2 /\ 1 \in new THEN next + 1 ELSE next
           made == {number(i) : i \in new}
           data(k) == UNION {ToSet(parts[i]) : i \in {j \in new : number(j) = k}}
<1>1. new \subseteq {1, 2} /\ (1 \in new <=> a # <<>>) /\ (2 \in new <=> b # <<>>)
  OBVIOUS
<1>2. ToSet(<<>>) = {}
  BY DEF ToSet
<1>3. UNION {data(k) : k \in made} = UNION {ToSet(parts[i]) : i \in new} /\ (new = {} <=> made = {})
  <2> HIDE DEF parts, new, number
  <2>1. ASSUME NEW i \in new PROVE ToSet(parts[i]) \subseteq data(number(i)) /\ number(i) \in made
    OBVIOUS
  <2>2. ASSUME NEW k \in made PROVE data(k) \subseteq UNION {ToSet(parts[i]) : i \in new}
    OBVIOUS
  <2>3. new = {} => made = {}
    OBVIOUS
  <2>4. made = {} => new = {}
    BY <2>1
  <2> HIDE DEF data, made
  <2> QED BY <2>1, <2>2, <2>3, <2>4
<1>4. UNION {ToSet(parts[i]) : i \in new} = ToSet(a) \cup ToSet(b)
  <2>1. parts[1] = a /\ parts[2] = b
    OBVIOUS
  <2>2. 1 \notin new => ToSet(a) = {}
    BY <1>1, <1>2
  <2>3. 2 \notin new => ToSet(b) = {}
    BY <1>1, <1>2
  <2> HIDE DEF parts, new
  <2> QED BY <1>1, <2>1, <2>2, <2>3
<1> HIDE DEF new
<1>6. /\ Cardinality({}) = 0 /\ Cardinality({1}) = 1 /\ Cardinality({2}) = 1 /\ Cardinality({1, 2}) = 2
  <2>1. IsFiniteSet({}) /\ Cardinality({}) = 0
    BY FS_EmptySet
  <2>2. IsFiniteSet({1}) /\ Cardinality({1}) = 1 /\ Cardinality({2}) = 1
    BY FS_Singleton
  <2>3. Cardinality({1} \cup {2}) = 2
    <3>1. 2 \notin {1}
      OBVIOUS
    <3> QED BY <2>2, <3>1, FS_AddElement
  <2>4. {1} \cup {2} = {1, 2}
    OBVIOUS
  <2> QED BY <2>1, <2>2, <2>3, <2>4
<1>7. Cardinality(new) \in Nat /\ \A k \in made : k \in Nat /\ k >= next /\ k < next + Cardinality(new)
  <2>1. CASE new = {}
    BY <1>6, <2>1
  <2>2. CASE new = {1}
    <3>1. made = {next}
      BY <2>2
    <3> QED BY <1>6, <2>2, <3>1
  <2>3. CASE new = {2}
    <3>1. made = {next}
      BY <2>3
    <3> QED BY <1>6, <2>3, <3>1
  <2>4. CASE new = {1, 2}
    <3>1. made = {next, next + 1}
      BY <2>4
    <3> QED BY <1>6, <2>4, <3>1
  <2> QED BY <1>1, <2>1, <2>2, <2>3, <2>4
<1> QED BY <1>3, <1>4, <1>7 DEF new

\* A busy database has a MANIFEST, and all parts of the invariant hold.
LEMMA BusyFacts ==
    ASSUME FilesInv, Busy
    PROVE  /\ NumbersOK /\ EditOK /\ ManifestOK /\ current # 0 /\ IsDb(db) /\ current \in Nat /\ written \in Nat
           /\ DOMAIN logs \subseteq Nat /\ DOMAIN tables \subseteq Nat
           /\ \A k \in Points : FilesAt(Records, k) \subseteq DOMAIN tables /\ Below(FilesAt(Records, k), db.next_file)
<1>1. NumbersOK /\ EditOK /\ ManifestOK
  BY InvParts DEF BusyOK
<1>2. current # 0 /\ \A k \in Points : GoodAt(k)
  BY InvParts DEF DiskOK, Busy
<1>3. IsDb(db) /\ db.next_file \in Nat
  BY InvParts, DbIsDb, DbFields
<1>4. current \in Nat /\ written \in Nat /\ DOMAIN logs \subseteq Nat /\ DOMAIN tables \subseteq Nat
  BY InvParts DEF DiskTypeOK
<1>5. ASSUME NEW k \in Points
      PROVE  FilesAt(Records, k) \subseteq DOMAIN tables /\ Below(FilesAt(Records, k), db.next_file)
  <2>1. /\ TablesOK(tables, FilesAt(Records, k)) /\ Below(FilesAt(Records, k), Records[k].next_file)
        /\ Records[k].next_file \in Nat
    BY <1>2 DEF GoodAt, GoodEdit
  <2>2. Records[k].next_file <= db.next_file
    BY <1>1 DEF NumbersOK
  <2>3. FilesAt(Records, k) \subseteq Nat /\ FilesAt(Records, k) \subseteq DOMAIN tables
    BY <1>4, <2>1 DEF TablesOK
  <2> QED BY <1>3, <2>1, <2>2, <2>3 DEF Below
<1> QED BY <1>1, <1>2, <1>3, <1>4, <1>5

LEMMA SeqsUp ==
    ASSUME NEW U, U \subseteq AnyUpdate, NEW a \in Nat, NEW b \in Nat, a <= b, SeqsBelow(U, a)
    PROVE  SeqsBelow(U, b)
BY DEF SeqsBelow, AnyUpdate

LEMMA BelowUp ==
    ASSUME NEW F, F \subseteq Nat, NEW a \in Nat, NEW b \in Nat, a <= b, Below(F, a)
    PROVE  Below(F, b)
BY DEF Below

LEMMA DataTyped ==
    ASSUME DiskTypeOK, NEW F, TablesOK(tables, F)
    PROVE  F \subseteq Nat /\ Data(tables, F) \subseteq AnyUpdate
BY DEF DiskTypeOK, TablesOK, Data, TableType

LEMMA SyncedInAll ==
    ASSUME DiskTypeOK, NEW n \in DOMAIN logs
    PROVE  SyncedOf(logs, n) \subseteq AllOf(logs, n)
<1> DEFINE s == logs[n].records
           l == logs[n].synced
<1>1. l \in Nat /\ l <= Len(s) /\ s \in Seq(AnyUpdate)
  BY DEF DiskTypeOK, LogType
<1> HIDE DEF s, l
<1>2. \A i \in 1 .. l : i \in 1 .. Len(s)
  BY <1>1
<1>3. \A i \in 1 .. l : s[i] \in ToSet(s)
  BY <1>1, <1>2, ToSetFacts
<1> QED BY <1>3 DEF SyncedOf, AllOf, s, l

\* Numbers that grow stay ahead of those on the disk.
LEMMA PointsUp ==
    ASSUME FilesInv, Busy, Records' = Records, Points' \subseteq Points, NEW next \in Nat, NEW last \in Nat,
           db.next_file <= next, db.last_sequence <= last
    PROVE  \A k \in Points' : Records'[k].next_file <= next /\ Records'[k].last_sequence <= last
<1>1. \A k \in Points : Records[k].next_file \in Nat /\ Records[k].last_sequence \in Nat
  BY BusyFacts, InvParts DEF DiskOK, GoodAt, GoodEdit
<1>2. \A k \in Points : Records[k].next_file <= db.next_file /\ Records[k].last_sequence <= db.last_sequence
  BY BusyFacts DEF NumbersOK
<1>3. db.next_file \in Nat /\ db.last_sequence \in Nat
  BY InvParts, DbFields
<1>4. \A k \in Points : Records[k].next_file <= next /\ Records[k].last_sequence <= last
  BY <1>1, <1>2, <1>3
<1> QED BY <1>4

\* Steps that keep the MANIFEST, the promises and all files that are there.
LEMMA QuietDisk ==
    ASSUME FilesInv, Busy, UNCHANGED <<current, relied, acked, synced>>, current \in DOMAIN manifests',
           manifests'[current] = manifests[current], written' \in Nat, written <= written', db'.phase # "new_db",
           KeptTables(tables, tables', DOMAIN tables), \A n \in DOMAIN logs : KeptLogs(logs, logs', {n})
    PROVE  /\ DiskOK' /\ Records' = Records /\ End' = End /\ Points' = Points
<1>1. current # 0 /\ \A k \in Points : FilesAt(Records, k) \subseteq DOMAIN tables
  BY BusyFacts
<1>2. \A k \in Points : KeptTables(tables, tables', FilesAt(Records, k))
  BY <1>1, KeptSubset
<1>3. relied' \in Nat /\ relied <= relied' /\ relied' <= End
  BY <1>1, RecordsFacts
<1> QED BY <1>1, <1>2, <1>3, DiskStays

\* While logs are left.
LEMMA ReplayFacts ==
    ASSUME FilesInv, db.phase = "replay", db.logs_left # {}
    PROVE  LET n == Min(db.logs_left)
               s == logs[n].records
           IN  /\ Busy /\ db.job = "none" /\ db.step = "none" /\ db.logfile = 0 /\ db.mem = {}
               /\ n \in db.logs_left /\ n \in Nat /\ n \in DOMAIN logs /\ n >= db.log_number
               /\ s \in Seq(AnyUpdate) /\ Known(ToSet(s)) /\ ToSet(s) \subseteq AnyUpdate
               /\ MaxSeq(s, db.last_sequence) \in Nat /\ db.last_sequence <= MaxSeq(s, db.last_sequence)
               /\ MaxSeq(s, db.last_sequence) <= written /\ SeqsBelow(ToSet(s), MaxSeq(s, db.last_sequence))
<1> DEFINE n == Min(db.logs_left)
           s == logs[n].records
<1>1. Busy /\ db.logs_left \subseteq Nat /\ db.last_sequence \in Nat
  BY InvParts, DbFields DEF Busy
<1>2. db.job = "none" /\ db.logfile = 0 /\ db.logs_left \subseteq From(logs, db.log_number)
  BY InvParts DEF ReplayOK
<1>3. db.step = "none" /\ db.mem = {}
  BY <1>1, <1>2, BusyFacts DEF NumbersOK
<1>4. n \in db.logs_left
  BY <1>1, LeastOf
<1>5. n \in DOMAIN logs /\ n >= db.log_number /\ n \in Nat
  BY <1>1, <1>2, <1>4 DEF From
<1>6. s \in Seq(AnyUpdate) /\ Known(ToSet(s))
  BY <1>5, InvParts DEF DiskTypeOK, LogType, UpdatesOK
<1>7. ToSet(s) \subseteq AnyUpdate
  BY <1>6, ToSetFacts
<1> HIDE DEF s
<1>8. written \in Nat /\ db.last_sequence <= written
  BY InvParts DEF DiskTypeOK, UpdatesOK
<1>9. \A u \in ToSet(s) : u.seq <= written
  BY <1>6, <1>8 DEF Known
<1>10. /\ MaxSeq(s, db.last_sequence) \in Nat /\ db.last_sequence <= MaxSeq(s, db.last_sequence)
       /\ MaxSeq(s, db.last_sequence) <= written /\ SeqsBelow(ToSet(s), MaxSeq(s, db.last_sequence))
  BY <1>1, <1>6, <1>8, <1>9, MaxSeqFacts DEF SeqsBelow
<1> QED BY <1>1, <1>2, <1>3, <1>4, <1>5, <1>6, <1>7, <1>10 DEF s

LEMMA NextAfterFacts ==
    ASSUME NEW next \in Nat, NEW n \in Nat
    PROVE  NextAfter(next, n) \in Nat /\ NextAfter(next, n) >= next /\ NextAfter(next, n) > n
BY DEF NextAfter

\* The last log goes on being used.
LEMMA ReuseLogKeeps ==
    ASSUME FilesInv, db.phase = "replay", NEW n, n = Min(db.logs_left), db.logs_left = {n},
           UNCHANGED <<current, manifests, logs, tables, written, acked, synced, relied, bounds>>,
           db' = [db EXCEPT !.logs_left = {}, !.last_sequence = MaxSeq(logs[n].records, @),
                            !.logfile = n, !.mem = ToSet(logs[n].records), !.next_file = NextAfter(@, n)]
    PROVE  FilesInv' /\ db'.phase = "replay"
<1> DEFINE s == logs[n].records
           last == MaxSeq(s, db.last_sequence)
           next == NextAfter(db.next_file, n)
           U == ToSet(s)
<1>1. /\ Busy /\ db.job = "none" /\ db.step = "none" /\ db.logfile = 0 /\ db.mem = {}
      /\ n \in db.logs_left /\ n \in Nat /\ n \in DOMAIN logs /\ n >= db.log_number
      /\ s \in Seq(AnyUpdate) /\ Known(U) /\ U \subseteq AnyUpdate
      /\ last \in Nat /\ db.last_sequence <= last /\ last <= written /\ SeqsBelow(U, last)
  BY ReplayFacts
<1>2. db \in DbType /\ db.next_file \in Nat /\ db.last_sequence \in Nat /\ db.log_number \in Nat /\ db.manifest \in Nat
  BY InvParts, DbFields
<1>3. next \in Nat /\ next >= db.next_file /\ next > n
  BY <1>1, <1>2, NextAfterFacts
<1>4. SyncedOf(logs, n) \subseteq U /\ AllOf(logs, n) = U
  BY <1>1, InvParts, SyncedInAll DEF AllOf
<1> HIDE DEF s, last, next, U
<1>5. /\ IsDb(db') /\ db'.logs_left = {} /\ db'.last_sequence = last /\ db'.logfile = n
      /\ db'.mem = U /\ db'.next_file = next /\ db'.phase = db.phase /\ db'.version = db.version
      /\ db'.pinned = db.pinned /\ db'.log_number = db.log_number /\ db'.manifest = db.manifest
      /\ db'.descriptor = db.descriptor /\ db'.imm = db.imm /\ db'.has_imm = db.has_imm
      /\ db'.pending = db.pending /\ db'.bg_error = db.bg_error
      /\ db'.save_manifest = db.save_manifest /\ db'.edit = db.edit /\ db'.job = db.job
      /\ db'.step = db.step /\ db'.output = db.output /\ db'.merge = db.merge
  <2>1. db' = [db EXCEPT !.logs_left = {}, !.last_sequence = last, !.logfile = n, !.mem = U, !.next_file = next]
    BY <1>2 DEF s, last, next, U
  <2> QED BY ZenonT(60), <1>2, <2>1, DbIsDb DEF IsDb, DbNames
<1>6. db' \in DbType
  BY ZenonT(60), <1>1, <1>2, <1>3, <1>5, DbFields, DbFromFields
<1>7. DiskOK' /\ Records' = Records /\ End' = End /\ Points' = Points
  <2>1. /\ current \in DOMAIN manifests /\ written \in Nat
    BY <1>1, BusyFacts, RecordsFacts
  <2>2. KeptTables(tables, tables', DOMAIN tables) /\ \A m \in DOMAIN logs : KeptLogs(logs, logs', {m})
    BY DEF KeptTables, KeptLogs
  <2> QED BY <1>1, <1>5, <2>1, <2>2, QuietDisk
<1>8. DiskTypeOK'
  BY InvParts DEF DiskTypeOK
<1>9. UpdatesOK'
  BY <1>1, <1>5, InvParts DEF UpdatesOK, Known
<1>10. ClosedOK' /\ OpenOK' /\ JobsOK'
  BY <1>5 DEF ClosedOK, OpenOK, JobsOK
<1>11. NumbersOK /\ EditOK /\ ManifestOK /\ DOMAIN logs \subseteq Nat
  BY <1>1, BusyFacts
<1>12. NumbersOK'
  <2>1. (\A k \in Points : Records[k].next_file <= db.next_file /\ Records[k].last_sequence <= db.last_sequence)'
    BY <1>1, <1>3, <1>5, <1>7, PointsUp
  <2>2. \A m \in DOMAIN logs' : m < db'.next_file \/ m \in db'.logs_left
    <3>1. \A m \in DOMAIN logs : m < db.next_file \/ m = n
      BY <1>11 DEF NumbersOK
    <3>2. ASSUME NEW m \in DOMAIN logs PROVE m < next
      <4>1. m \in Nat /\ (m < db.next_file \/ m = n)
        BY <1>11, <3>1
      <4> QED BY <1>1, <1>2, <1>3, <4>1
    <3> QED BY <1>5, <3>2
  <2> DEFINE F == db.version \cup db.edit.added
  <2>3. TablesOK(tables, F) /\ Below(F, db.next_file) /\ SeqsBelow(db.mem \cup db.imm \cup Data(tables, F), db.last_sequence)
    BY <1>11 DEF NumbersOK
  <2>4. F \subseteq Nat
    BY <1>2, DbFields, EditFields
  <2>5. db'.version \cup db'.edit.added = F
    BY <1>5
  <2>6. SeqsBelow(db'.mem \cup db'.imm \cup Data(tables', F), db'.last_sequence)
    <3> DEFINE W == db.imm \cup Data(tables, F)
    <3>1. SeqsBelow(W, db.last_sequence)
      BY <2>3 DEF SeqsBelow
    <3>2. W \subseteq AnyUpdate
      BY <1>2, <2>3, InvParts, DataTyped, DbFields
    <3> HIDE DEF W
    <3>3. SeqsBelow(W, last)
      BY <1>1, <1>2, <3>1, <3>2, SeqsUp
    <3>4. db'.mem \cup db'.imm \cup Data(tables', F) = U \cup W
      BY <1>5 DEF W
    <3> QED BY <1>1, <1>5, <3>3, <3>4 DEF SeqsBelow
  <2> HIDE DEF F
  <2>7. Below(F, db'.next_file) /\ TablesOK(tables', F)
    BY <1>2, <1>3, <1>5, <2>3, <2>4 DEF Below
  <2>8. db'.logfile \in DOMAIN logs' /\ db'.logfile < db'.next_file /\ db'.mem \subseteq AllOf(logs', db'.logfile)
    BY <1>1, <1>3, <1>4, <1>5
  <2>9. db.log_number < db.next_file
    BY <1>11 DEF NumbersOK
  <2>10. db'.log_number < db'.next_file
    BY <1>2, <1>3, <1>5, <2>9
  <2>11. db'.job = "none" /\ db'.step = "none"
    BY <1>1, <1>5
  <2>12. db'.logfile = 0 => db'.mem = {}
    BY <1>1, <1>5, InvParts DEF DiskTypeOK
  <2> QED BY <2>1, <2>2, <2>5, <2>6, <2>7, <2>8, <2>10, <2>11, <2>12 DEF NumbersOK
<1>13. EditOK'
  BY <1>1, <1>5 DEF EditOK, Applying, InManifest
<1>14. ManifestOK'
  BY <1>1, <1>2, <1>3, <1>5, <1>7, <1>11 DEF ManifestOK, InManifest
<1>15. ReplayOK'
  <2> DEFINE D == Data(tables, db.version \cup db.edit.added)
  <2>1. acked \subseteq D \cup db.mem \cup LogData(logs, db.logs_left) /\ synced \subseteq D \cup SyncedData(logs, db.logs_left)
    BY <1>1, InvParts DEF ReplayOK
  <2>2. LogData(logs, db.logs_left) = U /\ SyncedData(logs, db.logs_left) = SyncedOf(logs, n)
    BY <1>4 DEF LogData, SyncedData
  <2>3. Data(tables', db'.version \cup db'.edit.added) = D
    BY <1>5
  <2> HIDE DEF D
  <2>4. acked' \subseteq D \cup db'.mem \cup LogData(logs', db'.logs_left)
    BY <1>1, <1>5, <2>1, <2>2
  <2>5. synced' \subseteq D \cup (db'.mem \cap SyncedOf(logs', n)) \cup SyncedData(logs', db'.logs_left)
    BY SMTT(30), <1>4, <1>5, <2>1, <2>2
  <2>6. db'.logs_left \subseteq From(logs', db'.log_number) /\ db'.logfile >= db'.log_number
    BY <1>1, <1>5
  <2>7. /\ ~db.bg_error /\ db.imm = {} /\ ~db.has_imm /\ db.pinned = <<>> /\ db.pending = {}
        /\ db.merge = [inputs |-> {}, output |-> 0] /\ db.output = 0 /\ db.edit.deleted = {}
        /\ db.descriptor /\ ~InManifest => relied = End
        /\ ~db.save_manifest => db.descriptor /\ db.edit.added = {}
    BY InvParts DEF ReplayOK
  <2>8. ~InManifest /\ ~InManifest'
    BY <1>1, <1>5 DEF InManifest
  <2>9. db'.descriptor => relied' = End'
    BY <1>5, <1>7, <2>7, <2>8
  <2>10. (IF db.logfile = 0 THEN {} ELSE db.mem \cap SyncedOf(logs, db.logfile))' = db'.mem \cap SyncedOf(logs', n)
    BY <1>1, <1>5, InvParts DEF DiskTypeOK
  <2> QED BY ZenonT(60), <1>1, <1>5, <2>3, <2>4, <2>5, <2>6, <2>7, <2>9, <2>10 DEF ReplayOK
<1>16. db'.phase = "replay"
  BY <1>5
<1> QED BY <1>6, <1>7, <1>8, <1>9, <1>10, <1>12, <1>13, <1>14, <1>15, <1>16 DEF FilesInv, BusyOK

\* The updates of the oldest log go into new tables.
MakesTables(n, made, count, data) ==
    /\ n = Min(db.logs_left) /\ made \subseteq Nat /\ count \in Nat
    /\ \A k \in made : k >= db.next_file /\ k < db.next_file + count
    /\ \A k \in made : data[k] \subseteq ToSet(logs[n].records)
    /\ UNION {data[k] : k \in made} = ToSet(logs[n].records)
    /\ tables' = [k \in DOMAIN tables \cup made |->
                     IF k \notin made THEN tables[k] ELSE [data |-> data[k], complete |-> TRUE]]
    /\ db' = [db EXCEPT !.logs_left = @ \ {n}, !.last_sequence = MaxSeq(logs[n].records, @),
                        !.edit.added = @ \cup made, !.save_manifest = @ \/ made # {},
                        !.next_file = NextAfter(@ + count, n)]

LEMMA ReplayLogKeeps ==
    ASSUME FilesInv, db.phase = "replay", db.logs_left # {},
           UNCHANGED <<current, manifests, logs, written, acked, synced, relied, bounds>>,
           NEW n, NEW made, NEW count, NEW data, MakesTables(n, made, count, data)
    PROVE  FilesInv' /\ db'.phase = "replay"
<1> DEFINE s == logs[n].records
           last == MaxSeq(s, db.last_sequence)
           next == NextAfter(db.next_file + count, n)
           U == ToSet(s)
           left == db.logs_left \ {n}
           edit == [db.edit EXCEPT !.added = @ \cup made]
           F == db.version \cup db.edit.added
<1>1. /\ Busy /\ db.job = "none" /\ db.step = "none" /\ db.logfile = 0 /\ db.mem = {}
      /\ n \in db.logs_left /\ n \in Nat /\ n \in DOMAIN logs /\ n >= db.log_number
      /\ s \in Seq(AnyUpdate) /\ Known(U) /\ U \subseteq AnyUpdate
      /\ last \in Nat /\ db.last_sequence <= last /\ last <= written /\ SeqsBelow(U, last)
  BY ReplayFacts DEF MakesTables
<1>2. /\ db \in DbType /\ db.next_file \in Nat /\ db.last_sequence \in Nat /\ db.log_number \in Nat
      /\ db.manifest \in Nat /\ db.edit \in Edits
  BY InvParts, DbFields
<1>0. /\ made \subseteq Nat /\ count \in Nat /\ \A k \in made : k >= db.next_file /\ k < db.next_file + count
      /\ (\A k \in made : data[k] \subseteq U) /\ UNION {data[k] : k \in made} = U
  BY DEF MakesTables
<1>3. next \in Nat /\ next >= db.next_file /\ next >= db.next_file + count /\ next > n
  <2>1. db.next_file + count \in Nat /\ db.next_file + count >= db.next_file
    BY <1>0, <1>2
  <2> HIDE DEF next
  <2>2. next \in Nat /\ next >= db.next_file + count /\ next > n
    BY <1>1, <2>1, NextAfterFacts DEF next
  <2> QED BY <1>0, <1>2, <2>1, <2>2
<1>4. SyncedOf(logs, n) \subseteq U /\ AllOf(logs, n) = U
  BY <1>1, InvParts, SyncedInAll DEF AllOf
<1>5. \A k \in made : k < next /\ k >= db.next_file
  <2> HIDE DEF next
  <2> QED BY <1>0, <1>2, <1>3
<1> HIDE DEF s, last, next, U, left, edit
<1>6. /\ IsDb(db') /\ db'.logs_left = left /\ db'.last_sequence = last /\ db'.edit = edit
      /\ db'.save_manifest = (db.save_manifest \/ made # {}) /\ db'.next_file = next
      /\ db'.phase = db.phase /\ db'.version = db.version /\ db'.pinned = db.pinned
      /\ db'.log_number = db.log_number /\ db'.logfile = db.logfile /\ db'.manifest = db.manifest
      /\ db'.descriptor = db.descriptor /\ db'.mem = db.mem /\ db'.imm = db.imm
      /\ db'.has_imm = db.has_imm /\ db'.pending = db.pending /\ db'.bg_error = db.bg_error
      /\ db'.job = db.job /\ db'.step = db.step /\ db'.output = db.output /\ db'.merge = db.merge
  <2>1. db' = [db EXCEPT !.logs_left = left, !.last_sequence = last,
                         !.edit = edit, !.save_manifest = db.save_manifest \/ made # {},
                         !.next_file = next]
    BY <1>2, DbIsDb DEF MakesTables, s, last, next, U, left, edit, IsDb, DbNames
  <2> QED BY ZenonT(60), <1>2, <2>1, DbIsDb DEF IsDb, DbNames
<1>7. /\ edit \in Edits /\ edit.added = db.edit.added \cup made /\ edit.deleted = db.edit.deleted
  <2>1. IsEdit(db.edit)
    BY <1>2, EditIsEdit
  <2>2. /\ IsEdit(edit) /\ edit.log_number = db.edit.log_number /\ edit.next_file = db.edit.next_file
        /\ edit.last_sequence = db.edit.last_sequence /\ edit.added = db.edit.added \cup made
        /\ edit.deleted = db.edit.deleted
    BY <2>1 DEF edit, IsEdit, EditNames
  <2> QED BY <1>0, <1>2, <2>2, EditFields, EditFromFields
<1>8. db' \in DbType
  <2>1. left \subseteq Nat /\ (db.save_manifest \/ made # {}) \in BOOLEAN
    BY <1>2, DbFields DEF left
  <2> QED BY <1>1, <1>2, <1>3, <1>6, <1>7, <2>1, DbFields, DbFromFields
<1>9. /\ DOMAIN tables' = DOMAIN tables \cup made
      /\ \A k \in made : tables'[k] = [data |-> data[k], complete |-> TRUE]
      /\ \A k \in DOMAIN tables : k \notin made => tables'[k] = tables[k]
  BY DEF MakesTables
<1>10. NumbersOK /\ EditOK /\ ManifestOK /\ DOMAIN logs \subseteq Nat
  BY <1>1, BusyFacts
<1>11. /\ TablesOK(tables, F) /\ Below(F, db.next_file) /\ F \subseteq Nat /\ Data(tables, F) \subseteq AnyUpdate
       /\ SeqsBelow(Data(tables, F), db.last_sequence) /\ db.imm = {}
  <2>1. TablesOK(tables, F) /\ Below(F, db.next_file) /\ SeqsBelow(Data(tables, F), db.last_sequence)
    BY <1>10 DEF NumbersOK, SeqsBelow
  <2> HIDE DEF F
  <2> QED BY <2>1, InvParts, DataTyped DEF ReplayOK
<1>12. \A G : Below(G, db.next_file) /\ G \subseteq DOMAIN tables => KeptTables(tables, tables', G)
  <2>1. \A m \in Nat : m < db.next_file => m \notin made
    BY <1>2, <1>5
  <2>2. DOMAIN tables \subseteq Nat
    BY <1>1, BusyFacts
  <2> QED BY <1>9, <2>1, <2>2 DEF KeptTables, Below
<1>13. DiskOK' /\ Records' = Records /\ End' = End /\ Points' = Points
  <2>1. /\ current \in DOMAIN manifests /\ written \in Nat /\ relied \in Nat /\ relied <= End /\ current # 0
        /\ \A k \in Points : FilesAt(Records, k) \subseteq DOMAIN tables /\ Below(FilesAt(Records, k), db.next_file)
    BY <1>1, BusyFacts, RecordsFacts
  <2>2. \A k \in Points : KeptTables(tables, tables', FilesAt(Records, k))
    BY <1>12, <2>1
  <2>3. \A m \in DOMAIN logs : KeptLogs(logs, logs', {m})
    BY DEF KeptLogs
  <2>4. UNCHANGED <<current, acked, synced>> /\ manifests' = manifests /\ written' = written /\ relied' = relied
        /\ db'.phase # "new_db"
    BY <1>6
  <2> QED BY <2>1, <2>2, <2>3, <2>4, DiskStays
<1>14. \A k \in DOMAIN tables' : tables'[k] \in TableType /\ Known(tables'[k].data)
  <2>1. \A k \in made : data[k] \subseteq U
    BY <1>0
  <2>2. \A k \in made : tables'[k] \in TableType /\ Known(tables'[k].data)
    <3> SUFFICES ASSUME NEW k \in made PROVE tables'[k] \in TableType /\ Known(tables'[k].data)
      OBVIOUS
    <3>1. tables'[k] = [data |-> data[k], complete |-> TRUE] /\ data[k] \subseteq U
      BY <1>9, <2>1
    <3>2. data[k] \subseteq AnyUpdate /\ Known(data[k])
      BY <1>1, <3>1 DEF Known
    <3> QED BY <3>1, <3>2 DEF TableType
  <2>3. \A k \in DOMAIN tables : tables[k] \in TableType /\ Known(tables[k].data)
    BY InvParts DEF DiskTypeOK, UpdatesOK
  <2> QED BY <1>9, <2>2, <2>3
<1>15. DiskTypeOK'
  BY <1>0, <1>9, <1>14, InvParts DEF DiskTypeOK
<1>16. UpdatesOK'
  BY <1>1, <1>6, <1>14, InvParts DEF UpdatesOK, Known
<1>17. ClosedOK' /\ OpenOK' /\ JobsOK'
  BY <1>6 DEF ClosedOK, OpenOK, JobsOK
<1>18. Data(tables', F) = Data(tables, F) /\ TablesOK(tables', F)
  <2>1. F \subseteq DOMAIN tables
    BY <1>11 DEF TablesOK
  <2> HIDE DEF F
  <2> QED BY <1>11, <1>12, <2>1, KeptFacts
<1>19. Data(tables', made) = U /\ TablesOK(tables', made)
  <2>1. \A k \in made : k \in DOMAIN tables' /\ tables'[k].data = data[k] /\ tables'[k].complete
    BY <1>9
  <2>2. Data(tables', made) = UNION {data[k] : k \in made}
    BY <2>1 DEF Data
  <2> QED BY <1>0, <2>1, <2>2 DEF TablesOK
<1>20. db'.version \cup db'.edit.added = F \cup made
  BY <1>6, <1>7
<1> HIDE DEF F
<1>21. Data(tables', F \cup made) = Data(tables, F) \cup U /\ TablesOK(tables', F \cup made)
  BY <1>18, <1>19, DataFacts DEF TablesOK
<1>22. NumbersOK'
  <2>1. (\A k \in Points : Records[k].next_file <= db.next_file /\ Records[k].last_sequence <= db.last_sequence)'
    BY <1>1, <1>3, <1>6, <1>13, PointsUp
  <2>2. \A m \in DOMAIN logs' : m < db'.next_file \/ m \in db'.logs_left
    <3>1. \A m \in DOMAIN logs : m < db.next_file \/ m \in db.logs_left
      BY <1>10 DEF NumbersOK
    <3>2. ASSUME NEW m \in DOMAIN logs PROVE m < next \/ m \in left
      <4>1. m \in Nat /\ (m < db.next_file \/ m \in left \/ m = n)
        BY <1>10, <3>1 DEF left
      <4> QED BY <1>1, <1>2, <1>3, <4>1
    <3> QED BY <1>6, <3>2
  <2>3. SeqsBelow(db'.mem \cup db'.imm \cup Data(tables', F \cup made), db'.last_sequence)
    <3>1. SeqsBelow(Data(tables, F), last)
      BY <1>1, <1>2, <1>11, SeqsUp
    <3>2. db'.mem \cup db'.imm \cup Data(tables', F \cup made) = Data(tables, F) \cup U
      BY <1>1, <1>6, <1>11, <1>21
    <3> QED BY <1>1, <1>6, <3>1, <3>2 DEF SeqsBelow
  <2>4. Below(F \cup made, db'.next_file)
    <3>1. Below(F, next)
      BY <1>2, <1>3, <1>11, BelowUp
    <3> QED BY <1>5, <1>6, <3>1 DEF Below
  <2>5. db.log_number < db.next_file
    BY <1>10 DEF NumbersOK
  <2>6. db'.log_number < db'.next_file
    BY <1>2, <1>3, <1>6, <2>5
  <2>7. db'.job = "none" /\ db'.step = "none" /\ db'.logfile = 0 /\ db'.mem = {}
    BY <1>1, <1>6
  <2> QED BY <1>20, <1>21, <2>1, <2>2, <2>3, <2>4, <2>6, <2>7 DEF NumbersOK
<1>23. EditOK'
  BY <1>1, <1>6 DEF EditOK, Applying, InManifest
<1>24. ManifestOK'
  <2>1. db.manifest < db.next_file => db.manifest < next
    BY <1>2, <1>3
  <2>2. ~InManifest /\ ~InManifest'
    BY <1>1, <1>6 DEF InManifest
  <2> QED BY <1>1, <1>6, <1>10, <1>13, <2>1, <2>2 DEF ManifestOK
<1>25. ReplayOK'
  <2>1. /\ acked \subseteq Data(tables, F) \cup db.mem \cup LogData(logs, db.logs_left)
        /\ synced \subseteq Data(tables, F) \cup SyncedData(logs, db.logs_left)
    BY <1>1, InvParts DEF ReplayOK, F
  <2>2. LogData(logs, db.logs_left) \subseteq U \cup LogData(logs, left)
        /\ SyncedData(logs, db.logs_left) \subseteq U \cup SyncedData(logs, left)
    BY <1>4 DEF LogData, SyncedData, left
  <2>3. acked' \subseteq Data(tables', F \cup made) \cup db'.mem \cup LogData(logs', db'.logs_left)
    BY <1>1, <1>6, <1>21, <2>1, <2>2
  <2>4. synced' \subseteq Data(tables', F \cup made) \cup SyncedData(logs', db'.logs_left)
    BY <1>6, <1>21, <2>1, <2>2
  <2>5. db'.logs_left \subseteq From(logs', db'.log_number)
    BY <1>6, InvParts DEF ReplayOK, left
  <2>6. /\ ~db.bg_error /\ db.imm = {} /\ ~db.has_imm /\ db.pinned = <<>> /\ db.pending = {}
        /\ db.merge = [inputs |-> {}, output |-> 0] /\ db.output = 0 /\ db.edit.deleted = {}
        /\ db.descriptor /\ ~InManifest => relied = End
        /\ ~db.save_manifest => db.descriptor /\ db.edit.added = {}
    BY InvParts DEF ReplayOK
  <2>7. ~InManifest /\ ~InManifest'
    BY <1>1, <1>6 DEF InManifest
  <2>8. db'.descriptor => relied' = End'
    BY <1>6, <1>13, <2>6, <2>7
  <2>9. ~db'.save_manifest => db'.descriptor /\ db'.edit.added = {}
    BY ZenonT(60), <1>6, <1>7, <2>6
  <2> QED BY <1>1, <1>6, <1>7, <1>20, <2>3, <2>4, <2>5, <2>6, <2>8, <2>9 DEF ReplayOK
<1>26. db'.phase = "replay"
  BY <1>6
<1> QED BY <1>8, <1>13, <1>15, <1>16, <1>17, <1>22, <1>23, <1>24, <1>25, <1>26 DEF FilesInv, BusyOK

LEMMA RecoverLogFileKeeps == FilesInv /\ Intact /\ RecoverLogFile => FilesInv' /\ Replays
<1> SUFFICES ASSUME FilesInv, Intact, RecoverLogFile PROVE FilesInv' /\ Replays
  OBVIOUS
<1> DEFINE n == Min(db.logs_left)
           s == logs[n].records
           parts(full) == <<SubSeq(s, 1, full), SubSeq(s, full + 1, Len(s))>>
           new(full) == {i \in 1 .. 2 : parts(full)[i] # <<>>}
           number(full, i) == IF i = 2 /\ 1 \in new(full) THEN db.next_file + 1 ELSE db.next_file
           made(full) == {number(full, i) : i \in new(full)}
           data(full, k) == UNION {ToSet(parts(full)[i]) : i \in {j \in new(full) : number(full, j) = k}}
           db1 == [db EXCEPT !.logs_left = @ \ {n}, !.last_sequence = MaxSeq(s, @)]
<1>1. /\ db.phase = "replay" /\ db.logs_left # {}
      /\ UNCHANGED <<current, manifests, logs, written, acked, synced, relied, bounds>>
  BY Zenon DEF RecoverLogFile, history, promised
<1>2. PICK full \in 0 .. Len(s) :
          \/ /\ bounds.reuse_logs /\ db.logs_left = {n} /\ full = 0
             /\ db' = [db1 EXCEPT !.logfile = n, !.mem = ToSet(parts(full)[2]), !.next_file = NextAfter(@, n)]
             /\ UNCHANGED tables
          \/ /\ tables' = [k \in DOMAIN tables \cup made(full) |->
                              IF k \notin made(full) THEN tables[k] ELSE [data |-> data(full, k), complete |-> TRUE]]
             /\ db' = [db1 EXCEPT !.edit.added = @ \cup made(full), !.save_manifest = @ \/ new(full) # {},
                                  !.next_file = NextAfter(@ + Cardinality(new(full)), n)]
  <2>1. Reads("log", n, s) = {s}
    BY <1>1, ReplayFacts DEF Intact
  <2>2. \E records \in Reads("log", n, s) : ReplayLog(n, records)
    BY Zenon DEF RecoverLogFile
  <2>3. ReplayLog(n, s)
    BY Zenon, <2>1, <2>2
  <2> QED BY Zenon, <2>3 DEF ReplayLog
<1>3. s \in Seq(AnyUpdate) /\ db.next_file \in Nat /\ IsDb(db)
  BY <1>1, ReplayFacts, BusyFacts, InvParts, DbFields
<1>4. CASE /\ db.logs_left = {n} /\ full = 0 /\ UNCHANGED tables
           /\ db' = [db1 EXCEPT !.logfile = n, !.mem = ToSet(parts(full)[2]), !.next_file = NextAfter(@, n)]
  <2>1. parts(full)[2] = s
    <3>1. SubSeq(s, 1, Len(s)) = s
      BY <1>3
    <3> HIDE DEF s
    <3> QED BY <1>4, <3>1
  <2> DEFINE U == ToSet(s)
             last == MaxSeq(s, db.last_sequence)
             next == NextAfter(db.next_file, n)
  <2>2. db.logs_left \ {n} = {}
    BY <1>4
  <2> HIDE DEF n, s
  <2>3. db' = [db EXCEPT !.logs_left = {}, !.last_sequence = MaxSeq(s, @),
                         !.logfile = n, !.mem = ToSet(s), !.next_file = NextAfter(@, n)]
    <3>1. db' = [db1 EXCEPT !.logfile = n, !.mem = U, !.next_file = NextAfter(@, n)]
      BY <1>4, <2>1
    <3> HIDE DEF U
    <3>2. db1 = [db EXCEPT !.logs_left = {}, !.last_sequence = last]
      BY <2>2
    <3> HIDE DEF last, db1
    <3>3. db1.next_file = db.next_file
      BY <1>3, <3>2 DEF IsDb, DbNames
    <3>4. db' = [db1 EXCEPT !.logfile = n, !.mem = U, !.next_file = next]
      BY <3>1, <3>3
    <3> HIDE DEF next
    <3>5. db' = [db EXCEPT !.logs_left = {}, !.last_sequence = last, !.logfile = n, !.mem = U, !.next_file = next]
      BY <1>3, <3>2, <3>4 DEF IsDb, DbNames
    <3> QED BY <3>5 DEF last, next, U
  <2> QED BY Zenon, <1>1, <1>4, <2>3, ReuseLogKeeps DEF Replays, n, s
<1>5. CASE /\ tables' = [k \in DOMAIN tables \cup made(full) |->
                            IF k \notin made(full) THEN tables[k] ELSE [data |-> data(full, k), complete |-> TRUE]]
           /\ db' = [db1 EXCEPT !.edit.added = @ \cup made(full), !.save_manifest = @ \/ new(full) # {},
                                !.next_file = NextAfter(@ + Cardinality(new(full)), n)]
  <2> DEFINE M == made(full)
             count == Cardinality(new(full))
             D == [k \in made(full) |-> data(full, k)]
             last == MaxSeq(s, db.last_sequence)
             left == db.logs_left \ {n}
             next == NextAfter(db.next_file + count, n)
  <2>0. \A k \in M : D[k] = data(full, k)
    BY Zenon
  <2>1. /\ count \in Nat /\ (new(full) = {} <=> M = {})
        /\ \A k \in M : k \in Nat /\ k >= db.next_file /\ k < db.next_file + count
        /\ UNION {D[k] : k \in M} = ToSet(SubSeq(s, 1, full)) \cup ToSet(SubSeq(s, full + 1, Len(s)))
    <3>1. UNION {D[k] : k \in M} = UNION {data(full, k) : k \in M}
      <4> HIDE DEF D, data, M
      <4> QED BY SMTT(30), <2>0
    <3>2. /\ count \in Nat /\ (new(full) = {} <=> M = {})
          /\ \A k \in M : k \in Nat /\ k >= db.next_file /\ k < db.next_file + count
          /\ UNION {data(full, k) : k \in M} = ToSet(SubSeq(s, 1, full)) \cup ToSet(SubSeq(s, full + 1, Len(s)))
      BY ZenonT(60), <1>3, MadeFacts
    <3> HIDE DEF D, data, M, new, count
    <3> QED BY <3>1, <3>2
  <2>2. UNION {D[k] : k \in M} = ToSet(s)
    BY Zenon, <1>3, <2>1, SplitFacts
  <2>3. tables' = [k \in DOMAIN tables \cup M |->
                      IF k \notin M THEN tables[k] ELSE [data |-> D[k], complete |-> TRUE]]
    <3> HIDE DEF D, data
    <3>1. tables' = [k \in DOMAIN tables \cup M |->
                       IF k \notin M THEN tables[k] ELSE [data |-> data(full, k), complete |-> TRUE]]
      BY Zenon, <1>5
    <3> HIDE DEF M
    <3> QED BY <2>0, <3>1
  <2>4. db' = [db1 EXCEPT !.edit.added = @ \cup M, !.save_manifest = @ \/ new(full) # {},
                          !.next_file = NextAfter(@ + count, n)]
    BY Zenon, <1>5
  <2> DEFINE more == new(full) # {}
  <2>5. more = (M # {})
    BY Zenon, <2>1
  <2> HIDE DEF M, count, D, new, made, more
  <2>6. db1 = [db EXCEPT !.logs_left = left, !.last_sequence = last]
    OBVIOUS
  <2> HIDE DEF n, s, left, last, db1
  <2>7. db' = [db1 EXCEPT !.edit.added = @ \cup M, !.save_manifest = @ \/ more, !.next_file = next]
    <3>1. db1.next_file = db.next_file
      BY <1>3, <2>6 DEF IsDb, DbNames
    <3> QED BY <2>4, <3>1 DEF more
  <2> HIDE DEF next
  <2>8. db' = [db EXCEPT !.logs_left = left, !.last_sequence = last, !.edit.added = @ \cup M,
                         !.save_manifest = @ \/ more, !.next_file = next]
    BY <1>3, <2>6, <2>7 DEF IsDb, DbNames
  <2>9. db' = [db EXCEPT !.logs_left = @ \ {n}, !.last_sequence = MaxSeq(s, @),
                         !.edit.added = @ \cup M, !.save_manifest = @ \/ M # {},
                         !.next_file = NextAfter(@ + count, n)]
    BY <2>5, <2>8 DEF last, left, next
  <2>10. M \subseteq Nat /\ (\A k \in M : k >= db.next_file /\ k < db.next_file + count)
         /\ \A k \in M : D[k] \subseteq ToSet(s)
    BY <2>1, <2>2
  <2>11. MakesTables(n, M, count, D)
    BY <2>1, <2>2, <2>3, <2>9, <2>10 DEF MakesTables, n, s
  <2> QED BY <1>1, <2>11, ReplayLogKeeps DEF Replays
<1> QED BY ZenonT(60), <1>2, <1>4, <1>5
-----------------------------------------------------------------------------
\* The log and the MANIFEST of an open.

\* The database, and its edit, that go into LogAndApply.
LEMMA StartFields ==
    ASSUME NEW d, IsDb(d), NEW job, NEW edit, IsEdit(edit)
    PROVE  LET s == StartLogAndApply(d, job, edit)
           IN  /\ IsDb(s) /\ s.job = job /\ s.step = (IF d.descriptor THEN "append" ELSE "manifest")
               /\ s.phase = d.phase /\ s.version = d.version /\ s.pinned = d.pinned
               /\ s.log_number = d.log_number /\ s.logfile = d.logfile /\ s.next_file = d.next_file
               /\ s.last_sequence = d.last_sequence /\ s.manifest = d.manifest
               /\ s.descriptor = d.descriptor /\ s.mem = d.mem /\ s.imm = d.imm /\ s.has_imm = d.has_imm
               /\ s.pending = d.pending /\ s.bg_error = d.bg_error /\ s.save_manifest = d.save_manifest
               /\ s.logs_left = d.logs_left /\ s.output = d.output /\ s.merge = d.merge
               /\ IsEdit(s.edit) /\ s.edit.log_number = edit.log_number /\ s.edit.next_file = d.next_file
               /\ s.edit.last_sequence = d.last_sequence /\ s.edit.added = edit.added /\ s.edit.deleted = edit.deleted
<1> DEFINE s == StartLogAndApply(d, job, edit)
           e == [edit EXCEPT !.next_file = d.next_file, !.last_sequence = d.last_sequence]
           step == IF d.descriptor THEN "append" ELSE "manifest"
<1>1. /\ IsEdit(e) /\ e.log_number = edit.log_number /\ e.next_file = d.next_file
      /\ e.last_sequence = d.last_sequence /\ e.added = edit.added /\ e.deleted = edit.deleted
  BY DEF IsEdit, EditNames
<1>2. s = [d EXCEPT !.job = job, !.step = step, !.edit = e]
  BY DEF StartLogAndApply
<1> HIDE DEF s, e, step
<1>3. /\ IsDb(s) /\ s.job = job /\ s.step = step /\ s.edit = e /\ s.phase = d.phase
      /\ s.version = d.version /\ s.pinned = d.pinned /\ s.log_number = d.log_number
      /\ s.logfile = d.logfile /\ s.next_file = d.next_file /\ s.last_sequence = d.last_sequence
      /\ s.manifest = d.manifest /\ s.descriptor = d.descriptor /\ s.mem = d.mem /\ s.imm = d.imm
      /\ s.has_imm = d.has_imm /\ s.pending = d.pending /\ s.bg_error = d.bg_error
      /\ s.save_manifest = d.save_manifest /\ s.logs_left = d.logs_left /\ s.output = d.output
      /\ s.merge = d.merge
  BY <1>2 DEF IsDb, DbNames
<1> QED BY <1>1, <1>3 DEF s, step

\* The current MANIFEST has a number that was given out.
LEMMA CurrentBelow ==
    ASSUME FilesInv, Busy
    PROVE  current < db.next_file
<1>1. current # 0 /\ current \in Nat /\ End \in Points
  BY BusyFacts, RecordsFacts
<1>2. current < Records[End].next_file /\ Records[End].next_file \in Nat
  BY <1>1, RecordsFacts DEF GoodAt, GoodEdit
<1>3. Records[End].next_file <= db.next_file /\ db.next_file \in Nat
  BY <1>1, BusyFacts, InvParts, DbFields DEF NumbersOK
<1> QED BY <1>1, <1>2, <1>3

\* A new log.
HasFresh(G, H, n) ==
    /\ DOMAIN H = DOMAIN G \cup {n} /\ (\A m \in DOMAIN G : H[m] = G[m] /\ KeptLogs(G, H, {m}))
    /\ H[n] \in LogType /\ H[n].synced <= Len(H[n].records) /\ ToSet(H[n].records) = {}
    /\ AllOf(H, n) = {} /\ SyncedOf(H, n) = {}

LEMMA FreshLog ==
    ASSUME NEW G, NEW n, n \notin DOMAIN G
    PROVE  HasFresh(G, Make(G, n, File(<<>>)), n)
<1> DEFINE H == Make(G, n, File(<<>>))
<1>1. DOMAIN H = DOMAIN G \cup {n} /\ H[n] = File(<<>>) /\ \A m \in DOMAIN G : H[m] = G[m]
  BY DEF Make
<1>2. H[n].records = <<>> /\ H[n].synced = 0 /\ H[n] = [records |-> <<>>, synced |-> 0]
  BY <1>1 DEF File, H
<1>3. <<>> \in Seq(AnyUpdate) /\ Len(<<>>) = 0 /\ ToSet(<<>>) = {}
  BY DEF ToSet
<1>4. H[n] \in LogType
  <2>1. \A s \in Seq(AnyUpdate) : \A l \in Nat : [records |-> s, synced |-> l] \in LogType
    BY DEF LogType
  <2> QED BY <1>2, <1>3, <2>1
<1>5. 1 .. 0 = {}
  OBVIOUS
<1> HIDE DEF H
<1> QED BY <1>1, <1>2, <1>3, <1>4, <1>5 DEF AllOf, SyncedOf, KeptLogs, HasFresh, H

LEMMA OpenLogKeeps == FilesInv /\ OpenLog => FilesInv'
<1> SUFFICES ASSUME FilesInv, OpenLog PROVE FilesInv'
  OBVIOUS
<1> DEFINE fresh == db.logfile = 0
           n == IF fresh THEN db.next_file ELSE db.logfile
           next == IF fresh THEN db.next_file + 1 ELSE db.next_file
           db1 == [db EXCEPT !.logfile = n, !.next_file = next]
           base == [db.edit EXCEPT !.log_number = n]
<1>1. /\ db.phase = "replay" /\ db.logs_left = {} /\ db.job = "none"
      /\ UNCHANGED <<current, manifests, tables, written, acked, synced, relied, bounds>>
      /\ logs' = IF fresh THEN Make(logs, n, File(<<>>)) ELSE logs
      /\ db' = IF db.save_manifest THEN StartLogAndApply(db1, "open", [db1.edit EXCEPT !.log_number = n])
               ELSE [db1 EXCEPT !.job = "open", !.step = "opened"]
  BY DEF OpenLog, history, promised
<1>2. /\ Busy /\ NumbersOK /\ EditOK /\ ManifestOK /\ current # 0 /\ IsDb(db) /\ current \in Nat /\ written \in Nat
      /\ DOMAIN logs \subseteq Nat /\ DOMAIN tables \subseteq Nat
  BY <1>1, BusyFacts DEF Busy
<1>3. /\ db \in DbType /\ db.next_file \in Nat /\ db.last_sequence \in Nat /\ db.log_number \in Nat
      /\ db.manifest \in Nat /\ db.edit \in Edits /\ db.logfile \in Nat /\ db.save_manifest \in BOOLEAN
      /\ db.descriptor \in BOOLEAN
  BY InvParts, DbFields
<1>4. db.step = "none" /\ ~InManifest
  BY <1>1, <1>2 DEF NumbersOK, InManifest
<1>5. /\ n \in Nat /\ n # 0 /\ next \in Nat /\ next >= db.next_file /\ n < next /\ n >= db.log_number
  <2>1. db.log_number < db.next_file
    BY <1>1, <1>2 DEF NumbersOK
  <2>2. db.logfile # 0 => db.logfile >= db.log_number /\ db.logfile < db.next_file
    BY <1>1, <1>2, InvParts DEF NumbersOK, ReplayOK
  <2> QED BY <1>3, <2>1, <2>2
<1>6. fresh => n \notin DOMAIN logs
  <2>1. \A m \in DOMAIN logs : m < db.next_file /\ m \in Nat
    BY <1>1, <1>2 DEF NumbersOK
  <2> QED BY <1>3, <2>1
<1>7. /\ DOMAIN logs' = DOMAIN logs \cup {n} /\ (\A m \in DOMAIN logs : logs'[m] = logs[m] /\ KeptLogs(logs, logs', {m}))
      /\ fresh => /\ logs'[n] \in LogType /\ logs'[n].synced <= Len(logs'[n].records)
                  /\ ToSet(logs'[n].records) = {} /\ AllOf(logs', n) = {}
      /\ db.mem \subseteq AllOf(logs', n)
  <2>1. CASE fresh
    <3>1. db.mem = {} /\ logs' = Make(logs, n, File(<<>>))
      BY <1>1, <1>2, <2>1 DEF NumbersOK
    <3> HIDE DEF n
    <3>2. n \notin DOMAIN logs
      BY <1>6, <2>1
    <3>3. HasFresh(logs, logs', n)
      BY <3>1, <3>2, FreshLog
    <3> QED BY <3>1, <3>3 DEF HasFresh
  <2>2. CASE ~fresh
    <3>1. db.logfile \in DOMAIN logs /\ db.mem \subseteq AllOf(logs, db.logfile) /\ n = db.logfile /\ logs' = logs
      BY <1>1, <1>2, <2>2 DEF NumbersOK
    <3> HIDE DEF n
    <3> QED BY <2>2, <3>1 DEF KeptLogs
  <2> QED BY <2>1, <2>2
<1>8. synced \subseteq Data(tables, db.version \cup db.edit.added) \cup (db.mem \cap SyncedOf(logs', n))
  <2>1. synced \subseteq Data(tables, db.version \cup db.edit.added)
                         \cup (IF db.logfile = 0 THEN {} ELSE db.mem \cap SyncedOf(logs, db.logfile))
                         \cup SyncedData(logs, db.logs_left)
    BY <1>1, InvParts DEF ReplayOK
  <2>2. SyncedData(logs, {}) = {}
    BY DEF SyncedData
  <2>3. ~fresh => n = db.logfile /\ logs' = logs
    BY <1>1
  <2> QED BY <1>1, <2>1, <2>2, <2>3
<1>9. acked \subseteq Data(tables, db.version \cup db.edit.added) \cup db.mem
  <2>1. LogData(logs, {}) = {}
    BY DEF LogData
  <2> QED BY <1>1, <2>1, InvParts DEF ReplayOK
<1> DEFINE step == IF ~db.save_manifest THEN "opened" ELSE IF db.descriptor THEN "append" ELSE "manifest"
<1> DEFINE e == db'.edit
<1>10. /\ IsEdit(e) /\ e.added = db.edit.added /\ e.deleted = db.edit.deleted
       /\ db.save_manifest => e.log_number = n /\ e.next_file = next /\ e.last_sequence = db.last_sequence
       /\ ~db.save_manifest => e = db.edit
       /\ /\ IsDb(db') /\ db'.logfile = n /\ db'.next_file = next /\ db'.job = "open"
          /\ db'.step = step /\ db'.phase = db.phase /\ db'.version = db.version
          /\ db'.pinned = db.pinned /\ db'.log_number = db.log_number
          /\ db'.last_sequence = db.last_sequence /\ db'.manifest = db.manifest
          /\ db'.descriptor = db.descriptor /\ db'.mem = db.mem /\ db'.imm = db.imm
          /\ db'.has_imm = db.has_imm /\ db'.pending = db.pending /\ db'.bg_error = db.bg_error
          /\ db'.save_manifest = db.save_manifest /\ db'.logs_left = db.logs_left
          /\ db'.output = db.output /\ db'.merge = db.merge
  <2> HIDE DEF n, next
  <2>1. IsDb(db1) /\ db1.next_file = next /\ db1.edit = db.edit /\ db1.last_sequence = db.last_sequence
        /\ db1.logfile = n /\ db1.phase = db.phase /\ db1.version = db.version /\ db1.pinned = db.pinned
        /\ db1.log_number = db.log_number
        /\ db1.last_sequence = db.last_sequence
        /\ db1.manifest = db.manifest /\ db1.descriptor = db.descriptor /\ db1.mem = db.mem
        /\ db1.imm = db.imm /\ db1.has_imm = db.has_imm /\ db1.pending = db.pending
        /\ db1.bg_error = db.bg_error /\ db1.save_manifest = db.save_manifest /\ db1.edit = db.edit
        /\ db1.logs_left = db.logs_left /\ db1.job = db.job /\ db1.step = db.step
        /\ db1.output = db.output /\ db1.merge = db.merge
    BY <1>2 DEF IsDb, DbNames
  <2>2. /\ IsEdit(base) /\ base.log_number = n /\ base.added = db.edit.added /\ base.deleted = db.edit.deleted
    BY <1>3, EditIsEdit DEF IsEdit, EditNames
  <2>3. CASE db.save_manifest
    <3>1. db' = StartLogAndApply(db1, "open", base)
      BY <1>1, <2>1, <2>3
    <3> HIDE DEF db1, base
    <3>2. /\ IsDb(db') /\ db'.job = "open"
          /\ db'.step = (IF db1.descriptor THEN "append" ELSE "manifest") /\ db'.phase = db1.phase
          /\ db'.version = db1.version /\ db'.pinned = db1.pinned /\ db'.log_number = db1.log_number
          /\ db'.logfile = db1.logfile /\ db'.next_file = db1.next_file
          /\ db'.last_sequence = db1.last_sequence /\ db'.manifest = db1.manifest
          /\ db'.descriptor = db1.descriptor /\ db'.mem = db1.mem /\ db'.imm = db1.imm
          /\ db'.has_imm = db1.has_imm /\ db'.pending = db1.pending /\ db'.bg_error = db1.bg_error
          /\ db'.save_manifest = db1.save_manifest
          /\ db'.logs_left = db1.logs_left /\ db'.output = db1.output /\ db'.merge = db1.merge
          /\ IsEdit(db'.edit) /\ db'.edit.log_number = base.log_number /\ db'.edit.next_file = db1.next_file
          /\ db'.edit.last_sequence = db1.last_sequence /\ db'.edit.added = base.added /\ db'.edit.deleted = base.deleted
      BY <2>1, <2>2, <3>1, StartFields
    <3>3. db'.step = step
      BY <2>1, <2>3, <3>2
    <3> QED BY <2>1, <2>2, <2>3, <3>2, <3>3
  <2>4. CASE ~db.save_manifest
    <3>1. db' = [db1 EXCEPT !.job = "open", !.step = "opened"]
      BY <1>1, <2>4
    <3> HIDE DEF db1
    <3>2. /\ IsDb(db') /\ db'.job = "open" /\ db'.step = "opened" /\ db'.phase = db1.phase
          /\ db'.version = db1.version /\ db'.pinned = db1.pinned /\ db'.log_number = db1.log_number
          /\ db'.logfile = db1.logfile /\ db'.next_file = db1.next_file
          /\ db'.last_sequence = db1.last_sequence /\ db'.manifest = db1.manifest
          /\ db'.descriptor = db1.descriptor /\ db'.mem = db1.mem /\ db'.imm = db1.imm
          /\ db'.has_imm = db1.has_imm /\ db'.pending = db1.pending /\ db'.bg_error = db1.bg_error
          /\ db'.save_manifest = db1.save_manifest /\ db'.edit = db1.edit
          /\ db'.logs_left = db1.logs_left /\ db'.output = db1.output /\ db'.merge = db1.merge
      BY <2>1, <3>1 DEF IsDb, DbNames
    <3>3. db'.step = step /\ IsEdit(db.edit)
      BY <1>3, <2>4, <3>2, EditIsEdit
    <3> QED BY <2>1, <2>4, <3>2, <3>3
  <2> QED BY <2>3, <2>4
<1> HIDE DEF n, next, fresh, e
<1>11. e \in Edits
  <2>1. CASE db.save_manifest
    BY <1>3, <1>5, <1>10, <2>1, EditFields, EditFromFields
  <2>2. CASE ~db.save_manifest
    BY <1>3, <1>10, <2>2
  <2> QED BY <2>1, <2>2
<1>12. step \in Steps /\ db' \in DbType
  <2>1. step \in Steps /\ "open" \in Jobs
    BY DEF Steps, Jobs
  <2> HIDE DEF step
  <2> QED BY <1>3, <1>5, <1>10, <1>11, <2>1, DbFields, DbFromFields DEF e
<1>13. DiskOK' /\ Records' = Records /\ End' = End /\ Points' = Points
  <2>1. current \in DOMAIN manifests
    BY <1>2, RecordsFacts
  <2>2. KeptTables(tables, tables', DOMAIN tables)
    BY <1>1 DEF KeptTables
  <2>3. \A m \in DOMAIN logs : KeptLogs(logs, logs', {m})
    BY <1>7
  <2>4. UNCHANGED <<current, relied, acked, synced>> /\ manifests' = manifests /\ written' = written /\ db'.phase # "new_db"
    BY <1>1, <1>10
  <2> QED BY <1>2, <2>1, <2>2, <2>3, <2>4, QuietDisk
<1>14. DiskTypeOK'
  <2>1. \A m \in DOMAIN logs' : logs'[m] \in LogType /\ logs'[m].synced <= Len(logs'[m].records)
    <3>1. \A m \in DOMAIN logs : logs[m] \in LogType /\ logs[m].synced <= Len(logs[m].records)
      BY InvParts DEF DiskTypeOK
    <3>2. ~fresh => n \in DOMAIN logs
      BY <1>1, <1>2 DEF NumbersOK, n, fresh
    <3> QED BY <1>7, <3>1, <3>2
  <2>2. DOMAIN logs' \subseteq Nat \ {0}
    BY <1>5, <1>7, InvParts DEF DiskTypeOK
  <2> QED BY <1>1, <2>1, <2>2, InvParts DEF DiskTypeOK
<1>15. UpdatesOK'
  <2>1. \A m \in DOMAIN logs' : Known(ToSet(logs'[m].records))
    <3>1. \A m \in DOMAIN logs : Known(ToSet(logs[m].records))
      BY InvParts DEF UpdatesOK
    <3>2. ~fresh => n \in DOMAIN logs
      BY <1>1, <1>2 DEF NumbersOK, n, fresh
    <3> QED BY <1>7, <3>1, <3>2 DEF Known
  <2> QED BY <1>1, <1>10, <2>1, InvParts DEF UpdatesOK, Known
<1>16. ClosedOK' /\ OpenOK' /\ JobsOK'
  BY Zenon, <1>1, <1>10 DEF ClosedOK, OpenOK, JobsOK
<1> DEFINE F == db.version \cup db.edit.added
<1>17. db'.version \cup db'.edit.added = F
  BY <1>10 DEF e
<1>18. /\ TablesOK(tables, F) /\ Below(F, db.next_file) /\ F \subseteq Nat /\ Below(F, next)
       /\ SeqsBelow(db.mem \cup db.imm \cup Data(tables, F), db.last_sequence)
  <2>1. /\ TablesOK(tables, F) /\ Below(F, db.next_file)
        /\ SeqsBelow(db.mem \cup db.imm \cup Data(tables, F), db.last_sequence)
    BY <1>2 DEF NumbersOK
  <2> HIDE DEF F
  <2> QED BY <1>3, <1>5, <2>1, InvParts, DataTyped, BelowUp
<1> HIDE DEF F
<1>19. \A k \in Points' : Records'[k].next_file <= next /\ Records'[k].last_sequence <= db.last_sequence
  BY <1>2, <1>3, <1>5, <1>13, PointsUp
<1>20. NumbersOK'
  <2>1. (\A k \in Points : Records[k].next_file <= db.next_file /\ Records[k].last_sequence <= db.last_sequence)'
    BY <1>10, <1>19
  <2>2. \A m \in DOMAIN logs' : m < db'.next_file \/ m \in db'.logs_left
    <3>1. ASSUME NEW m \in DOMAIN logs PROVE m < next
      <4>1. m < db.next_file /\ m \in Nat
        BY <1>1, <1>2 DEF NumbersOK
      <4> QED BY <1>3, <1>5, <4>1
    <3> QED BY <1>5, <1>7, <1>10, <3>1
  <2>3. SeqsBelow(db'.mem \cup db'.imm \cup Data(tables', F), db'.last_sequence)
    BY <1>1, <1>10, <1>18
  <2>4. db.log_number < db.next_file
    BY <1>1, <1>2 DEF NumbersOK
  <2>5. db'.log_number < db'.next_file
    BY <1>3, <1>5, <1>10, <2>4
  <2>6. db'.logfile \in DOMAIN logs' /\ db'.logfile < db'.next_file /\ db'.mem \subseteq AllOf(logs', db'.logfile) /\ db'.logfile # 0
    BY <1>5, <1>7, <1>10
  <2> QED BY <1>1, <1>10, <1>17, <1>18, <2>1, <2>2, <2>3, <2>5, <2>6 DEF NumbersOK
<1>21. ~InManifest' /\ (Applying' => db.save_manifest) /\ db'.step # "install"
  BY <1>10 DEF InManifest, Applying
<1>22. db.manifest < next
  <2>1. db.descriptor => db.manifest = current
    BY <1>2 DEF ManifestOK
  <2>2. ~db.descriptor => db.manifest < db.next_file
    BY <1>2 DEF ManifestOK
  <2>3. current < db.next_file
    BY <1>2, CurrentBelow
  <2> QED BY <1>2, <1>3, <1>5, <2>1, <2>2, <2>3
<1>23. EditOK'
  <2> SUFFICES ASSUME Applying' PROVE EditOK'
    BY DEF EditOK
  <2>1. e.log_number = n /\ e.next_file = next /\ e.last_sequence = db.last_sequence
    BY <1>10, <1>21
  <2>2. Below(e.added, next) /\ SeqsBelow(Data(tables, e.added), db.last_sequence)
    <3>1. e.added \subseteq F
      BY <1>10 DEF F
    <3>2. Data(tables, e.added) \subseteq Data(tables, F)
      BY <3>1, DataFacts
    <3> QED BY <1>18, <3>1, <3>2 DEF Below, SeqsBelow
  <2>3. db'.edit.next_file \in Nat /\ db'.edit.last_sequence \in Nat /\ db'.edit.log_number \in Nat
        /\ db'.edit.next_file <= db'.next_file /\ db'.edit.last_sequence <= db'.last_sequence
        /\ db'.edit.log_number < db'.edit.next_file /\ db'.manifest < db'.edit.next_file
        /\ db'.edit.log_number <= db'.logfile
    BY <1>3, <1>5, <1>10, <1>22, <2>1 DEF e
  <2>4. Below(db'.edit.added, db'.edit.next_file) /\ SeqsBelow(Data(tables', db'.edit.added), db'.edit.last_sequence)
    BY <1>1, <2>1, <2>2 DEF e
  <2>5. (\A k \in Points : Records[k].next_file <= db.edit.next_file /\ Records[k].last_sequence <= db.edit.last_sequence)'
    BY <1>19, <2>1 DEF e
  <2> QED BY <2>3, <2>4, <2>5 DEF EditOK
<1>24. ManifestOK'
  <2>1. /\ ~db.bg_error => FilesAt(Records, End) = db.version /\ Records[End].log_number = db.log_number
        /\ db.descriptor => db.manifest = current
        /\ ~db.descriptor => db.manifest # 0 /\ db.manifest # current
    BY <1>2, <1>4 DEF ManifestOK
  <2>2. (~db.bg_error => FilesAt(Records, End) = db.version /\ Records[End].log_number = db.log_number)'
    BY <1>10, <1>13, <2>1
  <2>3. ~db.save_manifest => db.descriptor
    BY <1>1, InvParts DEF ReplayOK
  <2>4. db'.descriptor => db'.manifest = current' /\ db'.step \notin {"manifest", "current"}
    BY <1>1, <1>10, <2>1
  <2>5. ~db'.descriptor => /\ db'.phase = "replay" /\ db'.manifest # 0 /\ db'.manifest # current' /\ db'.manifest < db'.next_file
                           /\ db'.step = "manifest"
    BY <1>1, <1>10, <1>22, <2>1, <2>3
  <2> QED BY <1>21, <2>2, <2>4, <2>5 DEF ManifestOK
<1>25. ReplayOK'
  <2>1. acked' \subseteq Data(tables', F) \cup db'.mem \cup LogData(logs', db'.logs_left)
    BY <1>1, <1>9, <1>10 DEF F
  <2>2. synced' \subseteq Data(tables', F) \cup (IF db.logfile = 0 THEN {} ELSE db.mem \cap SyncedOf(logs, db.logfile))'
                           \cup SyncedData(logs', db'.logs_left)
    BY <1>1, <1>5, <1>8, <1>10 DEF F
  <2>3. db'.logs_left \subseteq From(logs', db'.log_number) /\ db'.logs_left = {} /\ db'.logfile >= db'.log_number
    BY <1>1, <1>5, <1>10
  <2>4. /\ ~db.bg_error /\ db.imm = {} /\ ~db.has_imm /\ db.pinned = <<>> /\ db.pending = {}
        /\ db.merge = [inputs |-> {}, output |-> 0] /\ db.output = 0 /\ db.edit.deleted = {}
        /\ db.descriptor /\ ~InManifest => relied = End
        /\ ~db.save_manifest => db.descriptor /\ db.edit.added = {}
    BY <1>1, InvParts DEF ReplayOK
  <2>5. db'.descriptor => relied' = End'
    BY <1>1, <1>4, <1>10, <1>13, <2>4
  <2>6. /\ db'.logfile # 0 /\ (Applying' \/ db'.step = "opened")
        /\ db'.step # "opened" => db'.edit.log_number = db'.logfile
        /\ db'.step = "opened" => ~db'.save_manifest
    BY <1>5, <1>10 DEF Applying, e
  <2>7. db'.edit.deleted = {} /\ (~db'.save_manifest => db'.edit.added = {})
    BY <1>10, <2>4 DEF e
  <2> QED BY <1>10, <1>17, <2>1, <2>2, <2>3, <2>4, <2>5, <2>6, <2>7 DEF ReplayOK
<1> QED BY <1>12, <1>13, <1>14, <1>15, <1>16, <1>20, <1>23, <1>24, <1>25 DEF FilesInv, BusyOK
-----------------------------------------------------------------------------
\* Steps of LogAndApply.

\* A step within LogAndApply: the database changes in no other field.
Moves(s, x) ==
    /\ IsDb(db') /\ db'.step = s /\ db'.descriptor = x /\ db'.phase = db.phase
    /\ db'.version = db.version /\ db'.pinned = db.pinned /\ db'.log_number = db.log_number
    /\ db'.logfile = db.logfile /\ db'.next_file = db.next_file
    /\ db'.last_sequence = db.last_sequence /\ db'.manifest = db.manifest /\ db'.mem = db.mem
    /\ db'.imm = db.imm /\ db'.has_imm = db.has_imm /\ db'.pending = db.pending
    /\ db'.bg_error = db.bg_error /\ db'.save_manifest = db.save_manifest /\ db'.edit = db.edit
    /\ db'.logs_left = db.logs_left /\ db'.job = db.job /\ db'.output = db.output
    /\ db'.merge = db.merge

LEMMA MoveStep ==
    ASSUME IsDb(db), NEW s, db' = [db EXCEPT !.step = s]
    PROVE  Moves(s, db.descriptor)
BY DEF IsDb, DbNames, Moves

LEMMA ApplyingFacts ==
    ASSUME FilesInv, Applying
    PROVE  /\ Busy /\ db.job # "none" /\ db.step # "none" /\ db.step # "table" /\ db.step # "opened"
           /\ db.phase = "replay" => db.job = "open" /\ db.logs_left = {} /\ db.logfile # 0
           /\ db.phase = "open" => db.job \in {"flush", "merge"}
<1>1. db.phase \in Phases
  BY InvParts, DbFields
<1>2. db.step # "none" /\ db.step # "table" /\ db.step # "opened"
  BY DEF Applying, InManifest
<1>3. db.phase \in {"down", "new_db", "recover"} => db.step = "none"
  BY InvParts DEF ClosedOK, NewIncarnation
<1>4. Busy
  BY <1>1, <1>2, <1>3 DEF Phases, Busy
<1>5. db.job # "none"
  BY <1>2, <1>4, BusyFacts DEF NumbersOK
<1>6. db.phase = "replay" => db.job = "open" /\ db.logs_left = {} /\ db.logfile # 0
  BY <1>5, InvParts DEF ReplayOK
<1>7. db.phase = "open" => db.job \in {"flush", "merge"}
  BY <1>5, InvParts DEF OpenOK
<1> QED BY <1>2, <1>4, <1>5, <1>6, <1>7

\* What such a step leaves to be shown: the disk, and where the MANIFEST is.
LEMMA MovesKeep ==
    ASSUME FilesInv, Applying, NEW s \in {"append", "sync", "current", "install"}, NEW x \in BOOLEAN, db.descriptor => x, Moves(s, x),
           UNCHANGED <<logs, tables, written, acked, synced, bounds>>,
           DiskTypeOK', DiskOK', ManifestOK',
           \A k \in Points' : Records'[k].next_file <= db.edit.next_file /\ Records'[k].last_sequence <= db.edit.last_sequence,
           \A k \in Points' : Records'[k].next_file \in Nat /\ Records'[k].last_sequence \in Nat,
           db.phase = "open" => s \in {"sync", "install"} /\ x,
           db.phase = "open" => \A k \in Points' : /\ db.log_number <= Records'[k].log_number
                                                   /\ Records'[k].log_number <= db.logfile
                                                   /\ Data(tables, db.version) \subseteq Data(tables, FilesAt(Records', k)),
           db.phase = "replay" /\ x => s \in {"sync", "install"}
    PROVE  FilesInv'
<1>1. /\ IsDb(db') /\ db'.step = s /\ db'.descriptor = x /\ db'.phase = db.phase
      /\ db'.version = db.version /\ db'.pinned = db.pinned /\ db'.log_number = db.log_number
      /\ db'.logfile = db.logfile /\ db'.next_file = db.next_file
      /\ db'.last_sequence = db.last_sequence /\ db'.manifest = db.manifest /\ db'.mem = db.mem
      /\ db'.imm = db.imm /\ db'.has_imm = db.has_imm /\ db'.pending = db.pending
      /\ db'.bg_error = db.bg_error /\ db'.save_manifest = db.save_manifest /\ db'.edit = db.edit
      /\ db'.logs_left = db.logs_left /\ db'.job = db.job /\ db'.output = db.output
      /\ db'.merge = db.merge
  BY DEF Moves
<1>2. /\ Busy /\ db.job # "none" /\ db.step # "none" /\ db.step # "table" /\ db.step # "opened"
      /\ db.phase = "replay" => db.job = "open" /\ db.logs_left = {} /\ db.logfile # 0
      /\ db.phase = "open" => db.job \in {"flush", "merge"}
  BY ApplyingFacts
<1>3. /\ db \in DbType /\ db.next_file \in Nat /\ db.last_sequence \in Nat
  BY InvParts, DbFields
<1>4. NumbersOK /\ EditOK
  BY <1>2, BusyFacts
<1>5. db' \in DbType
  <2>1. s \in Steps
    BY DEF Steps
  <2> QED BY <1>1, <1>3, <2>1, DbFields, DbFromFields
<1>6. UpdatesOK'
  BY <1>1, InvParts DEF UpdatesOK, Known
<1>7. ClosedOK'
  BY <1>1, <1>2 DEF ClosedOK, Busy
<1>8. /\ db.edit.next_file \in Nat /\ db.edit.last_sequence \in Nat
      /\ db.edit.next_file <= db.next_file /\ db.edit.last_sequence <= db.last_sequence
  BY <1>4 DEF EditOK
<1>9. \A k \in Points' : Records'[k].next_file <= db.next_file /\ Records'[k].last_sequence <= db.last_sequence
  BY <1>3, <1>8
<1>10. NumbersOK'
  BY <1>1, <1>2, <1>4, <1>9 DEF NumbersOK
<1>11. EditOK'
  BY <1>1, <1>4 DEF EditOK
<1>12. ReplayOK'
  <2>1. db'.phase = "replay" => (Applying' /\ db'.step # "opened")
    BY <1>1 DEF Applying, InManifest
  <2>2. db'.phase = "replay" /\ db'.descriptor => InManifest'
    BY <1>1 DEF InManifest
  <2>3. db'.phase = "replay" /\ ~db'.save_manifest => db'.descriptor
    BY <1>1, InvParts DEF ReplayOK
  <2> SUFFICES ASSUME db'.phase = "replay" PROVE ReplayOK'
    BY DEF ReplayOK
  <2>4. db.phase = "replay" /\ ReplayOK
    BY <1>1, InvParts
  <2> QED BY <1>1, <1>2, <2>1, <2>2, <2>3, <2>4 DEF ReplayOK
<1>13. OpenOK'
  <2> SUFFICES ASSUME db'.phase = "open" PROVE OpenOK'
    BY DEF OpenOK
  <2>1. db.phase = "open" /\ OpenOK
    BY <1>1, InvParts
  <2>2. Contents' = Contents
    BY <1>1 DEF Contents
  <2>3. (\A k \in Points : /\ db.log_number <= Records[k].log_number
                           /\ Records[k].log_number <= db.logfile
                           /\ Data(tables, db.version) \subseteq Data(tables, FilesAt(Records, k)))'
    BY <1>1, <2>1
  <2> QED BY <1>1, <2>1, <2>2, <2>3 DEF OpenOK
<1>14. JobsOK'
  <2> SUFFICES ASSUME db'.phase = "open" PROVE JobsOK'
    BY DEF JobsOK
  <2>1. db.phase = "open" /\ JobsOK
    BY <1>1, InvParts
  <2>2. Held' = Held
    BY <1>1 DEF Held
  <2> QED BY <1>1, <1>2, <2>1, <2>2 DEF JobsOK
<1> QED BY <1>5, <1>6, <1>7, <1>10, <1>11, <1>12, <1>13, <1>14 DEF FilesInv, BusyOK

LEMMA NoEditFacts == NoEdit \in Edits /\ NoEdit.added = {} /\ NoEdit.deleted = {} /\ IsEdit(NoEdit)
BY DEF NoEdit, Edits, IsEdit, EditNames

LEMMA SnapshotFacts ==
    ASSUME db \in DbType
    PROVE  Snapshot \in Edits /\ Snapshot.added = db.version /\ WriteSnapshot = <<Snapshot>>
<1>1. db.version \subseteq Nat
  BY DbFields
<1>2. IsEdit(Snapshot) /\ Snapshot.log_number = -1 /\ Snapshot.next_file = -1
      /\ Snapshot.last_sequence = -1 /\ Snapshot.added = db.version /\ Snapshot.deleted = {}
  BY DEF Snapshot, NoEdit, IsEdit, EditNames
<1>3. -1 \in Int
  OBVIOUS
<1>4. Snapshot \in Edits
  BY <1>1, <1>2, <1>3, EditFromFields
<1> QED BY <1>2, <1>4 DEF WriteSnapshot, Snapshot

\* Points of a MANIFEST that did not change.
LEMMA SamePoints ==
    ASSUME FilesInv, Applying, Records' = Records, Points' \subseteq Points
    PROVE  /\ \A k \in Points' : Records'[k].next_file <= db.edit.next_file /\ Records'[k].last_sequence <= db.edit.last_sequence
           /\ \A k \in Points' : Records'[k].next_file \in Nat /\ Records'[k].last_sequence \in Nat
           /\ db.phase = "open" => \A k \in Points' : /\ db.log_number <= Records'[k].log_number
                                                      /\ Records'[k].log_number <= db.logfile
                                                      /\ Data(tables, db.version) \subseteq Data(tables, FilesAt(Records', k))
<1>1. Busy /\ EditOK /\ current # 0
  BY ApplyingFacts, BusyFacts
<1>2. \A k \in Points : Records[k].next_file <= db.edit.next_file /\ Records[k].last_sequence <= db.edit.last_sequence
  BY <1>1 DEF EditOK
<1>3. \A k \in Points : Records[k].next_file \in Nat /\ Records[k].last_sequence \in Nat
  BY <1>1, InvParts DEF DiskOK, GoodAt, GoodEdit
<1>4. db.phase = "open" => \A k \in Points : /\ db.log_number <= Records[k].log_number
                                             /\ Records[k].log_number <= db.logfile
                                             /\ Data(tables, db.version) \subseteq Data(tables, FilesAt(Records, k))
  BY InvParts DEF OpenOK
<1> QED BY <1>2, <1>3, <1>4

\* Steps of LogAndApply on a new MANIFEST.
LEMMA NewManifestKeeps ==
    ASSUME FilesInv, Applying, ~db.descriptor, NEW s \in {"append", "sync", "current"}, Moves(s, FALSE),
           UNCHANGED <<current, logs, tables, written, acked, synced, relied, bounds>>,
           DOMAIN manifests' = DOMAIN manifests \cup {db.manifest},
           \A n \in DOMAIN manifests : n # db.manifest => manifests'[n] = manifests[n],
           manifests'[db.manifest] \in ManifestType,
           manifests'[db.manifest].synced <= Len(manifests'[db.manifest].records),
           s = "append" => manifests'[db.manifest].records = <<Snapshot>>,
           s \in {"sync", "current"} => manifests'[db.manifest].records = <<Snapshot, db.edit>>,
           s = "current" => manifests'[db.manifest].synced = 2
    PROVE  FilesInv'
<1>1. Busy /\ ManifestOK /\ current # 0 /\ written \in Nat /\ IsDb(db) /\ db.manifest \in Nat
  BY ApplyingFacts, BusyFacts, InvParts, DbFields
<1>2. db.phase = "replay" /\ db.manifest # current /\ db.manifest # 0 /\ db.manifest < db.next_file
  BY <1>1 DEF ManifestOK
<1>3. /\ db'.step = s /\ db'.descriptor = FALSE /\ db'.phase = db.phase /\ db'.manifest = db.manifest
      /\ db'.version = db.version /\ db'.edit = db.edit /\ db'.bg_error = db.bg_error
      /\ db'.log_number = db.log_number /\ db'.next_file = db.next_file
  BY DEF Moves
<1>4. DiskOK' /\ Records' = Records /\ End' = End /\ Points' = Points
  <2>1. current \in DOMAIN manifests' /\ manifests'[current] = manifests[current]
    BY <1>1, <1>2, RecordsFacts
  <2>2. KeptTables(tables, tables', DOMAIN tables) /\ \A n \in DOMAIN logs : KeptLogs(logs, logs', {n})
    BY DEF KeptTables, KeptLogs
  <2>3. db'.phase # "new_db" /\ written' \in Nat /\ written <= written'
    BY <1>1, <1>2, <1>3
  <2> QED BY <1>1, <2>1, <2>2, <2>3, QuietDisk
<1>5. DiskTypeOK'
  BY <1>1, InvParts DEF DiskTypeOK
<1>6. ManifestOK'
  <2>1. ~db.bg_error => FilesAt(Records, End) = db.version /\ Records[End].log_number = db.log_number
    BY <1>1 DEF ManifestOK
  <2>2. (~db.bg_error => FilesAt(Records, End) = db.version /\ Records[End].log_number = db.log_number)'
    BY <1>3, <1>4, <2>1
  <2>3. Snapshot' = Snapshot
    BY <1>3 DEF Snapshot
  <2> QED BY <1>2, <1>3, <2>2, <2>3 DEF ManifestOK
<1> QED BY <1>2, <1>4, <1>5, <1>6, SamePoints, MovesKeep

LEMMA CreateManifestKeeps == FilesInv /\ CreateManifest => FilesInv'
<1> SUFFICES ASSUME FilesInv, CreateManifest PROVE FilesInv'
  OBVIOUS
<1>1. /\ db.step = "manifest" /\ manifests' = Make(manifests, db.manifest, File(WriteSnapshot))
      /\ db' = [db EXCEPT !.step = "append"]
      /\ UNCHANGED <<current, logs, tables, written, acked, synced, relied, bounds>>
  BY DEF CreateManifest, history, promised
<1>2. Applying
  BY <1>1 DEF Applying
<1>3. Busy /\ ManifestOK /\ IsDb(db)
  BY <1>2, ApplyingFacts, BusyFacts
<1>4. ~db.descriptor /\ db.descriptor \in BOOLEAN
  BY <1>1, <1>3, InvParts, DbFields DEF ManifestOK
<1>5. Moves("append", FALSE)
  BY <1>1, <1>3, <1>4, MoveStep
<1>6. /\ DOMAIN manifests' = DOMAIN manifests \cup {db.manifest}
      /\ \A n \in DOMAIN manifests : n # db.manifest => manifests'[n] = manifests[n]
      /\ manifests'[db.manifest] = File(<<Snapshot>>)
  BY <1>1, InvParts, SnapshotFacts DEF Make
<1>7. /\ manifests'[db.manifest] \in ManifestType /\ manifests'[db.manifest].records = <<Snapshot>>
      /\ manifests'[db.manifest].synced <= Len(manifests'[db.manifest].records)
  <2>1. Snapshot \in Edits
    BY InvParts, SnapshotFacts
  <2> DEFINE r == <<Snapshot>>
  <2>2. r \in Seq(Edits) /\ Len(r) = 1
    BY <2>1
  <2>4. manifests'[db.manifest] = [records |-> r, synced |-> 0]
    BY <1>6 DEF File
  <2> HIDE DEF r
  <2>3. \A q \in Seq(Edits) : [records |-> q, synced |-> 0] \in ManifestType
    BY DEF ManifestType
  <2>5. manifests'[db.manifest] \in ManifestType
    BY <2>2, <2>3, <2>4
  <2> QED BY <2>2, <2>4, <2>5 DEF r
<1> QED BY <1>1, <1>2, <1>4, <1>5, <1>6, <1>7, NewManifestKeeps

\* The edit of an open, applied to the version, is a good end of a MANIFEST.
LEMMA OpenEditGood ==
    ASSUME FilesInv, Applying, db.phase = "replay"
    PROVE  GoodEdit(tables, logs, acked, synced, db.manifest, written, db.edit, db.version \cup db.edit.added)
<1> DEFINE e == db.edit
           F == db.version \cup e.added
<1>1. Busy /\ db.job = "open" /\ db.logs_left = {} /\ db.logfile # 0 /\ db.step # "opened"
  BY ApplyingFacts
<1>2. NumbersOK /\ EditOK /\ ManifestOK /\ written \in Nat
  BY <1>1, BusyFacts
<1>3. /\ e.log_number \in Nat /\ e.next_file \in Nat /\ e.last_sequence \in Nat /\ e.last_sequence <= db.last_sequence
      /\ e.log_number < e.next_file /\ db.manifest < e.next_file
      /\ Below(e.added, e.next_file) /\ SeqsBelow(Data(tables, e.added), e.last_sequence)
      /\ \A k \in Points : Records[k].next_file <= e.next_file /\ Records[k].last_sequence <= e.last_sequence
  BY <1>2 DEF EditOK
<1>4. e.last_sequence <= written
  <2>1. db.last_sequence <= written /\ db.last_sequence \in Nat
    BY InvParts, DbFields DEF UpdatesOK
  <2> QED BY <1>2, <1>3, <2>1
<1>5. TablesOK(tables, F)
  BY <1>2 DEF NumbersOK
<1>6. Below(db.version, e.next_file) /\ SeqsBelow(Data(tables, db.version), e.last_sequence)
  <2>1. End \in Points /\ GoodAt(End)
    BY <1>1, BusyFacts, RecordsFacts
  <2>2. FilesAt(Records, End) = IF InManifest /\ db.descriptor THEN F ELSE db.version
    <3>1. ~db.bg_error /\ e.deleted = {}
      BY InvParts DEF ReplayOK
    <3> QED BY <1>2, <3>1 DEF ManifestOK
  <2>3. db.version \subseteq FilesAt(Records, End)
    BY <2>2
  <2>4. /\ Below(FilesAt(Records, End), Records[End].next_file) /\ SeqsBelow(Data(tables, FilesAt(Records, End)), Records[End].last_sequence)
        /\ Records[End].next_file \in Nat /\ Records[End].last_sequence \in Nat /\ TablesOK(tables, FilesAt(Records, End))
    BY <2>1 DEF GoodAt, GoodEdit
  <2>5. Below(FilesAt(Records, End), e.next_file) /\ SeqsBelow(Data(tables, FilesAt(Records, End)), e.last_sequence)
    <3>1. Records[End].next_file <= e.next_file /\ Records[End].last_sequence <= e.last_sequence
      BY <1>3, <2>1
    <3>2. FilesAt(Records, End) \subseteq Nat /\ Data(tables, FilesAt(Records, End)) \subseteq AnyUpdate
      BY <2>4, InvParts, DataTyped
    <3> QED BY <1>3, <2>4, <3>1, <3>2, BelowUp, SeqsUp
  <2>6. Data(tables, db.version) \subseteq Data(tables, FilesAt(Records, End))
    BY <2>3, DataFacts
  <2> QED BY <2>3, <2>5, <2>6 DEF Below, SeqsBelow
<1>7. Below(F, e.next_file) /\ SeqsBelow(Data(tables, F), e.last_sequence)
  <2>1. Data(tables, F) = Data(tables, db.version) \cup Data(tables, e.added)
    BY DataFacts
  <2> QED BY <1>3, <1>6, <2>1 DEF Below, SeqsBelow
<1>8. e.log_number = db.logfile /\ db.logfile \in DOMAIN logs /\ db.mem \subseteq AllOf(logs, db.logfile) /\ db.logfile \in Nat
  <2>1. e.log_number = db.logfile
    BY <1>1, InvParts DEF ReplayOK
  <2> QED BY <1>1, <1>2, <2>1, InvParts, DbFields DEF NumbersOK
<1>9. /\ AllOf(logs, db.logfile) \subseteq LogData(logs, From(logs, e.log_number))
      /\ SyncedOf(logs, db.logfile) \subseteq SyncedData(logs, From(logs, e.log_number))
  <2>1. db.logfile \in From(logs, e.log_number)
    BY <1>8 DEF From
  <2> QED BY <2>1 DEF LogData, SyncedData
<1>10. /\ acked \subseteq Data(tables, F) \cup db.mem
       /\ synced \subseteq Data(tables, F) \cup (db.mem \cap SyncedOf(logs, db.logfile))
  <2>1. LogData(logs, {}) = {} /\ SyncedData(logs, {}) = {}
    BY DEF LogData, SyncedData
  <2> QED BY <1>1, <2>1, InvParts DEF ReplayOK
<1>11. /\ acked \subseteq Data(tables, F) \cup LogData(logs, From(logs, e.log_number))
       /\ synced \subseteq Data(tables, F) \cup SyncedData(logs, From(logs, e.log_number))
  BY <1>8, <1>9, <1>10
<1> HIDE DEF F, e
<1> QED BY <1>3, <1>4, <1>5, <1>7, <1>11 DEF GoodEdit, F, e

\* The edit of a flush or a merge keeps the data of the tables it is applied to.
LEMMA EditKeepsData ==
    ASSUME FilesInv, Applying, db.phase = "open", NEW F
    PROVE  Data(tables, F) \subseteq Data(tables, (F \ db.edit.deleted) \cup db.edit.added)
<1> DEFINE e == db.edit
<1>1. db.job \in {"flush", "merge"} /\ db.step # "table"
  BY ApplyingFacts
<1>2. ASSUME db.job = "flush" PROVE e.deleted = {}
  BY <1>1, <1>2, InvParts DEF JobsOK
<1>3. ASSUME db.job = "merge" PROVE e.deleted = db.merge.inputs /\ Data(tables, e.added) = Data(tables, e.deleted)
  <2>1. /\ db.merge.output # 0 /\ e.added = {db.merge.output} /\ e.deleted = db.merge.inputs
        /\ tables[db.merge.output].data = Data(tables, db.merge.inputs)
    BY <1>3, InvParts DEF JobsOK
  <2>2. Data(tables, {db.merge.output}) = tables[db.merge.output].data
    BY DataOne
  <2> QED BY <2>1, <2>2
<1>4. Data(tables, F) \subseteq Data(tables, F \ e.deleted) \cup Data(tables, e.deleted)
  BY DEF Data
<1>5. Data(tables, {}) = {} /\ Data(tables, (F \ e.deleted) \cup e.added) = Data(tables, F \ e.deleted) \cup Data(tables, e.added)
  BY DataFacts
<1> HIDE DEF e
<1> QED BY <1>1, <1>2, <1>3, <1>4, <1>5 DEF e

LEMMA BackgroundEditGood ==
    ASSUME FilesInv, Applying, db.phase = "open"
    PROVE  GoodEdit(tables, logs, acked, synced, current, written, db.edit,
                    (FilesAt(Records, End) \ db.edit.deleted) \cup db.edit.added)
<1> DEFINE e == db.edit
           E == FilesAt(Records, End)
           F == (E \ e.deleted) \cup e.added
<1>1. Busy /\ db.job \in {"flush", "merge"} /\ db.step # "table"
  BY ApplyingFacts DEF Busy
<1>2. NumbersOK /\ EditOK /\ ManifestOK /\ written \in Nat /\ current # 0
  BY <1>1, BusyFacts
<1>3. /\ e.log_number \in Nat /\ e.next_file \in Nat /\ e.last_sequence \in Nat /\ e.last_sequence <= db.last_sequence
      /\ e.log_number < e.next_file /\ db.manifest < e.next_file
      /\ Below(e.added, e.next_file) /\ SeqsBelow(Data(tables, e.added), e.last_sequence)
      /\ \A k \in Points : Records[k].next_file <= e.next_file /\ Records[k].last_sequence <= e.last_sequence
  BY <1>2 DEF EditOK
<1>4. e.last_sequence <= written
  <2>1. db.last_sequence <= written /\ db.last_sequence \in Nat
    BY InvParts, DbFields DEF UpdatesOK
  <2> QED BY <1>2, <1>3, <2>1
<1>5. End \in Points /\ GoodEdit(tables, logs, acked, synced, current, written, Records[End], E)
  BY <1>2, RecordsFacts DEF GoodAt
<1>6. /\ TablesOK(tables, E) /\ Below(E, Records[End].next_file)
      /\ SeqsBelow(Data(tables, E), Records[End].last_sequence)
      /\ Records[End].next_file \in Nat /\ Records[End].last_sequence \in Nat
      /\ acked \subseteq Data(tables, E) \cup LogData(logs, From(logs, Records[End].log_number))
      /\ synced \subseteq Data(tables, E) \cup SyncedData(logs, From(logs, Records[End].log_number))
  BY <1>5 DEF GoodEdit
<1>7. TablesOK(tables, e.added)
  BY <1>2 DEF NumbersOK, TablesOK
<1>8. Data(tables, E) \subseteq Data(tables, F) /\ Data(tables, F) \subseteq Data(tables, E) \cup Data(tables, e.added)
      /\ Data(tables, e.added) \subseteq Data(tables, F)
  <2>1. Data(tables, E) \subseteq Data(tables, F)
    BY EditKeepsData
  <2>2. F \subseteq E \cup e.added /\ e.added \subseteq F
    OBVIOUS
  <2> HIDE DEF F, E, e
  <2>3. Data(tables, F) \subseteq Data(tables, E \cup e.added) /\ Data(tables, e.added) \subseteq Data(tables, F)
    BY <2>2, DataFacts
  <2>4. Data(tables, E \cup e.added) = Data(tables, E) \cup Data(tables, e.added)
    BY DataFacts
  <2> QED BY <2>1, <2>3, <2>4
<1>9. Below(E, e.next_file) /\ SeqsBelow(Data(tables, E), e.last_sequence)
  <2>1. Records[End].next_file <= e.next_file /\ Records[End].last_sequence <= e.last_sequence
    BY <1>3, <1>5
  <2>2. E \subseteq Nat /\ Data(tables, E) \subseteq AnyUpdate
    BY <1>6, InvParts, DataTyped
  <2> QED BY <1>3, <1>6, <2>1, <2>2, BelowUp, SeqsUp
<1>10. TablesOK(tables, F) /\ Below(F, e.next_file) /\ SeqsBelow(Data(tables, F), e.last_sequence)
  <2>1. TablesOK(tables, F)
    BY <1>6, <1>7 DEF TablesOK
  <2>2. Below(F, e.next_file)
    BY <1>3, <1>9 DEF Below
  <2>3. SeqsBelow(Data(tables, F), e.last_sequence)
    BY <1>3, <1>8, <1>9 DEF SeqsBelow
  <2> QED BY <2>1, <2>2, <2>3
<1>11. current < e.next_file
  <2>1. db.descriptor
    BY InvParts DEF OpenOK
  <2> QED BY <1>2, <1>3, <2>1 DEF ManifestOK
<1> DEFINE L == LogData(logs, From(logs, e.log_number))
           S == SyncedData(logs, From(logs, e.log_number))
<1>12. ASSUME db.job = "flush" PROVE acked \subseteq Data(tables, F) \cup L /\ synced \subseteq Data(tables, F) \cup S
  <2>1. /\ e.log_number = db.logfile /\ e.added = (IF db.imm = {} THEN {} ELSE {db.output})
        /\ db.imm # {} => tables[db.output].data = db.imm
    BY <1>1, <1>12, InvParts DEF JobsOK
  <2>2. db.imm \subseteq Data(tables, e.added)
    BY <2>1, DataFacts
  <2>3. db.logfile # 0 /\ db.logfile \in Nat /\ Data(tables, db.version) \subseteq Data(tables, E)
    BY <1>5, InvParts, DbFields DEF OpenOK
  <2>4. db.logfile \in DOMAIN logs /\ db.mem \subseteq AllOf(logs, db.logfile)
    BY <1>2, <2>3 DEF NumbersOK
  <2>5. AllOf(logs, db.logfile) \subseteq L /\ SyncedOf(logs, db.logfile) \subseteq S
    <3>1. db.logfile \in From(logs, e.log_number)
      BY <2>1, <2>3, <2>4 DEF From
    <3> QED BY <3>1 DEF LogData, SyncedData
  <2>6. acked \subseteq Contents /\ Contents = db.mem \cup db.imm \cup Data(tables, db.version)
        /\ synced \subseteq Data(tables, db.version) \cup db.imm \cup (db.mem \cap SyncedOf(logs, db.logfile))
    BY InvParts DEF OpenOK, Contents, Data
  <2> HIDE DEF e, E, F, L, S
  <2> QED BY <1>8, <2>2, <2>3, <2>4, <2>5, <2>6
<1>13. ASSUME db.job = "merge" PROVE acked \subseteq Data(tables, F) \cup L /\ synced \subseteq Data(tables, F) \cup S
  <2>1. e.log_number = db.log_number /\ db.log_number <= Records[End].log_number
    BY <1>5, <1>13, InvParts DEF JobsOK, OpenOK
  <2>2. Records[End].log_number \in Nat /\ db.log_number \in Nat /\ DOMAIN logs \subseteq Nat
    BY <1>1, <1>5, InvParts, DbFields, BusyFacts DEF GoodEdit
  <2>3. From(logs, Records[End].log_number) \subseteq From(logs, e.log_number)
    BY <2>1, <2>2 DEF From
  <2>4. /\ LogData(logs, From(logs, Records[End].log_number)) \subseteq L
        /\ SyncedData(logs, From(logs, Records[End].log_number)) \subseteq S
    BY <2>3, LogDataMono
  <2> HIDE DEF e, E, F, L, S
  <2> QED BY <1>6, <1>8, <2>4
<1>14. acked \subseteq Data(tables, F) \cup L /\ synced \subseteq Data(tables, F) \cup S
  BY <1>1, <1>12, <1>13
<1> HIDE DEF e, E, F
<1> QED BY <1>3, <1>4, <1>10, <1>11, <1>14 DEF GoodEdit, e, E, F

\* The edit is appended to the MANIFEST in use.
LEMMA AppendKeeps ==
    ASSUME FilesInv, Applying, db.descriptor, db.step = "append", Moves("sync", TRUE),
           UNCHANGED <<current, logs, tables, written, acked, synced, relied, bounds>>,
           DOMAIN manifests' = DOMAIN manifests, DiskTypeOK',
           manifests'[current].records = Append(Records, db.edit),
           manifests'[current].synced = manifests[current].synced
    PROVE  FilesInv'
<1> DEFINE e == db.edit
           F == (FilesAt(Records, End) \ e.deleted) \cup e.added
           m == End + 1
           R == Append(Records, e)
<1>1. /\ Busy /\ NumbersOK /\ EditOK /\ ManifestOK /\ current # 0 /\ IsDb(db) /\ db \in DbType /\ e \in Edits
      /\ db.manifest = current /\ ~InManifest /\ db.descriptor \in BOOLEAN
  <2>1. Busy /\ ~InManifest
    BY ApplyingFacts DEF InManifest
  <2> QED BY <2>1, BusyFacts, InvParts, DbFields DEF ManifestOK
<1>2. /\ current \in DOMAIN manifests /\ Records \in Seq(Edits) /\ End \in Nat /\ End >= 1 /\ End = Len(Records)
      /\ manifests[current].synced \in Nat /\ manifests[current].synced <= End
      /\ relied \in Nat /\ relied <= End /\ End \in Points /\ Points \subseteq 1 .. End
  BY <1>1, RecordsFacts DEF End
<1>3. /\ R \in Seq(Edits) /\ Len(R) = m /\ R[m] = e /\ \A i \in 1 .. End : R[i] = Records[i]
  BY <1>1, <1>2, AppendFacts
<1>4. (\A k \in 0 .. End : FilesAt(R, k) = FilesAt(Records, k)) /\ FilesAt(R, m) = F
  BY <1>1, <1>2, FilesAtAppend
<1>5. Records' = R /\ manifests'[current'].synced = manifests[current].synced
  BY DEF Records
<1> HIDE DEF R
<1>6. End' = m
  BY <1>3, <1>5 DEF End
<1>7. Points' = Points \cup {m}
  <2>1. 1 .. m = (1 .. End) \cup {m}
    BY <1>2
  <2>2. m >= manifests[current].synced /\ m >= relied
    BY <1>2
  <2> HIDE DEF m
  <2> QED BY <1>5, <1>6, <2>1, <2>2 DEF Points
<1>8. GoodEdit(tables, logs, acked, synced, current, written, e, F)
  <2>1. CASE db.phase = "open"
    BY <2>1, BackgroundEditGood
  <2>2. CASE db.phase = "replay"
    <3>1. FilesAt(Records, End) = db.version /\ e.deleted = {}
      BY <1>1, <2>2, InvParts DEF ManifestOK, ReplayOK
    <3>2. F = db.version \cup e.added
      BY <3>1
    <3> QED BY <1>1, <2>2, <3>2, OpenEditGood
  <2> QED BY <1>1, <2>1, <2>2 DEF Busy
<1>9. /\ e.next_file \in Nat /\ e.last_sequence \in Nat
      /\ \A k \in Points : Records[k].next_file <= e.next_file /\ Records[k].last_sequence <= e.last_sequence
  BY <1>1 DEF EditOK
<1>10. \A k \in Points : R[k] = Records[k] /\ FilesAt(R, k) = FilesAt(Records, k)
  <2>1. \A k \in Points : k \in 1 .. End /\ k \in 0 .. End
    BY <1>2
  <2> QED BY <1>3, <1>4, <2>1
<1>11. R[m] = e /\ Records'[End'] = e
  BY <1>3, <1>5, <1>6
<1> HIDE DEF m, e, F
<1>12. ASSUME NEW k \in Points PROVE GoodAt(k)'
  <2>1. GoodEdit(tables, logs, acked, synced, current, written, Records[k], FilesAt(Records, k))
    BY <1>1, InvParts DEF DiskOK, GoodAt
  <2>2. GoodEdit(tables, logs, acked, synced, current, written, Records'[k], FilesAt(Records', k))
    BY <1>5, <1>10, <2>1
  <2>3. GoodEdit(tables, logs, acked, synced, current, written, Records[k], FilesAt(Records, k))'
    BY <2>2
  <2>4. (Records[k].next_file <= Records[End].next_file /\ Records[k].last_sequence <= Records[End].last_sequence)'
    BY <1>5, <1>9, <1>10, <1>11
  <2> QED BY <2>3, <2>4 DEF GoodAt
<1>13. ASSUME NEW k, k = m PROVE GoodAt(k)'
  <2>1. Records'[k] = e /\ FilesAt(Records', k) = F
    BY <1>4, <1>5, <1>11, <1>13
  <2>2. GoodEdit(tables, logs, acked, synced, current, written, Records'[k], FilesAt(Records', k))
    BY <1>8, <2>1
  <2>3. GoodEdit(tables, logs, acked, synced, current, written, Records[k], FilesAt(Records, k))'
    BY <2>2
  <2>4. (Records[k].next_file <= Records[End].next_file /\ Records[k].last_sequence <= Records[End].last_sequence)'
    BY <1>9, <1>11, <2>1
  <2> QED BY <2>3, <2>4 DEF GoodAt
<1>14. /\ IsDb(db') /\ db'.step = "sync" /\ db'.descriptor = TRUE /\ db'.phase = db.phase
       /\ db'.version = db.version /\ db'.pinned = db.pinned /\ db'.log_number = db.log_number
       /\ db'.logfile = db.logfile /\ db'.next_file = db.next_file
       /\ db'.last_sequence = db.last_sequence /\ db'.manifest = db.manifest /\ db'.mem = db.mem
       /\ db'.imm = db.imm /\ db'.has_imm = db.has_imm /\ db'.pending = db.pending
       /\ db'.bg_error = db.bg_error /\ db'.save_manifest = db.save_manifest /\ db'.edit = db.edit
       /\ db'.logs_left = db.logs_left /\ db'.job = db.job /\ db'.output = db.output
       /\ db'.merge = db.merge
  BY DEF Moves
<1>15. DiskOK'
  <2>1. \A k \in Points' : GoodAt(k)'
    BY <1>7, <1>12, <1>13
  <2>2. current' # 0 /\ current' \in DOMAIN manifests' /\ db'.phase # "new_db"
    BY <1>1, <1>2, <1>14 DEF Busy
  <2>3. relied' <= End' /\ (manifests'[current'].synced > 0 \/ relied' > 0)
    <3>1. manifests[current].synced > 0 \/ relied > 0
      BY <1>1, InvParts DEF DiskOK
    <3> QED BY <1>2, <1>5, <1>6, <3>1 DEF m
  <2> QED BY <2>1, <2>2, <2>3 DEF DiskOK
<1>16. ManifestOK'
  <2>1. InManifest' /\ db'.descriptor
    BY <1>14 DEF InManifest
  <2>2. Records'[End'] = db'.edit /\ End' \in Points'
    BY <1>6, <1>7, <1>11, <1>14 DEF e
  <2>3. ~db'.bg_error => FilesAt(Records', End') = (db'.version \ db'.edit.deleted) \cup db'.edit.added
    <3>1. ~db.bg_error => FilesAt(Records, End) = db.version
      BY <1>1 DEF ManifestOK
    <3> QED BY <1>4, <1>5, <1>6, <1>14, <3>1 DEF e, F
  <2> QED BY <1>1, <1>14, <2>1, <2>2, <2>3 DEF ManifestOK
<1>17. \A k \in Points' : Records'[k].next_file <= db.edit.next_file /\ Records'[k].last_sequence <= db.edit.last_sequence
  <2>1. \A k \in Points : Records'[k].next_file <= e.next_file /\ Records'[k].last_sequence <= e.last_sequence
    BY <1>5, <1>9, <1>10
  <2>2. Records'[m].next_file <= e.next_file /\ Records'[m].last_sequence <= e.last_sequence
    BY <1>5, <1>9, <1>11
  <2> QED BY <1>7, <2>1, <2>2 DEF e
<1>18. \A k \in Points' : Records'[k].next_file \in Nat /\ Records'[k].last_sequence \in Nat
  BY <1>1, <1>15, <1>14 DEF DiskOK, GoodAt, GoodEdit
<1>19. ASSUME db.phase = "open"
       PROVE  \A k \in Points' : /\ db.log_number <= Records'[k].log_number
                                 /\ Records'[k].log_number <= db.logfile
                                 /\ Data(tables, db.version) \subseteq Data(tables, FilesAt(Records', k))
  <2>1. \A k \in Points : /\ db.log_number <= Records[k].log_number
                          /\ Records[k].log_number <= db.logfile
                          /\ Data(tables, db.version) \subseteq Data(tables, FilesAt(Records, k))
    BY <1>19, InvParts DEF OpenOK
  <2>2. \A k \in Points : /\ db.log_number <= Records'[k].log_number
                          /\ Records'[k].log_number <= db.logfile
                          /\ Data(tables, db.version) \subseteq Data(tables, FilesAt(Records', k))
    BY <1>5, <1>10, <2>1
  <2>3. db.log_number <= e.log_number /\ e.log_number <= db.logfile
    <3>1. /\ db.log_number <= Records[End].log_number /\ Records[End].log_number <= db.logfile
          /\ Records[End].log_number \in Nat /\ db.log_number \in Nat /\ db.logfile \in Nat
      BY <1>1, <1>2, <2>1, RecordsFacts, InvParts, DbFields DEF GoodAt, GoodEdit
    <3>2. db.job \in {"flush", "merge"}
      BY <1>19, ApplyingFacts
    <3>3. e.log_number = db.logfile \/ e.log_number = db.log_number
      BY <1>19, <3>2, InvParts DEF JobsOK, e
    <3> QED BY <3>1, <3>3
  <2>4. Data(tables, db.version) \subseteq Data(tables, F)
    <3>1. Data(tables, db.version) \subseteq Data(tables, FilesAt(Records, End))
      BY <1>2, <2>1
    <3>2. Data(tables, FilesAt(Records, End)) \subseteq Data(tables, F)
      BY <1>19, EditKeepsData DEF e, F
    <3> QED BY <3>1, <3>2
  <2>5. Records'[m] = e /\ FilesAt(Records', m) = F
    BY <1>4, <1>5, <1>11
  <2> QED BY <1>7, <2>2, <2>3, <2>4, <2>5
<1> QED BY <1>15, <1>16, <1>17, <1>18, <1>19, MovesKeep

LEMMA AppendEditKeeps == FilesInv /\ AppendEdit => FilesInv'
<1> SUFFICES ASSUME FilesInv, AppendEdit PROVE FilesInv'
  OBVIOUS
<1> DEFINE m == db.manifest
           s == manifests[m].records
           l == manifests[m].synced
           t == Append(s, db.edit)
<1>1. /\ db.step = "append" /\ manifests' = [manifests EXCEPT ![m].records = Append(@, db.edit)]
      /\ db' = [db EXCEPT !.step = "sync"]
      /\ UNCHANGED <<current, logs, tables, written, acked, synced, relied, bounds>>
  BY DEF AppendEdit, history, promised
<1>2. Applying
  BY <1>1 DEF Applying
<1>3. Busy /\ ManifestOK /\ IsDb(db) /\ current # 0 /\ db.descriptor \in BOOLEAN /\ db.edit \in Edits
  BY <1>2, ApplyingFacts, BusyFacts, InvParts, DbFields
<1>4. m \in DOMAIN manifests
  BY <1>1, <1>3, RecordsFacts DEF ManifestOK
<1>5. manifests[m] \in ManifestType /\ l <= Len(s) /\ s \in Seq(Edits) /\ l \in Nat
  BY <1>4, InvParts DEF DiskTypeOK, ManifestType
<1>6. t \in Seq(Edits) /\ Len(t) = Len(s) + 1 /\ Len(s) \in Nat
  BY <1>3, <1>5, AppendFacts
<1>7. /\ DOMAIN manifests' = DOMAIN manifests
      /\ \A n \in DOMAIN manifests : n # m => manifests'[n] = manifests[n]
      /\ manifests'[m] = [records |-> t, synced |-> l]
  <2>1. manifests[m] = [records |-> s, synced |-> l]
    BY <1>5 DEF ManifestType
  <2> HIDE DEF t
  <2>2. manifests' = [manifests EXCEPT ![m].records = t]
    BY <1>1 DEF t
  <2> HIDE DEF m
  <2>3. manifests'[m] = [manifests[m] EXCEPT !.records = t]
    BY <1>4, <2>2
  <2> QED BY <1>4, <2>1, <2>2, <2>3
<1> HIDE DEF s, l, t, m
<1>8. manifests'[m].records = t /\ manifests'[m].synced = l
  BY <1>7
<1>9. manifests'[m] \in ManifestType /\ manifests'[m].synced <= Len(manifests'[m].records)
  BY <1>5, <1>6, <1>7, <1>8 DEF ManifestType
<1>10. DiskTypeOK'
  <2>1. \A n \in DOMAIN manifests' : manifests'[n] \in ManifestType /\ manifests'[n].synced <= Len(manifests'[n].records)
    BY <1>7, <1>9, InvParts DEF DiskTypeOK
  <2> QED BY <1>1, <1>7, <2>1, InvParts DEF DiskTypeOK
<1>11. CASE db.descriptor
  <2>1. m = current
    BY <1>3, <1>11 DEF ManifestOK, m
  <2>2. Moves("sync", TRUE)
    BY <1>1, <1>3, <1>11, MoveStep
  <2>3. s = Records /\ l = manifests[current].synced
    BY <2>1 DEF s, l, Records
  <2>4. manifests'[current].records = Append(Records, db.edit) /\ manifests'[current].synced = manifests[current].synced
    BY <1>8, <2>1, <2>3 DEF t
  <2> QED BY <1>1, <1>2, <1>7, <1>10, <1>11, <2>2, <2>4, AppendKeeps
<1>12. CASE ~db.descriptor
  <2>1. s = <<Snapshot>>
    BY <1>1, <1>3, <1>12 DEF ManifestOK, s, m
  <2>2. t = <<Snapshot, db.edit>>
    <3>1. Snapshot \in Edits
      BY InvParts, SnapshotFacts
    <3> QED BY <1>3, <2>1, <3>1, AppendOne DEF t
  <2>3. Moves("sync", FALSE)
    BY <1>1, <1>3, <1>12, MoveStep
  <2>4. DOMAIN manifests' = DOMAIN manifests \cup {m}
    BY <1>4, <1>7
  <2> QED BY <1>1, <1>2, <1>7, <1>8, <1>9, <1>12, <2>2, <2>3, <2>4, NewManifestKeeps DEF m
<1> QED BY <1>3, <1>11, <1>12

LEMMA TwoLong ==
    ASSUME NEW a, NEW b
    PROVE  Len(<<a, b>>) = 2 /\ <<a, b>>[1] = a /\ <<a, b>>[2] = b
OBVIOUS

LEMMA SyncManifestKeeps == FilesInv /\ SyncManifest => FilesInv'
<1> SUFFICES ASSUME FilesInv, SyncManifest PROVE FilesInv'
  OBVIOUS
<1> DEFINE m == db.manifest
           s == manifests[m].records
           l == Len(s)
<1>1. /\ db.step = "sync" /\ manifests' = [manifests EXCEPT ![m].synced = l]
      /\ db' = [db EXCEPT !.step = IF db.descriptor THEN "install" ELSE "current"]
      /\ UNCHANGED <<current, logs, tables, written, acked, synced, relied, bounds>>
  BY DEF SyncManifest, history, promised
<1>2. Applying /\ InManifest
  BY <1>1 DEF Applying, InManifest
<1>3. Busy /\ ManifestOK /\ IsDb(db) /\ current # 0 /\ db.descriptor \in BOOLEAN /\ db.edit \in Edits
  BY <1>2, ApplyingFacts, BusyFacts, InvParts, DbFields
<1>4. m \in DOMAIN manifests
  BY <1>1, <1>3, RecordsFacts DEF ManifestOK
<1>5. manifests[m] \in ManifestType /\ s \in Seq(Edits)
  BY <1>4, InvParts DEF DiskTypeOK, ManifestType
<1>6. l \in Nat
  BY <1>5
<1>7. /\ DOMAIN manifests' = DOMAIN manifests
      /\ \A n \in DOMAIN manifests : n # m => manifests'[n] = manifests[n]
      /\ manifests'[m] = [records |-> s, synced |-> l]
  <2>1. manifests[m] = [records |-> s, synced |-> manifests[m].synced]
    BY <1>5 DEF ManifestType
  <2> HIDE DEF l
  <2>2. manifests' = [manifests EXCEPT ![m].synced = l]
    BY <1>1 DEF l
  <2> HIDE DEF m
  <2>3. manifests'[m] = [manifests[m] EXCEPT !.synced = l]
    BY <1>4, <2>2
  <2> QED BY <1>4, <2>1, <2>2, <2>3
<1> HIDE DEF s, l, m
<1>8. manifests'[m].records = s /\ manifests'[m].synced = l
  BY <1>7
<1>9. manifests'[m] \in ManifestType /\ manifests'[m].synced <= Len(manifests'[m].records)
  BY <1>5, <1>6, <1>7, <1>8 DEF ManifestType, l
<1>10. DiskTypeOK'
  <2>1. \A n \in DOMAIN manifests' : manifests'[n] \in ManifestType /\ manifests'[n].synced <= Len(manifests'[n].records)
    BY <1>7, <1>9, InvParts DEF DiskTypeOK
  <2> QED BY <1>1, <1>7, <2>1, InvParts DEF DiskTypeOK
<1>11. CASE db.descriptor
  <2>1. m = current
    BY <1>3, <1>11 DEF ManifestOK, m
  <2>2. Moves("install", TRUE)
    BY <1>1, <1>3, <1>11, MoveStep
  <2>3. Records' = Records /\ Records = s
    BY <1>1, <1>8, <2>1 DEF s, Records
  <2>4. End' = End /\ End = l /\ manifests'[current'].synced = End
    BY <1>1, <1>8, <2>1, <2>3 DEF End, l
  <2>5. End \in Nat /\ End >= 1 /\ relied \in Nat /\ relied <= End /\ End \in Points /\ manifests[current].synced <= End
        /\ current \in DOMAIN manifests /\ manifests[current].synced \in Nat
    BY <1>3, RecordsFacts
  <2>6. Points' = {End}
    <3>1. Points' = {k \in 1 .. End : k >= End /\ k >= relied}
      BY <1>1, <2>4 DEF Points
    <3> QED BY <2>5, <3>1
  <2>7. GoodAt(End)
    BY <1>3, RecordsFacts
  <2>8. ASSUME NEW k \in Points' PROVE GoodAt(k)'
    <3>1. k \in Points
      BY <2>5, <2>6
    <3>2. GoodAt(k)
      BY <1>3, <3>1, InvParts DEF DiskOK
    <3> QED BY <1>1, <2>3, <2>4, <3>2 DEF GoodAt
  <2>9. db'.phase = db.phase /\ db'.step = "install" /\ db'.descriptor /\ db'.manifest = db.manifest
        /\ db'.version = db.version /\ db'.edit = db.edit /\ db'.bg_error = db.bg_error
    BY <2>2 DEF Moves
  <2>10. DiskOK'
    <3>1. db'.phase # "new_db"
      BY <1>3, <2>9 DEF Busy
    <3> QED BY <1>1, <1>3, <1>7, <2>4, <2>5, <2>8, <3>1 DEF DiskOK
  <2>11. ManifestOK'
    <3>1. InManifest' /\ db'.descriptor
      BY <2>9 DEF InManifest
    <3>2. Records'[End'] = db'.edit /\ End' \in Points'
      BY <1>2, <1>3, <1>11, <2>3, <2>4, <2>6, <2>9 DEF ManifestOK
    <3>3. ~db'.bg_error => FilesAt(Records', End') = (db'.version \ db'.edit.deleted) \cup db'.edit.added
      BY <1>2, <1>3, <1>11, <2>3, <2>4, <2>9 DEF ManifestOK
    <3> QED BY <1>1, <2>1, <2>4, <2>9, <3>1, <3>2, <3>3 DEF ManifestOK, m
  <2>12. Points' \subseteq Points
    BY <2>5, <2>6
  <2> QED BY <1>1, <1>2, <1>10, <1>11, <2>2, <2>3, <2>10, <2>11, <2>12, SamePoints, MovesKeep
<1>12. CASE ~db.descriptor
  <2>1. s = <<Snapshot, db.edit>>
    BY <1>1, <1>3, <1>12 DEF ManifestOK, s, m
  <2>2. l = 2
    BY <2>1, TwoLong DEF l
  <2>3. Moves("current", FALSE)
    BY <1>1, <1>3, <1>12, MoveStep
  <2>4. DOMAIN manifests' = DOMAIN manifests \cup {m}
    BY <1>4, <1>7
  <2> QED BY <1>1, <1>2, <1>7, <1>8, <1>9, <1>12, <2>1, <2>2, <2>3, <2>4, NewManifestKeeps DEF m
<1> QED BY <1>3, <1>11, <1>12

\* CURRENT names the new MANIFEST.
LEMMA SetCurrentFileKeeps == FilesInv /\ SetCurrentFile => FilesInv'
<1> SUFFICES ASSUME FilesInv, SetCurrentFile PROVE FilesInv'
  OBVIOUS
<1> DEFINE m == db.manifest
           R == <<Snapshot, db.edit>>
           F == db.version \cup db.edit.added
<1>1. /\ db.step = "current" /\ current' = m /\ relied' = 0
      /\ db' = [db EXCEPT !.step = "install", !.descriptor = TRUE]
      /\ UNCHANGED <<manifests, logs, tables, written, acked, synced, bounds>>
  BY DEF SetCurrentFile, promised
<1>2. Applying /\ InManifest
  BY <1>1 DEF Applying, InManifest
<1>3. /\ Busy /\ ManifestOK /\ EditOK /\ IsDb(db) /\ current # 0 /\ current \in Nat /\ db.descriptor \in BOOLEAN
      /\ db.edit \in Edits /\ m \in Nat
  BY <1>2, ApplyingFacts, BusyFacts, InvParts, DbFields
<1>4. ~db.descriptor
  BY <1>1, <1>3 DEF ManifestOK
<1>5. db.phase = "replay" /\ m \in DOMAIN manifests /\ manifests[m].records = R /\ manifests[m].synced = 2
  BY <1>1, <1>3, <1>4 DEF ManifestOK
<1>6. ~db.bg_error /\ db.edit.deleted = {} /\ db.job = "open"
  BY <1>2, <1>5, InvParts, ApplyingFacts DEF ReplayOK
<1>7. Moves("install", TRUE)
  BY ZenonT(60), <1>1, <1>3 DEF IsDb, DbNames, Moves
<1>8. Records' = R /\ manifests'[current'].synced = 2
  BY <1>1, <1>5 DEF Records
<1>9. Len(R) = 2 /\ R[1] = Snapshot /\ R[2] = db.edit
  BY TwoLong
<1>10. R \in Seq(Edits) /\ Snapshot \in Edits /\ Snapshot.added = db.version
  BY <1>3, InvParts, SnapshotFacts
<1> HIDE DEF R
<1>11. End' = 2
  BY <1>8, <1>9 DEF End
<1>12. Points' = {2}
  <2>1. Points' = {k \in 1 .. 2 : k >= 2 /\ k >= 0}
    BY <1>1, <1>8, <1>11 DEF Points
  <2> QED BY <2>1
<1>13. FilesAt(R, 2) = F
  <2> DEFINE a == Snapshot.added
             e == db.edit
  <2>1. R[1].added = a /\ R[2].added = e.added /\ R[2].deleted = {}
    BY <1>6, <1>9
  <2>2. 1 .. 2 = {1, 2} /\ 2 > 1 /\ ~(1 > 1) /\ ~(1 > 2) /\ ~(2 > 2)
    OBVIOUS
  <2> HIDE DEF a, e
  <2>3. FilesAt(R, 2) = a \cup e.added
    BY <2>1, <2>2 DEF FilesAt
  <2> QED BY <1>10, <2>3 DEF a, e
<1>14. GoodEdit(tables, logs, acked, synced, m, written, db.edit, F)
  BY <1>2, <1>5, OpenEditGood
<1>15. Records'[2] = db.edit /\ FilesAt(Records', 2) = F
  BY <1>8, <1>9, <1>13
<1> HIDE DEF F, m
<1>16. /\ db'.phase = db.phase /\ db'.step = "install" /\ db'.descriptor /\ db'.manifest = m
       /\ db'.version = db.version /\ db'.edit = db.edit /\ db'.bg_error = db.bg_error
  BY <1>7 DEF Moves, m
<1>17. GoodAt(2)'
  <2>1. GoodEdit(tables, logs, acked, synced, current', written, Records'[2], FilesAt(Records', 2))
    BY <1>1, <1>14, <1>15
  <2>2. GoodEdit(tables, logs, acked, synced, current, written, Records[2], FilesAt(Records, 2))'
    BY <1>1, <2>1
  <2>3. db.edit.next_file \in Nat /\ db.edit.last_sequence \in Nat
    BY <1>2, <1>3 DEF EditOK
  <2>4. (Records[2].next_file <= Records[End].next_file /\ Records[2].last_sequence <= Records[End].last_sequence)'
    BY <1>11, <1>15, <2>3
  <2> QED BY <2>2, <2>4 DEF GoodAt
<1>18. m # 0
  BY <1>3, <1>4 DEF ManifestOK, m
<1>19. DiskOK'
  <2>1. current' # 0 /\ current' \in DOMAIN manifests' /\ db'.phase # "new_db"
    BY <1>1, <1>5, <1>16, <1>18
  <2>2. relied' <= End' /\ manifests'[current'].synced > 0
    BY <1>1, <1>8, <1>11
  <2> QED BY <1>12, <1>17, <2>1, <2>2 DEF DiskOK
<1>20. ManifestOK'
  <2>1. InManifest' /\ db'.descriptor
    BY <1>16 DEF InManifest
  <2>2. Records'[End'] = db'.edit /\ End' \in Points'
    BY <1>11, <1>12, <1>15, <1>16
  <2>3. FilesAt(Records', End') = (db'.version \ db'.edit.deleted) \cup db'.edit.added
    BY <1>6, <1>11, <1>15, <1>16 DEF F
  <2> QED BY <1>1, <1>8, <1>11, <1>16, <2>1, <2>2, <2>3 DEF ManifestOK
<1>21. DiskTypeOK'
  BY <1>1, <1>3, InvParts DEF DiskTypeOK, m
<1>22. /\ \A k \in Points' : Records'[k].next_file <= db.edit.next_file /\ Records'[k].last_sequence <= db.edit.last_sequence
       /\ \A k \in Points' : Records'[k].next_file \in Nat /\ Records'[k].last_sequence \in Nat
  <2>1. db.edit.next_file \in Nat /\ db.edit.last_sequence \in Nat
    BY <1>2, <1>3 DEF EditOK
  <2> QED BY <1>12, <1>15, <2>1
<1> QED BY <1>1, <1>2, <1>5, <1>7, <1>19, <1>20, <1>21, <1>22, MovesKeep
-----------------------------------------------------------------------------
\* The new version is in use, and what is obsolete is deleted.

\* What DeleteObsoleteFiles leaves.
Kept(f, g, S) == DOMAIN g \subseteq DOMAIN f /\ (\A n \in DOMAIN g : g[n] = f[n]) /\ \A n \in DOMAIN f : n \in S => n \in DOMAIN g

LEMMA CollectFacts ==
    ASSUME NEW d, DeleteObsoleteFiles(d)
    PROVE  /\ current' = current /\ Kept(manifests, manifests', {n \in DOMAIN manifests : n >= d.manifest})
           /\ Kept(logs, logs', From(logs, d.log_number)) /\ Kept(tables, tables', Live(d))
           /\ d.bg_error => tables' = tables
<1>1. CASE UNCHANGED diskVars
  BY <1>1 DEF diskVars, Kept
<1>2. CASE ~UNCHANGED diskVars
  <2>1. /\ ~d.bg_error /\ tables' = Restrict(tables, DOMAIN tables \cap Live(d))
        /\ logs' = Restrict(logs, NeededLogs(d.log_number, d))
        /\ manifests' = Restrict(manifests, {n \in DOMAIN manifests : n >= d.manifest})
        /\ current' = current
    BY <1>2 DEF DeleteObsoleteFiles
  <2>2. NeededLogs(d.log_number, d) = From(logs, d.log_number)
    BY DEF NeededLogs, From
  <2>3. \A f, S : S \subseteq DOMAIN f => Kept(f, Restrict(f, S), S)
    BY DEF Kept, Restrict
  <2>4. \A f, S : Kept(f, Restrict(f, DOMAIN f \cap S), S)
    BY DEF Kept, Restrict
  <2>5. From(logs, d.log_number) \subseteq DOMAIN logs
    BY DEF From
  <2> QED BY <2>1, <2>2, <2>3, <2>4, <2>5
<1> QED BY <1>1, <1>2

\* The database after Open, or with a new version.
Settles(V, log) ==
    /\ IsDb(db') /\ db'.phase = "open" /\ db'.version = V /\ db'.log_number = log
    /\ db'.descriptor = TRUE /\ db'.save_manifest = FALSE /\ db'.job = "none" /\ db'.step = "none"
    /\ db'.logs_left = {} /\ db'.pinned = db.pinned /\ db'.logfile = db.logfile
    /\ db'.next_file = db.next_file /\ db'.last_sequence = db.last_sequence
    /\ db'.manifest = db.manifest /\ db'.mem = db.mem /\ db'.bg_error = db.bg_error
    /\ db'.edit \in Edits /\ db'.edit.added = {} /\ db'.output \in Nat
    /\ db'.imm \subseteq db.imm /\ db'.has_imm \in BOOLEAN /\ (~db'.has_imm => db'.imm = {})
    /\ db'.pending \subseteq db.pending
    /\ db'.merge = [inputs |-> {}, output |-> 0] \/ (db'.merge = db.merge /\ db'.pending = db.pending)

LEMMA SettleKeeps ==
    ASSUME FilesInv, Busy, db.descriptor, db.logs_left = {}, db.logfile # 0, Points = {End},
           NEW V, NEW log \in Nat, Settles(V, log), DeleteObsoleteFiles(db'),
           V \subseteq db.version \cup db.edit.added, log = Records[End].log_number, log <= db.logfile,
           ~db.bg_error => FilesAt(Records, End) = V, Data(tables, V) \subseteq Data(tables, FilesAt(Records, End)),
           acked \subseteq db.mem \cup db'.imm \cup Data(tables, V),
           synced \subseteq Data(tables, V) \cup db'.imm \cup (db.mem \cap SyncedOf(logs, db.logfile)),
           TablesOK(tables, Held), Below(Held, db.next_file),
           db'.merge = db.merge => /\ db.merge.inputs \subseteq V
                                   /\ db.merge = [inputs |-> {}, output |-> 0] \/ db.phase = "open",
           UNCHANGED <<written, acked, synced, bounds, relied>>
    PROVE  FilesInv'
<1>1. /\ IsDb(db') /\ db'.phase = "open" /\ db'.version = V /\ db'.log_number = log
      /\ db'.descriptor = TRUE /\ db'.save_manifest = FALSE /\ db'.job = "none" /\ db'.step = "none"
      /\ db'.logs_left = {} /\ db'.pinned = db.pinned /\ db'.logfile = db.logfile
      /\ db'.next_file = db.next_file /\ db'.last_sequence = db.last_sequence
      /\ db'.manifest = db.manifest /\ db'.mem = db.mem /\ db'.bg_error = db.bg_error
      /\ db'.edit \in Edits /\ db'.edit.added = {} /\ db'.output \in Nat
      /\ db'.imm \subseteq db.imm /\ db'.has_imm \in BOOLEAN /\ (~db'.has_imm => db'.imm = {})
      /\ db'.pending \subseteq db.pending
      /\ db'.merge = [inputs |-> {}, output |-> 0] \/ (db'.merge = db.merge /\ db'.pending = db.pending)
  BY DEF Settles
<1>2. /\ NumbersOK /\ ManifestOK /\ current # 0 /\ current \in Nat /\ written \in Nat /\ db \in DbType
      /\ DOMAIN logs \subseteq Nat /\ DOMAIN tables \subseteq Nat /\ current \in DOMAIN manifests
      /\ GoodAt(End) /\ End \in Nat /\ End >= 1 /\ relied <= End /\ db.manifest = current
  BY BusyFacts, RecordsFacts, InvParts DEF ManifestOK
<1>3. db.next_file \in Nat /\ db.logfile \in Nat /\ db.last_sequence \in Nat /\ db.version \subseteq Nat /\ db.edit.added \subseteq Nat
  BY <1>2, DbFields, EditFields
<1>4. /\ current' = current /\ Kept(manifests, manifests', {n \in DOMAIN manifests : n >= current})
      /\ Kept(logs, logs', From(logs, log)) /\ Kept(tables, tables', Live(db'))
      /\ db.bg_error => tables' = tables
  <2>1. PICK d : d = db'
    OBVIOUS
  <2>2. DeleteObsoleteFiles(d)
    BY <2>1
  <2>3. /\ current' = current /\ Kept(manifests, manifests', {n \in DOMAIN manifests : n >= d.manifest})
        /\ Kept(logs, logs', From(logs, d.log_number)) /\ Kept(tables, tables', Live(d))
        /\ d.bg_error => tables' = tables
    BY <2>2, CollectFacts
  <2> QED BY <1>1, <1>2, <2>1, <2>3
<1>5. current \in DOMAIN manifests' /\ manifests'[current] = manifests[current]
  BY <1>2, <1>4 DEF Kept
<1>6. Live(db') = db'.pending \cup V \cup Held
  BY <1>1 DEF Live, Held
<1> DEFINE F == FilesAt(Records, End)
           e == Records[End]
<1>7. TablesOK(tables, V) /\ TablesOK(tables, F)
  BY <1>2 DEF NumbersOK, TablesOK, GoodAt, GoodEdit
<1>8. KeptTables(tables, tables', V \cup Held) /\ KeptTables(tables, tables', F)
  <2>1. KeptTables(tables, tables', V \cup Held)
    BY <1>4, <1>6, <1>7 DEF Kept, KeptTables, TablesOK
  <2>2. CASE ~db.bg_error
    BY <2>1, <2>2, KeptSubset
  <2>3. CASE db.bg_error
    BY <1>4, <1>7, <2>1, <2>3 DEF KeptTables, TablesOK
  <2>4. db.bg_error \in BOOLEAN
    BY <1>2, DbFields
  <2> QED BY <2>2, <2>3, <2>4
<1>9. KeptLogs(logs, logs', From(logs, log))
  <2>1. \A n \in From(logs, log) : n \in DOMAIN logs
    BY DEF From
  <2> QED BY <1>4, <2>1 DEF Kept, KeptLogs, AllOf, SyncedOf
<1>10. db.logfile \in DOMAIN logs' /\ logs'[db.logfile] = logs[db.logfile] /\ db.mem \subseteq AllOf(logs, db.logfile) /\ db.logfile < db.next_file
  <2>1. db.logfile \in DOMAIN logs /\ db.mem \subseteq AllOf(logs, db.logfile) /\ db.logfile < db.next_file
    BY <1>2 DEF NumbersOK
  <2>2. db.logfile \in From(logs, log)
    BY <1>3, <2>1 DEF From
  <2> QED BY <1>4, <2>1, <2>2 DEF Kept
<1>11. Records' = Records /\ manifests'[current'].synced = manifests[current].synced
  BY <1>4, <1>5 DEF Records
<1>12. End' = End
  BY <1>11 DEF End
<1>13. Points' = {End}
  BY <1>11, <1>12 DEF Points
<1>14. GoodAt(End)'
  <2>1. GoodEdit(tables, logs, acked, synced, current, written, e, F) /\ e.last_sequence \in Nat
    BY <1>2 DEF GoodAt, GoodEdit
  <2>2. KeptLogs(logs, logs', From(logs, e.log_number))
    BY <1>9
  <2> HIDE DEF e, F
  <2>3. GoodEdit(tables', logs', acked, synced, current, written, e, F)
    BY <1>2, <1>8, <2>1, <2>2, GoodStays
  <2>4. GoodEdit(tables', logs', acked', synced', current', written', Records'[End'], FilesAt(Records', End'))
    BY <1>4, <1>11, <1>12, <2>3 DEF e, F
  <2>5. Records[End].next_file \in Nat /\ Records[End].last_sequence \in Nat
    BY <1>2 DEF GoodAt, GoodEdit
  <2> QED BY <1>11, <1>12, <2>4, <2>5 DEF GoodAt
<1>15. DiskOK'
  <2>1. \A k \in Points' : GoodAt(k)'
    BY <1>12, <1>13, <1>14
  <2>2. manifests[current].synced > 0 \/ relied > 0
    BY <1>2, InvParts DEF DiskOK
  <2> QED BY <1>1, <1>2, <1>4, <1>5, <1>11, <1>12, <2>1, <2>2 DEF DiskOK
<1>16. DiskTypeOK'
  BY <1>2, <1>4, InvParts DEF DiskTypeOK, Kept
<1>17. db' \in DbType
  <2>1. db'.version \subseteq Nat /\ db'.pending \subseteq Nat /\ db'.imm \subseteq AnyUpdate
    BY <1>1, <1>2, <1>3, DbFields
  <2>2. db'.merge \in [inputs : SUBSET Nat, output : Nat]
    BY <1>1, <1>2, DbFields
  <2>3. "open" \in Phases /\ "none" \in Jobs /\ "none" \in Steps
    BY DEF Phases, Jobs, Steps
  <2> QED BY ZenonT(60), <1>1, <1>2, <2>1, <2>2, <2>3, DbFields, DbFromFields
<1>18. UpdatesOK'
  <2>1. Known(db'.imm)
    BY <1>1, InvParts DEF UpdatesOK, Known
  <2> QED BY <1>1, <1>4, <2>1, InvParts DEF UpdatesOK, Known, Kept
<1>19. ClosedOK' /\ ReplayOK' /\ EditOK'
  BY <1>1 DEF ClosedOK, ReplayOK, EditOK, Applying, InManifest
<1>20. TablesOK(tables', V) /\ Data(tables', V) = Data(tables, V) /\ TablesOK(tables', Held) /\ Data(tables', F) = Data(tables, F)
  <2>1. KeptTables(tables, tables', V) /\ KeptTables(tables, tables', Held)
    BY <1>8, KeptSubset
  <2> QED BY <1>7, <1>8, <2>1, KeptFacts
<1>21. NumbersOK'
  <2>1. \A k \in Points' : Records'[k].next_file <= db'.next_file /\ Records'[k].last_sequence <= db'.last_sequence
    BY <1>1, <1>2, <1>11, <1>13 DEF NumbersOK
  <2>2. \A n \in DOMAIN logs' : n < db'.next_file
    BY <1>1, <1>2, <1>4 DEF NumbersOK, Kept
  <2>3. Below(V, db.next_file)
    BY <1>2 DEF NumbersOK, Below
  <2>4. SeqsBelow(db.mem \cup db'.imm \cup Data(tables, V), db.last_sequence)
    <3>1. Data(tables, V) \subseteq Data(tables, db.version \cup db.edit.added)
      BY DataFacts
    <3> QED BY <1>1, <1>2, <3>1 DEF NumbersOK, SeqsBelow
  <2>5. db'.version \cup db'.edit.added = V
    BY <1>1
  <2>6. db'.mem \subseteq AllOf(logs', db'.logfile)
    BY <1>1, <1>10 DEF AllOf
  <2> QED BY <1>1, <1>10, <1>20, <2>1, <2>2, <2>3, <2>4, <2>5, <2>6 DEF NumbersOK
<1>22. ManifestOK'
  <2>1. ~db'.bg_error => FilesAt(Records', End') = db'.version /\ Records'[End'].log_number = db'.log_number
    BY <1>1, <1>11, <1>12
  <2> QED BY <1>1, <1>2, <1>4, <2>1 DEF ManifestOK, InManifest
<1>23. OpenOK'
  <2>1. Contents' = db'.mem \cup db'.imm \cup Data(tables', V)
    BY <1>1 DEF Contents, Data
  <2>2. acked' \subseteq Contents'
    BY <1>1, <1>20, <2>1
  <2>3. SyncedOf(logs', db'.logfile) = SyncedOf(logs, db.logfile)
    BY <1>1, <1>10 DEF SyncedOf
  <2>4. synced' \subseteq Data(tables', db'.version) \cup db'.imm \cup (db'.mem \cap SyncedOf(logs', db'.logfile))
    BY <1>1, <1>20, <2>3
  <2>5. \A k \in Points' : /\ db'.log_number <= Records'[k].log_number /\ Records'[k].log_number <= db'.logfile
                           /\ Data(tables', db'.version) \subseteq Data(tables', FilesAt(Records', k))
    BY <1>1, <1>11, <1>13, <1>20
  <2> QED BY <1>1, <2>2, <2>4, <2>5 DEF OpenOK
<1>24. JobsOK'
  <2>1. Held' = Held
    BY <1>1 DEF Held
  <2>2. TablesOK(tables', Held') /\ Below(Held', db'.next_file)
    BY <1>1, <1>20, <2>1
  <2>3. CASE db'.merge = [inputs |-> {}, output |-> 0]
    BY <1>1, <2>2, <2>3 DEF JobsOK
  <2>4. CASE db'.merge # [inputs |-> {}, output |-> 0]
    <3>1. db'.merge = db.merge /\ db'.pending = db.pending /\ db.merge.inputs \subseteq V /\ db.phase = "open"
      BY <1>1, <2>4
    <3>2. JobsOK
      BY InvParts
    <3>3. db.merge.output = 0 => db.merge.inputs = {}
      BY <3>1, <3>2 DEF JobsOK
    <3>4. ASSUME db.merge.output # 0
          PROVE  /\ db.merge.output \in db'.pending /\ db.merge.output \in DOMAIN tables'
                 /\ db.merge.output < db'.next_file /\ tables'[db.merge.output].data = Data(tables', db.merge.inputs)
      <4>1. /\ db.merge.output \in db.pending /\ db.merge.output \in DOMAIN tables
            /\ db.merge.output < db.next_file /\ tables[db.merge.output].data = Data(tables, db.merge.inputs)
        BY <3>1, <3>2, <3>4 DEF JobsOK
      <4>2. db.merge.output \in DOMAIN tables' /\ tables'[db.merge.output] = tables[db.merge.output]
        BY <1>4, <1>6, <3>1, <4>1 DEF Kept
      <4>3. KeptTables(tables, tables', db.merge.inputs)
        BY <1>8, <3>1, KeptSubset
      <4>4. Data(tables', db.merge.inputs) = Data(tables, db.merge.inputs)
        BY <4>3, KeptFacts
      <4> QED BY <1>1, <3>1, <4>1, <4>2, <4>4
    <3> QED BY <1>1, <2>2, <3>1, <3>3, <3>4 DEF JobsOK
  <2> QED BY <2>3, <2>4
<1> QED BY <1>15, <1>16, <1>17, <1>18, <1>19, <1>21, <1>22, <1>23, <1>24 DEF FilesInv, BusyOK

LEMMA DataUnion ==
    ASSUME NEW T, NEW F, NEW G
    PROVE  Data(T, F \cup G) = Data(T, F) \cup Data(T, G)
BY DEF Data

LEMMA CleanupFields ==
    ASSUME NEW d, IsDb(d)
    PROVE  LET c == CleanupCompaction(d)
           IN  /\ IsDb(c) /\ c.pending = d.pending \ {d.merge.output}
               /\ c.merge = [inputs |-> {}, output |-> 0] /\ c.phase = d.phase /\ c.version = d.version
               /\ c.pinned = d.pinned /\ c.log_number = d.log_number /\ c.logfile = d.logfile
               /\ c.next_file = d.next_file /\ c.last_sequence = d.last_sequence
               /\ c.manifest = d.manifest /\ c.descriptor = d.descriptor /\ c.mem = d.mem /\ c.imm = d.imm
               /\ c.has_imm = d.has_imm /\ c.bg_error = d.bg_error /\ c.save_manifest = d.save_manifest
               /\ c.edit = d.edit /\ c.logs_left = d.logs_left /\ c.job = d.job /\ c.step = d.step
               /\ c.output = d.output
<1> DEFINE c == CleanupCompaction(d)
           x == d.pending \ {d.merge.output}
           y == [inputs |-> {}, output |-> 0]
<1>1. NewIncarnation.merge = y
  BY DEF NewIncarnation
<1>2. c = [d EXCEPT !.pending = x, !.merge = y]
  BY <1>1 DEF CleanupCompaction, IsDb, DbNames
<1> HIDE DEF c, x, y
<1>3. /\ IsDb(c) /\ c.pending = x /\ c.merge = y /\ c.phase = d.phase /\ c.version = d.version
      /\ c.pinned = d.pinned /\ c.log_number = d.log_number /\ c.logfile = d.logfile
      /\ c.next_file = d.next_file /\ c.last_sequence = d.last_sequence
      /\ c.manifest = d.manifest /\ c.descriptor = d.descriptor /\ c.mem = d.mem /\ c.imm = d.imm
      /\ c.has_imm = d.has_imm /\ c.bg_error = d.bg_error /\ c.save_manifest = d.save_manifest
      /\ c.edit = d.edit /\ c.logs_left = d.logs_left /\ c.job = d.job /\ c.step = d.step
      /\ c.output = d.output
  BY <1>2 DEF IsDb, DbNames
<1> QED BY <1>3 DEF c, x, y

LEMMA InstallFields ==
    ASSUME IsDb(db), Install, db.job \in {"open", "flush", "merge"}
    PROVE  LET V == (db.version \ db.edit.deleted) \cup db.edit.added
           IN  /\ db.job = "open" =>
                     /\ IsDb(db') /\ db'.version = V /\ db'.log_number = db.edit.log_number /\ db'.edit = NoEdit
                     /\ db'.job = "none" /\ db'.step = "none" /\ db'.output = 0 /\ db'.save_manifest = FALSE
                     /\ db'.phase = "open" /\ db'.pinned = db.pinned /\ db'.logfile = db.logfile
                     /\ db'.next_file = db.next_file /\ db'.last_sequence = db.last_sequence
                     /\ db'.manifest = db.manifest /\ db'.descriptor = db.descriptor /\ db'.mem = db.mem
                     /\ db'.imm = db.imm /\ db'.has_imm = db.has_imm /\ db'.pending = db.pending
                     /\ db'.bg_error = db.bg_error /\ db'.logs_left = db.logs_left /\ db'.merge = db.merge
               /\ db.job = "flush" =>
                     /\ IsDb(db') /\ db'.version = V /\ db'.log_number = db.edit.log_number /\ db'.edit = NoEdit
                     /\ db'.job = "none" /\ db'.step = "none" /\ db'.output = 0 /\ db'.save_manifest = FALSE
                     /\ db'.imm = {} /\ db'.has_imm = FALSE /\ db'.phase = db.phase /\ db'.pinned = db.pinned
                     /\ db'.logfile = db.logfile /\ db'.next_file = db.next_file
                     /\ db'.last_sequence = db.last_sequence /\ db'.manifest = db.manifest
                     /\ db'.descriptor = db.descriptor /\ db'.mem = db.mem /\ db'.pending = db.pending
                     /\ db'.bg_error = db.bg_error /\ db'.logs_left = db.logs_left /\ db'.merge = db.merge
               /\ db.job = "merge" =>
                     /\ IsDb(db') /\ db'.version = V /\ db'.log_number = db.edit.log_number /\ db'.edit = NoEdit
                     /\ db'.job = "none" /\ db'.step = "none" /\ db'.output = 0 /\ db'.save_manifest = FALSE
                     /\ db'.pending = db.pending \ {db.merge.output}
                     /\ db'.merge = [inputs |-> {}, output |-> 0] /\ db'.phase = db.phase
                     /\ db'.pinned = db.pinned /\ db'.logfile = db.logfile /\ db'.next_file = db.next_file
                     /\ db'.last_sequence = db.last_sequence /\ db'.manifest = db.manifest
                     /\ db'.descriptor = db.descriptor /\ db'.mem = db.mem /\ db'.imm = db.imm
                     /\ db'.has_imm = db.has_imm /\ db'.bg_error = db.bg_error /\ db'.logs_left = db.logs_left
<1> DEFINE V == (db.version \ db.edit.deleted) \cup db.edit.added
           a == AppendVersion(db)
           d == [a EXCEPT !.log_number = db.edit.log_number, !.edit = NoEdit, !.job = "none",
                          !.step = "none", !.output = 0, !.save_manifest = FALSE]
<1>1. a = [db EXCEPT !.version = V]
  BY DEF AppendVersion, IsDb, DbNames
<1>2. /\ db.job = "open" => db' = [d EXCEPT !.phase = "open"]
      /\ db.job = "flush" => db' = [d EXCEPT !.imm = {}, !.has_imm = FALSE]
      /\ db.job = "merge" => db' = CleanupCompaction(d)
  <2>1. db' = CASE db.job = "open"  -> [d EXCEPT !.phase = "open"]
                [] db.job = "flush" -> [d EXCEPT !.imm = {}, !.has_imm = FALSE]
                [] db.job = "merge" -> CleanupCompaction(d)
    BY DEF Install
  <2> HIDE DEF d
  <2> QED BY <2>1
<1> HIDE DEF V, a
<1>3. /\ IsDb(a) /\ a.version = V /\ a.phase = db.phase /\ a.pinned = db.pinned
      /\ a.log_number = db.log_number /\ a.logfile = db.logfile /\ a.next_file = db.next_file
      /\ a.last_sequence = db.last_sequence /\ a.manifest = db.manifest
      /\ a.descriptor = db.descriptor /\ a.mem = db.mem /\ a.imm = db.imm
      /\ a.has_imm = db.has_imm /\ a.pending = db.pending /\ a.bg_error = db.bg_error
      /\ a.save_manifest = db.save_manifest /\ a.edit = db.edit /\ a.logs_left = db.logs_left
      /\ a.job = db.job /\ a.step = db.step /\ a.output = db.output /\ a.merge = db.merge
  BY <1>1 DEF IsDb, DbNames
<1>4. /\ IsDb(d) /\ d.version = V /\ d.log_number = db.edit.log_number /\ d.edit = NoEdit
      /\ d.job = "none" /\ d.step = "none" /\ d.output = 0 /\ d.save_manifest = FALSE
      /\ d.phase = db.phase /\ d.pinned = db.pinned /\ d.logfile = db.logfile
      /\ d.next_file = db.next_file /\ d.last_sequence = db.last_sequence
      /\ d.manifest = db.manifest /\ d.descriptor = db.descriptor /\ d.mem = db.mem
      /\ d.imm = db.imm /\ d.has_imm = db.has_imm /\ d.pending = db.pending
      /\ d.bg_error = db.bg_error /\ d.logs_left = db.logs_left /\ d.merge = db.merge
  BY ZenonT(60), <1>3 DEF IsDb, DbNames
<1> HIDE DEF d
<1>5. CASE db.job = "open"
  <2>1. db' = [d EXCEPT !.phase = "open"]
    BY <1>2, <1>5
  <2> QED BY <1>4, <1>5, <2>1 DEF IsDb, DbNames, V
<1>6. CASE db.job = "flush"
  <2>1. db' = [d EXCEPT !.imm = {}, !.has_imm = FALSE]
    BY <1>2, <1>6
  <2> QED BY <1>4, <1>6, <2>1 DEF IsDb, DbNames, V
<1>7. CASE db.job = "merge"
  <2>1. db' = CleanupCompaction(d)
    BY <1>2, <1>7
  <2> QED BY <1>4, <1>7, <2>1, CleanupFields DEF V
<1> QED BY <1>5, <1>6, <1>7

LEMMA LastAdded ==
    ASSUME NEW s \in Seq(Edits), Len(s) >= 1
    PROVE  s[Len(s)].added \subseteq FilesAt(s, Len(s))
<1> DEFINE m == Len(s)
<1>1. m \in 1 .. m /\ \A j \in 1 .. m : ~(j > m)
  OBVIOUS
<1> HIDE DEF m
<1>2. s[m].added \subseteq FilesAt(s, m)
  BY <1>1 DEF FilesAt
<1> QED BY <1>2 DEF m

LEMMA InstallKeeps == FilesInv /\ Install => FilesInv'
<1> SUFFICES ASSUME FilesInv, Install PROVE FilesInv'
  OBVIOUS
<1> DEFINE V == (db.version \ db.edit.deleted) \cup db.edit.added
           log == db.edit.log_number
<1>1. db.step = "install" /\ UNCHANGED <<written, acked, synced, bounds, relied>>
  BY DEF Install, history, promised
<1>2. Applying /\ InManifest
  BY <1>1 DEF Applying, InManifest
<1>3. /\ Busy /\ NumbersOK /\ EditOK /\ ManifestOK /\ IsDb(db) /\ current # 0 /\ db \in DbType
      /\ db.descriptor \in BOOLEAN /\ db.has_imm \in BOOLEAN
  BY <1>2, ApplyingFacts, BusyFacts, InvParts, DbFields
<1>4. db.descriptor /\ manifests[current].synced = End /\ Records[End] = db.edit
      /\ (~db.bg_error => FilesAt(Records, End) = V)
  BY <1>1, <1>2, <1>3 DEF ManifestOK
<1>5. /\ Records \in Seq(Edits) /\ End \in Nat /\ End >= 1 /\ relied \in Nat /\ relied <= End
      /\ End = Len(Records)
  BY <1>3, RecordsFacts DEF End
<1>6. Points = {End}
  <2>1. Points = {k \in 1 .. End : k >= End /\ k >= relied}
    BY <1>4 DEF Points
  <2> QED BY <1>5, <2>1
<1>7. db.job \in {"open", "flush", "merge"} /\ db.logs_left = {} /\ db.logfile # 0
      /\ (db.job = "open" <=> db.phase = "replay") /\ (db.job # "open" => db.phase = "open")
  <2>1. CASE db.phase = "replay"
    BY <1>2, <2>1, ApplyingFacts
  <2>2. CASE db.phase = "open"
    BY <1>2, <2>2, ApplyingFacts, InvParts DEF OpenOK
  <2> QED BY <1>3, <2>1, <2>2 DEF Busy
<1>8. DeleteObsoleteFiles(db')
  BY DEF Install
<1>9. /\ log \in Nat /\ log = Records[End].log_number /\ log <= db.logfile
  BY <1>2, <1>3, <1>4 DEF EditOK
<1>10. V \subseteq db.version \cup db.edit.added
  OBVIOUS
<1>11. NoEdit \in Edits /\ NoEdit.added = {}
  BY NoEditFacts
<1>12. Data(tables, db.edit.added) \subseteq Data(tables, FilesAt(Records, End))
  <2>1. db.edit.added \subseteq FilesAt(Records, End)
    BY <1>4, <1>5, LastAdded
  <2> QED BY <2>1, DataFacts
<1>13. CASE db.job = "open"
  <2>1. /\ db.phase = "replay" /\ ~db.bg_error /\ db.imm = {} /\ ~db.has_imm /\ db.pinned = <<>> /\ db.edit.deleted = {}
        /\ db.merge = [inputs |-> {}, output |-> 0]
        /\ acked \subseteq Data(tables, db.version \cup db.edit.added) \cup db.mem \cup LogData(logs, {})
        /\ synced \subseteq Data(tables, db.version \cup db.edit.added) \cup (db.mem \cap SyncedOf(logs, db.logfile))
                            \cup SyncedData(logs, {})
    BY <1>7, <1>13, InvParts DEF ReplayOK
  <2>2. V = db.version \cup db.edit.added /\ LogData(logs, {}) = {} /\ SyncedData(logs, {}) = {}
    BY <2>1 DEF LogData, SyncedData
  <2>3. Settles(V, log) /\ db'.imm = {}
    <3>1. /\ IsDb(db') /\ db'.version = V /\ db'.log_number = log /\ db'.edit = NoEdit
          /\ db'.job = "none" /\ db'.step = "none" /\ db'.output = 0 /\ db'.save_manifest = FALSE
          /\ db'.phase = "open" /\ db'.pinned = db.pinned /\ db'.logfile = db.logfile
          /\ db'.next_file = db.next_file /\ db'.last_sequence = db.last_sequence
          /\ db'.manifest = db.manifest /\ db'.descriptor = db.descriptor /\ db'.mem = db.mem
          /\ db'.imm = db.imm /\ db'.has_imm = db.has_imm /\ db'.pending = db.pending
          /\ db'.bg_error = db.bg_error /\ db'.logs_left = db.logs_left /\ db'.merge = db.merge
      BY <1>3, <1>13, InstallFields
    <3> HIDE DEF V, log
    <3> QED BY <1>3, <1>4, <1>7, <1>11, <2>1, <3>1 DEF Settles
  <2>4. Held = {}
    BY <2>1 DEF Held, ToSet
  <2>5. TablesOK(tables, Held) /\ Below(Held, db.next_file)
    BY <2>4 DEF TablesOK, Below
  <2>6. Data(tables, V) \subseteq Data(tables, FilesAt(Records, End))
    BY <1>4, <2>1
  <2>7. acked \subseteq db.mem \cup db'.imm \cup Data(tables, V) /\ synced \subseteq Data(tables, V) \cup db'.imm \cup (db.mem \cap SyncedOf(logs, db.logfile))
    BY <2>1, <2>2, <2>3
  <2> HIDE DEF V, log
  <2> QED BY <1>1, <1>3, <1>4, <1>6, <1>7, <1>8, <1>9, <1>10, <2>1, <2>3, <2>5, <2>6, <2>7, SettleKeeps
<1>14. ASSUME db.phase = "open"
       PROVE  /\ TablesOK(tables, Held) /\ Below(Held, db.next_file)
              /\ Data(tables, db.version) \subseteq Data(tables, V)
              /\ Data(tables, V) \subseteq Data(tables, FilesAt(Records, End))
              /\ acked \subseteq db.mem \cup db.imm \cup Data(tables, V)
              /\ synced \subseteq Data(tables, V) \cup db.imm \cup (db.mem \cap SyncedOf(logs, db.logfile))
  <2>1. TablesOK(tables, Held) /\ Below(Held, db.next_file)
    BY <1>14, InvParts DEF JobsOK
  <2>2. Data(tables, db.version) \subseteq Data(tables, V)
    BY <1>2, <1>14, EditKeepsData
  <2>3. Data(tables, db.version) \subseteq Data(tables, FilesAt(Records, End))
    BY <1>6, <1>14, InvParts DEF OpenOK
  <2>4. Data(tables, V) \subseteq Data(tables, db.version) \cup Data(tables, db.edit.added)
    <3> HIDE DEF V
    <3>1. Data(tables, V) \subseteq Data(tables, db.version \cup db.edit.added)
      BY <1>10, DataFacts
    <3>2. Data(tables, db.version \cup db.edit.added) = Data(tables, db.version) \cup Data(tables, db.edit.added)
      BY DataUnion
    <3> QED BY <3>1, <3>2
  <2>5. acked \subseteq Contents /\ Contents = db.mem \cup db.imm \cup Data(tables, db.version)
        /\ synced \subseteq Data(tables, db.version) \cup db.imm \cup (db.mem \cap SyncedOf(logs, db.logfile))
    BY <1>14, InvParts DEF OpenOK, Contents, Data
  <2> HIDE DEF V
  <2> QED BY <1>12, <2>1, <2>2, <2>3, <2>4, <2>5
<1>15. CASE db.job = "flush"
  <2>1. db.phase = "open"
    BY <1>7, <1>15
  <2>2. /\ db.edit.deleted = {} /\ db.edit.added = (IF db.imm = {} THEN {} ELSE {db.output})
        /\ db.imm # {} => tables[db.output].data = db.imm
        /\ db.merge.inputs \subseteq db.version
    BY <1>1, <1>15, <2>1, InvParts DEF JobsOK
  <2>3. db.imm \subseteq Data(tables, V)
    <3>1. db.imm \subseteq Data(tables, db.edit.added)
      BY <2>2, DataOne
    <3>2. Data(tables, db.edit.added) \subseteq Data(tables, V)
      BY DataFacts
    <3> QED BY <3>1, <3>2
  <2>4. Settles(V, log) /\ db'.imm = {}
    <3>1. /\ IsDb(db') /\ db'.version = V /\ db'.log_number = log /\ db'.edit = NoEdit
          /\ db'.job = "none" /\ db'.step = "none" /\ db'.output = 0 /\ db'.save_manifest = FALSE
          /\ db'.imm = {} /\ db'.has_imm = FALSE /\ db'.phase = db.phase /\ db'.pinned = db.pinned
          /\ db'.logfile = db.logfile /\ db'.next_file = db.next_file
          /\ db'.last_sequence = db.last_sequence /\ db'.manifest = db.manifest
          /\ db'.descriptor = db.descriptor /\ db'.mem = db.mem /\ db'.pending = db.pending
          /\ db'.bg_error = db.bg_error /\ db'.logs_left = db.logs_left /\ db'.merge = db.merge
      BY <1>3, <1>15, InstallFields
    <3> HIDE DEF V, log
    <3>4. db'.has_imm \in BOOLEAN /\ db'.imm = {}
      BY <3>1, Zenon
    <3>2. /\ db'.imm \subseteq db.imm /\ (~db'.has_imm => db'.imm = {})
          /\ db'.pending \subseteq db.pending /\ db'.merge = db.merge /\ db'.output \in Nat
          /\ db'.edit \in Edits /\ db'.edit.added = {}
      BY <1>11, <3>1
    <3>3. db'.phase = "open" /\ db'.descriptor = TRUE /\ db'.logs_left = {}
      BY <1>3, <1>4, <1>7, <2>1, <3>1
    <3> QED BY <3>1, <3>2, <3>3, <3>4 DEF Settles
  <2>5. acked \subseteq db.mem \cup db'.imm \cup Data(tables, V) /\ synced \subseteq Data(tables, V) \cup db'.imm \cup (db.mem \cap SyncedOf(logs, db.logfile))
    BY <1>14, <2>1, <2>3
  <2>6. db.merge.inputs \subseteq V
    BY <2>2
  <2> HIDE DEF V, log
  <2> QED BY <1>1, <1>3, <1>4, <1>6, <1>7, <1>8, <1>9, <1>10, <1>14, <2>1, <2>4, <2>5, <2>6, SettleKeeps
<1>16. CASE db.job = "merge"
  <2>1. db.phase = "open"
    BY <1>7, <1>16
  <2>2. ~db.has_imm => db.imm = {}
    BY <2>1, InvParts DEF OpenOK
  <2>3. db.merge # [inputs |-> {}, output |-> 0]
    BY <1>16, <2>1, InvParts DEF JobsOK
  <2>4. Settles(V, log) /\ db'.imm = db.imm /\ db'.merge = [inputs |-> {}, output |-> 0]
    <3>1. /\ IsDb(db') /\ db'.version = V /\ db'.log_number = log /\ db'.edit = NoEdit
          /\ db'.job = "none" /\ db'.step = "none" /\ db'.output = 0 /\ db'.save_manifest = FALSE
          /\ db'.pending = db.pending \ {db.merge.output}
          /\ db'.merge = [inputs |-> {}, output |-> 0] /\ db'.phase = db.phase
          /\ db'.pinned = db.pinned /\ db'.logfile = db.logfile /\ db'.next_file = db.next_file
          /\ db'.last_sequence = db.last_sequence /\ db'.manifest = db.manifest
          /\ db'.descriptor = db.descriptor /\ db'.mem = db.mem /\ db'.imm = db.imm
          /\ db'.has_imm = db.has_imm /\ db'.bg_error = db.bg_error /\ db'.logs_left = db.logs_left
      BY <1>3, <1>16, InstallFields
    <3> HIDE DEF V, log
    <3> QED BY <1>3, <1>4, <1>7, <1>11, <2>1, <2>2, <3>1 DEF Settles
  <2>5. acked \subseteq db.mem \cup db'.imm \cup Data(tables, V) /\ synced \subseteq Data(tables, V) \cup db'.imm \cup (db.mem \cap SyncedOf(logs, db.logfile))
    BY <1>14, <2>1, <2>4
  <2>6. db'.merge # db.merge
    BY <2>3, <2>4
  <2> HIDE DEF V, log
  <2> QED BY <1>1, <1>3, <1>4, <1>6, <1>7, <1>8, <1>9, <1>10, <1>14, <2>1, <2>4, <2>5, <2>6, SettleKeeps
<1> QED BY <1>7, <1>13, <1>15, <1>16

\* Open, with nothing to save.
LEMMA OpenedKeeps == FilesInv /\ Opened => FilesInv'
<1> SUFFICES ASSUME FilesInv, Opened PROVE FilesInv'
  OBVIOUS
<1>1. /\ db.step = "opened" /\ db' = [db EXCEPT !.phase = "open", !.job = "none", !.step = "none"]
      /\ UNCHANGED <<written, acked, synced, bounds, relied>> /\ DeleteObsoleteFiles(db')
  BY DEF Opened, history, promised
<1>2. db \in DbType /\ IsDb(db) /\ db.edit \in Edits
  BY InvParts, DbIsDb, DbFields
<1>3. db.phase = "replay" /\ Busy
  <2>1. db.phase \in Phases
    BY <1>2, DbFields
  <2>2. db.phase \in {"down", "new_db", "recover"} => db.step = "none"
    BY InvParts DEF ClosedOK, NewIncarnation
  <2>3. db.phase = "open" => db.step # "opened"
    <3>1. db.phase = "open" => db.job \in {"none", "flush", "merge"}
      BY InvParts DEF OpenOK
    <3>2. db.phase = "open" /\ db.job = "none" => db.step = "none"
      BY InvParts DEF BusyOK, Busy, NumbersOK
    <3> QED BY <3>1, <3>2, InvParts DEF JobsOK
  <2> QED BY <1>1, <2>1, <2>2, <2>3 DEF Phases, Busy
<1>4. NumbersOK /\ ManifestOK /\ current # 0 /\ ~InManifest
  BY <1>1, <1>3, BusyFacts DEF InManifest
<1>5. db.job = "open"
  BY <1>1, <1>3, <1>4, InvParts DEF ReplayOK, NumbersOK
<1>6. /\ ~db.bg_error /\ db.imm = {} /\ ~db.has_imm /\ db.pinned = <<>> /\ db.edit.deleted = {}
      /\ db.merge = [inputs |-> {}, output |-> 0] /\ db.logs_left = {} /\ db.logfile # 0
      /\ ~db.save_manifest /\ db.descriptor /\ db.edit.added = {} /\ relied = End /\ db.logfile >= db.log_number
      /\ acked \subseteq Data(tables, db.version \cup db.edit.added) \cup db.mem \cup LogData(logs, {})
      /\ synced \subseteq Data(tables, db.version \cup db.edit.added) \cup (db.mem \cap SyncedOf(logs, db.logfile))
                          \cup SyncedData(logs, {})
  BY <1>1, <1>3, <1>4, <1>5, InvParts DEF ReplayOK
<1>7. FilesAt(Records, End) = db.version /\ Records[End].log_number = db.log_number
  BY <1>4, <1>6 DEF ManifestOK
<1>8. Points = {End}
  <2>1. End \in Nat /\ End >= 1 /\ manifests[current].synced \in Nat /\ manifests[current].synced <= End
    BY <1>4, RecordsFacts
  <2>2. Points = {k \in 1 .. End : k >= manifests[current].synced /\ k >= End}
    BY <1>6 DEF Points
  <2> QED BY <2>1, <2>2
<1>9. /\ IsDb(db') /\ db'.phase = "open" /\ db'.job = "none" /\ db'.step = "none"
      /\ db'.version = db.version /\ db'.pinned = db.pinned /\ db'.log_number = db.log_number
      /\ db'.logfile = db.logfile /\ db'.next_file = db.next_file
      /\ db'.last_sequence = db.last_sequence /\ db'.manifest = db.manifest
      /\ db'.descriptor = db.descriptor /\ db'.mem = db.mem /\ db'.imm = db.imm
      /\ db'.has_imm = db.has_imm /\ db'.pending = db.pending /\ db'.bg_error = db.bg_error
      /\ db'.save_manifest = db.save_manifest /\ db'.edit = db.edit
      /\ db'.logs_left = db.logs_left /\ db'.output = db.output /\ db'.merge = db.merge
  BY <1>1, <1>2 DEF IsDb, DbNames
<1>10. Settles(db.version, db.log_number) /\ db'.imm = {}
  <2>1. db.output \in Nat /\ db.save_manifest \in BOOLEAN /\ db.has_imm \in BOOLEAN /\ db.descriptor \in BOOLEAN
    BY <1>2, DbFields
  <2> QED BY <1>2, <1>6, <1>9, <2>1 DEF Settles
<1>11. db.version \cup db.edit.added = db.version /\ LogData(logs, {}) = {} /\ SyncedData(logs, {}) = {}
  BY <1>6 DEF LogData, SyncedData
<1>12. Held = {}
  BY <1>6 DEF Held, ToSet
<1>13. TablesOK(tables, Held) /\ Below(Held, db.next_file)
  BY <1>12 DEF TablesOK, Below
<1>14. acked \subseteq db.mem \cup db'.imm \cup Data(tables, db.version)
       /\ synced \subseteq Data(tables, db.version) \cup db'.imm \cup (db.mem \cap SyncedOf(logs, db.logfile))
  BY <1>6, <1>10, <1>11
<1>15. db.log_number \in Nat /\ db.logfile \in Nat /\ db.log_number <= db.logfile
  BY <1>2, <1>6, DbFields
<1>16. Data(tables, db.version) \subseteq Data(tables, FilesAt(Records, End)) /\ db.merge.inputs \subseteq db.version
  BY <1>6, <1>7
<1> QED BY <1>1, <1>3, <1>6, <1>7, <1>8, <1>10, <1>11, <1>13, <1>14, <1>15, <1>16, SettleKeeps
-----------------------------------------------------------------------------
\* Steps of an open database.

\* What no such step changes.
Works ==
    /\ IsDb(db') /\ db'.phase = db.phase /\ db'.version = db.version /\ db'.log_number = db.log_number
    /\ db'.manifest = db.manifest /\ db'.descriptor = db.descriptor
    /\ db'.save_manifest = db.save_manifest /\ db'.logs_left = db.logs_left
    /\ UNCHANGED <<current, manifests, relied, bounds>>

\* Where LogAndApply is, or that it is given up.
StepsOn ==
    /\ \/ db'.step = db.step /\ db'.edit = db.edit
       \/ db'.step \in {"none", "table", "append"} /\ (db'.bg_error \/ ~InManifest)
    /\ db.bg_error => db'.bg_error

LEMMA OpenFacts ==
    ASSUME FilesInv, db.phase = "open"
    PROVE  /\ Busy /\ NumbersOK /\ EditOK /\ ManifestOK /\ OpenOK /\ JobsOK /\ db \in DbType /\ IsDb(db)
           /\ current # 0 /\ current \in Nat /\ written \in Nat /\ db.descriptor /\ db.logs_left = {} /\ db.logfile # 0
           /\ db.logfile \in DOMAIN logs /\ db.logfile \in Nat /\ db.logfile < db.next_file
           /\ db.next_file \in Nat /\ db.last_sequence \in Nat /\ db.output \in Nat /\ db.merge.output \in Nat
           /\ DOMAIN tables \subseteq Nat /\ DOMAIN logs \subseteq Nat
           /\ \A n \in DOMAIN logs : n < db.next_file
<1>1. Busy
  BY DEF Busy
<1>2. NumbersOK /\ EditOK /\ ManifestOK /\ OpenOK /\ JobsOK /\ db \in DbType /\ IsDb(db) /\ current # 0 /\ written \in Nat
      /\ DOMAIN tables \subseteq Nat /\ DOMAIN logs \subseteq Nat /\ current \in Nat
  BY <1>1, BusyFacts, InvParts
<1>3. db.descriptor /\ db.logs_left = {} /\ db.logfile # 0
  BY <1>2 DEF OpenOK
<1>4. db.logfile \in DOMAIN logs /\ db.logfile < db.next_file /\ \A n \in DOMAIN logs : n < db.next_file
  BY <1>2, <1>3 DEF NumbersOK
<1> QED BY <1>1, <1>2, <1>3, <1>4, DbFields

LEMMA OpenStep ==
    ASSUME FilesInv, db.phase = "open", Works, StepsOn,
           DiskTypeOK', db' \in DbType, UpdatesOK', DiskOK', EditOK', JobsOK',
           Records' = Records, End' = End, Points' = Points,
           \A k \in Points : KeptTables(tables, tables', FilesAt(Records, k)),
           KeptTables(tables, tables', db.version),
           db.next_file <= db'.next_file, db.last_sequence <= db'.last_sequence, db.logfile <= db'.logfile,
           \A n \in DOMAIN logs' : n < db'.next_file,
           db'.logfile \in DOMAIN logs', db'.mem \subseteq AllOf(logs', db'.logfile),
           TablesOK(tables', db'.edit.added), Below(db'.edit.added, db'.next_file),
           SeqsBelow(db'.mem \cup db'.imm \cup Data(tables', db'.edit.added), db'.last_sequence),
           db'.job = "none" => db'.step = "none", db'.job \in {"none", "flush", "merge"},
           acked' \subseteq db'.mem \cup db'.imm \cup Data(tables, db.version),
           synced' \subseteq Data(tables, db.version) \cup db'.imm \cup (db'.mem \cap SyncedOf(logs', db'.logfile)),
           ~db'.has_imm => db'.imm = {}
    PROVE  FilesInv'
<1>1. /\ db'.phase = db.phase /\ db'.version = db.version /\ db'.log_number = db.log_number
      /\ db'.manifest = db.manifest /\ db'.descriptor = db.descriptor
      /\ db'.save_manifest = db.save_manifest /\ db'.logs_left = db.logs_left
      /\ UNCHANGED <<current, manifests, relied, bounds>>
  BY DEF Works
<1>2. /\ Busy /\ NumbersOK /\ ManifestOK /\ OpenOK /\ db \in DbType /\ db.descriptor /\ db.logfile # 0
      /\ db.next_file \in Nat /\ db.last_sequence \in Nat /\ db.logfile \in Nat /\ db.version \subseteq Nat
      /\ DOMAIN tables \subseteq Nat
  BY OpenFacts, DbFields
<1>3. db'.next_file \in Nat /\ db'.last_sequence \in Nat /\ db'.logfile \in Nat
  BY DbFields
<1>4. TablesOK(tables, db.version) /\ Below(db.version, db.next_file)
      /\ SeqsBelow(Data(tables, db.version), db.last_sequence) /\ Data(tables, db.version) \subseteq AnyUpdate
  <2>1. TablesOK(tables, db.version) /\ Below(db.version, db.next_file)
    BY <1>2 DEF NumbersOK, TablesOK, Below
  <2>2. Data(tables, db.version) \subseteq Data(tables, db.version \cup db.edit.added)
    BY DataUnion
  <2>3. SeqsBelow(Data(tables, db.version), db.last_sequence)
    BY <1>2, <2>2 DEF NumbersOK, SeqsBelow
  <2> QED BY <2>1, <2>3, InvParts, DataTyped
<1>5. TablesOK(tables', db.version) /\ Data(tables', db.version) = Data(tables, db.version)
  BY <1>4, KeptFacts
<1>6. NumbersOK'
  <2>1. \A k \in Points' : Records'[k].next_file <= db'.next_file /\ Records'[k].last_sequence <= db'.last_sequence
    BY <1>2, <1>3, PointsUp
  <2>2. Below(db.version, db'.next_file) /\ SeqsBelow(Data(tables, db.version), db'.last_sequence)
    BY <1>2, <1>3, <1>4, BelowUp, SeqsUp
  <2>3. TablesOK(tables', db'.version \cup db'.edit.added) /\ Below(db'.version \cup db'.edit.added, db'.next_file)
    BY <1>1, <1>5, <2>2 DEF TablesOK, Below
  <2>4. Data(tables', db'.version \cup db'.edit.added) = Data(tables, db.version) \cup Data(tables', db'.edit.added)
    <3>1. Data(tables', db.version \cup db'.edit.added) = Data(tables', db.version) \cup Data(tables', db'.edit.added)
      BY DataUnion
    <3> QED BY <1>1, <1>5, <3>1
  <2>5. SeqsBelow(db'.mem \cup db'.imm \cup Data(tables', db'.version \cup db'.edit.added), db'.last_sequence)
    <3> DEFINE D == Data(tables, db.version)
               E == Data(tables', db'.edit.added)
               G == Data(tables', db'.version \cup db'.edit.added)
    <3>1. G = D \cup E
      BY <2>4
    <3>2. SeqsBelow(db'.mem \cup db'.imm \cup E, db'.last_sequence) /\ SeqsBelow(D, db'.last_sequence)
      BY <2>2
    <3> HIDE DEF D, E, G
    <3>3. SeqsBelow(db'.mem \cup db'.imm \cup G, db'.last_sequence)
      BY <3>1, <3>2 DEF SeqsBelow
    <3> QED BY <3>3 DEF G
  <2>6. db'.logfile # 0 /\ db'.logfile < db'.next_file
    BY <1>2, <1>3
  <2>7. db'.phase # "replay"
    BY <1>1
  <2>8. \A n \in DOMAIN logs' : n < db'.next_file \/ n \in db'.logs_left
    OBVIOUS
  <2> QED BY <2>1, <2>3, <2>5, <2>6, <2>7, <2>8 DEF NumbersOK
<1>7. ManifestOK'
  <2>1. db.manifest = current
    BY <1>2 DEF ManifestOK
  <2>2. CASE db'.step = db.step /\ db'.edit = db.edit
    <3>1. InManifest' <=> InManifest
      BY <2>2 DEF InManifest
    <3>2. db.bg_error => db'.bg_error
      BY DEF StepsOn
    <3>3. manifests'[current'].synced = manifests[current].synced
      BY <1>1
    <3>4. IF InManifest'
          THEN /\ Records'[End'] = db'.edit /\ End' \in Points'
               /\ ~db'.bg_error => FilesAt(Records', End') = (db'.version \ db'.edit.deleted) \cup db'.edit.added
          ELSE ~db'.bg_error => FilesAt(Records', End') = db'.version /\ Records'[End'].log_number = db'.log_number
      BY <1>1, <1>2, <2>2, <3>1, <3>2 DEF ManifestOK
    <3>5. db'.step = "install" => manifests'[current'].synced = End'
      BY <1>2, <2>2, <3>3 DEF ManifestOK
    <3>6. db'.step \notin {"manifest", "current"}
      BY <1>2, <2>2 DEF ManifestOK
    <3> QED BY <1>1, <1>2, <2>1, <3>4, <3>5, <3>6 DEF ManifestOK
  <2>3. CASE db'.step \in {"none", "table", "append"} /\ (db'.bg_error \/ ~InManifest)
    <3>1. ~InManifest' /\ db'.step # "install" /\ db'.step \notin {"manifest", "current"}
      BY <2>3 DEF InManifest
    <3>2. ~db'.bg_error => ~InManifest /\ ~db.bg_error
      BY <2>3 DEF StepsOn
    <3>3. ~db'.bg_error => FilesAt(Records', End') = db'.version /\ Records'[End'].log_number = db'.log_number
      BY <1>1, <1>2, <3>2 DEF ManifestOK
    <3> QED BY <1>1, <1>2, <2>1, <3>1, <3>3 DEF ManifestOK
  <2> QED BY <2>2, <2>3 DEF StepsOn
<1>8. OpenOK'
  <2>1. Contents' = db'.mem \cup db'.imm \cup Data(tables', db.version)
    BY <1>1 DEF Contents, Data
  <2>2. acked' \subseteq Contents'
    BY <1>5, <2>1
  <2>3. synced' \subseteq Data(tables', db'.version) \cup db'.imm \cup (db'.mem \cap SyncedOf(logs', db'.logfile))
    BY <1>1, <1>5
  <2>4. ASSUME NEW k \in Points
        PROVE  /\ db.log_number <= Records[k].log_number /\ Records[k].log_number <= db'.logfile
               /\ Data(tables', db.version) \subseteq Data(tables', FilesAt(Records, k))
    <3>1. /\ db.log_number <= Records[k].log_number /\ Records[k].log_number <= db.logfile
          /\ Data(tables, db.version) \subseteq Data(tables, FilesAt(Records, k))
      BY <1>2 DEF OpenOK
    <3>2. Records[k].log_number \in Nat
      BY OpenFacts, InvParts DEF DiskOK, GoodAt, GoodEdit
    <3>3. Data(tables', FilesAt(Records, k)) = Data(tables, FilesAt(Records, k))
      BY KeptFacts
    <3> QED BY <1>2, <1>3, <1>5, <3>1, <3>2, <3>3
  <2>5. \A k \in Points' : /\ db'.log_number <= Records'[k].log_number /\ Records'[k].log_number <= db'.logfile
                           /\ Data(tables', db'.version) \subseteq Data(tables', FilesAt(Records', k))
    BY <1>1, <2>4
  <2>6. db'.descriptor /\ db'.logs_left = {} /\ ~db'.save_manifest /\ db'.logfile # 0
    BY <1>1, <1>2, <1>3 DEF OpenOK
  <2> QED BY <2>2, <2>3, <2>5, <2>6 DEF OpenOK
<1>9. ClosedOK' /\ ReplayOK'
  BY <1>1 DEF ClosedOK, ReplayOK
<1> QED BY <1>6, <1>7, <1>8, <1>9 DEF FilesInv, BusyOK

\* The edit under way stays as it is.
LEMMA EditStays ==
    ASSUME FilesInv, db.phase = "open", Works, db' \in DbType,
           (db'.step = db.step /\ db'.edit = db.edit) \/ db'.step \in {"none", "table"},
           Records' = Records, Points' = Points, KeptTables(tables, tables', db.edit.added),
           db.next_file <= db'.next_file, db.last_sequence <= db'.last_sequence, db.logfile <= db'.logfile
    PROVE  EditOK'
<1>1. db'.manifest = db.manifest
  BY DEF Works
<1>2. /\ EditOK /\ db.next_file \in Nat /\ db.last_sequence \in Nat /\ db.logfile \in Nat
  BY OpenFacts
<1>3. db'.next_file \in Nat /\ db'.last_sequence \in Nat /\ db'.logfile \in Nat
  BY DbFields
<1>4. Data(tables', db.edit.added) = Data(tables, db.edit.added)
  BY KeptFacts
<1>5. CASE db'.step = db.step /\ db'.edit = db.edit
  <2>1. Applying' => Applying
    BY <1>5 DEF Applying, InManifest
  <2>2. ASSUME Applying'
        PROVE  /\ db.edit.next_file \in Nat /\ db.edit.last_sequence \in Nat /\ db.edit.log_number \in Nat
               /\ db.edit.next_file <= db'.next_file /\ db.edit.last_sequence <= db'.last_sequence
               /\ db.edit.log_number <= db'.logfile
    BY <1>2, <1>3, <2>1, <2>2 DEF EditOK
  <2>3. ASSUME Applying' PROVE (\A k \in Points : Records[k].next_file <= db.edit.next_file /\ Records[k].last_sequence <= db.edit.last_sequence)'
    BY <1>2, <1>5, <2>1, <2>3 DEF EditOK
  <2>4. ASSUME Applying'
        PROVE  /\ db.edit.log_number < db.edit.next_file /\ db'.manifest < db.edit.next_file
               /\ Below(db.edit.added, db.edit.next_file) /\ SeqsBelow(Data(tables', db.edit.added), db.edit.last_sequence)
    BY <1>1, <1>2, <1>4, <2>1, <2>4 DEF EditOK
  <2> QED BY <1>5, <2>2, <2>3, <2>4 DEF EditOK
<1>6. CASE db'.step \in {"none", "table"}
  BY <1>6 DEF EditOK, Applying, InManifest
<1> QED BY <1>5, <1>6

\* The compaction under way, and the versions of iterators, stay as they are.
LEMMA MergeStays ==
    ASSUME FilesInv, db.phase = "open", db'.merge = db.merge, db'.version = db.version, db' \in DbType,
           db.next_file <= db'.next_file,
           KeptTables(tables, tables', db.version),
           db.merge.output # 0 => db.merge.output \in db'.pending /\ KeptTables(tables, tables', {db.merge.output})
    PROVE  /\ db'.merge.inputs \subseteq db'.version
           /\ IF db'.merge.output = 0 THEN db'.merge.inputs = {}
              ELSE /\ db'.merge.output \in db'.pending /\ db'.merge.output \in DOMAIN tables'
                   /\ db'.merge.output < db'.next_file
                   /\ tables'[db'.merge.output].data = Data(tables', db'.merge.inputs)
<1>1. JobsOK /\ db.next_file \in Nat /\ db.merge.output \in Nat /\ db'.next_file \in Nat
  BY OpenFacts, DbFields
<1>2. db.merge.inputs \subseteq db.version /\ (db.merge.output = 0 => db.merge.inputs = {})
  BY <1>1 DEF JobsOK
<1>3. ASSUME db.merge.output # 0
      PROVE  /\ db.merge.output \in DOMAIN tables' /\ db.merge.output < db'.next_file
             /\ tables'[db.merge.output].data = Data(tables', db.merge.inputs)
  <2>1. /\ db.merge.output < db.next_file /\ tables[db.merge.output].data = Data(tables, db.merge.inputs)
    BY <1>1, <1>3 DEF JobsOK
  <2>2. KeptTables(tables, tables', db.merge.inputs)
    BY <1>2, KeptSubset
  <2>3. Data(tables', db.merge.inputs) = Data(tables, db.merge.inputs)
    BY <2>2, KeptFacts
  <2>4. db.merge.output \in DOMAIN tables' /\ tables'[db.merge.output].data = tables[db.merge.output].data
    BY <1>3 DEF KeptTables
  <2> QED BY <1>1, <2>1, <2>3, <2>4
<1> QED BY <1>2, <1>3

LEMMA HeldStays ==
    ASSUME FilesInv, db.phase = "open", db' \in DbType, Held' \subseteq Held \cup db.version,
           db.next_file <= db'.next_file, KeptTables(tables, tables', db.version), KeptTables(tables, tables', Held)
    PROVE  TablesOK(tables', Held') /\ Below(Held', db'.next_file)
<1>1. JobsOK /\ NumbersOK /\ db.next_file \in Nat /\ DOMAIN tables \subseteq Nat /\ db'.next_file \in Nat
  BY OpenFacts, DbFields
<1>2. TablesOK(tables, Held) /\ Below(Held, db.next_file)
  BY <1>1 DEF JobsOK
<1>3. TablesOK(tables, db.version) /\ Below(db.version, db.next_file)
  BY <1>1 DEF NumbersOK, TablesOK, Below
<1>4. TablesOK(tables', Held) /\ TablesOK(tables', db.version)
  BY <1>2, <1>3, KeptFacts
<1>5. TablesOK(tables', Held')
  BY <1>4 DEF TablesOK
<1>6. \A n \in Held \cup db.version : n \in Nat /\ n < db.next_file
  BY <1>1, <1>2, <1>3 DEF TablesOK, Below
<1>7. Below(Held', db'.next_file)
  BY <1>1, <1>6 DEF Below
<1> QED BY <1>5, <1>7

\* The jobs stay as they are.
LEMMA JobsStay ==
    ASSUME FilesInv, db.phase = "open", Works, db' \in DbType, Records' = Records, Points' = Points,
           db'.job = db.job, db'.step = db.step, db'.edit = db.edit, db'.merge = db.merge,
           db'.pending = db.pending, db'.output = db.output, tables' = tables,
           db.next_file <= db'.next_file, Held' \subseteq Held \cup db.version,
           db.job = "flush" => db'.imm = db.imm /\ db'.has_imm = db.has_imm /\ db'.logfile = db.logfile
    PROVE  JobsOK'
<1>1. JobsOK /\ db.next_file \in Nat /\ db'.next_file \in Nat /\ db.output \in Nat
  BY OpenFacts, DbFields
<1>2. db'.version = db.version /\ db'.phase = "open" /\ db'.log_number = db.log_number
  BY DEF Works
<1>3. \A F : F \subseteq DOMAIN tables => KeptTables(tables, tables', F)
  BY DEF KeptTables
<1>4. db.version \subseteq DOMAIN tables /\ Held \subseteq DOMAIN tables
      /\ (db.merge.output # 0 => db.merge.output \in DOMAIN tables /\ db.merge.output \in db.pending)
  BY OpenFacts DEF NumbersOK, JobsOK, TablesOK
<1>5. TablesOK(tables', Held') /\ Below(Held', db'.next_file)
  BY <1>3, <1>4, HeldStays
<1>6. /\ db'.merge.inputs \subseteq db'.version
      /\ IF db'.merge.output = 0 THEN db'.merge.inputs = {}
         ELSE /\ db'.merge.output \in db'.pending /\ db'.merge.output \in DOMAIN tables'
              /\ db'.merge.output < db'.next_file
              /\ tables'[db'.merge.output].data = Data(tables', db'.merge.inputs)
  <2>1. db.merge.output # 0 => {db.merge.output} \subseteq DOMAIN tables
    BY <1>4
  <2> QED BY <1>2, <1>3, <1>4, <2>1, MergeStays
<1>7. ASSUME db.job = "flush"
      PROVE  /\ db'.has_imm /\ db'.step \in {"table", "append", "sync", "install"}
             /\ db'.imm # {} => db'.output \in DOMAIN tables' /\ tables'[db'.output].data = db'.imm
             /\ db'.output < db'.next_file
             /\ IF db'.step = "table"
                THEN /\ db'.edit.added = {} /\ db'.output \notin db'.version \cup Held'
                     /\ db'.output # db'.merge.output
                     /\ \A k \in Points' : db'.output \notin FilesAt(Records', k)
                ELSE /\ db'.edit.log_number = db'.logfile /\ db'.edit.deleted = {}
                     /\ db'.edit.added = IF db'.imm = {} THEN {} ELSE {db'.output}
  <2>1. /\ db.has_imm /\ db.step \in {"table", "append", "sync", "install"}
        /\ db.imm # {} => db.output \in DOMAIN tables /\ tables[db.output].data = db.imm
        /\ db.output < db.next_file
        /\ db.step = "table" => /\ db.edit.added = {} /\ db.output \notin db.version \cup Held
                                /\ db.output # db.merge.output
                                /\ \A k \in Points : db.output \notin FilesAt(Records, k)
        /\ db.step # "table" => /\ db.edit.log_number = db.logfile /\ db.edit.deleted = {}
                                /\ db.edit.added = IF db.imm = {} THEN {} ELSE {db.output}
    BY <1>1, <1>7 DEF JobsOK
  <2>2. db.output < db'.next_file
    BY <1>1, <2>1
  <2>3. db.step = "table" => db.output \notin db.version \cup Held'
    BY <2>1
  <2> QED BY <1>2, <1>7, <2>1, <2>2, <2>3
<1>8. /\ db'.job = "none" => db'.edit.added = {}
      /\ db'.job = "merge" => /\ db'.merge.output # 0 /\ db'.step \in {"append", "sync", "install"}
                              /\ db'.edit.log_number = db'.log_number
                              /\ db'.edit.added = {db'.merge.output} /\ db'.edit.deleted = db'.merge.inputs
  BY <1>1, <1>2 DEF JobsOK
<1> QED BY <1>5, <1>6, <1>7, <1>8 DEF JobsOK

\* Iterators.
LEMMA IteratorsKeep ==
    ASSUME FilesInv, db.phase = "open", NEW p \in Seq(SUBSET Nat), UNION ToSet(p) \subseteq Held \cup db.version,
           db' = [db EXCEPT !.pinned = p], UNCHANGED <<current, manifests, logs, tables>>,
           UNCHANGED <<written, acked, synced, relied, bounds>>
    PROVE  FilesInv'
<1>1. /\ Busy /\ NumbersOK /\ OpenOK /\ JobsOK /\ db \in DbType /\ IsDb(db) /\ current # 0 /\ written \in Nat
      /\ db.next_file \in Nat /\ db.last_sequence \in Nat /\ db.logfile \in Nat
      /\ db.logfile \in DOMAIN logs /\ db.logfile # 0 /\ \A n \in DOMAIN logs : n < db.next_file
  BY OpenFacts
<1>2. /\ IsDb(db') /\ db'.pinned = p /\ db'.phase = db.phase /\ db'.version = db.version
      /\ db'.log_number = db.log_number /\ db'.logfile = db.logfile
      /\ db'.next_file = db.next_file /\ db'.last_sequence = db.last_sequence
      /\ db'.manifest = db.manifest /\ db'.descriptor = db.descriptor /\ db'.mem = db.mem
      /\ db'.imm = db.imm /\ db'.has_imm = db.has_imm /\ db'.pending = db.pending
      /\ db'.bg_error = db.bg_error /\ db'.save_manifest = db.save_manifest /\ db'.edit = db.edit
      /\ db'.logs_left = db.logs_left /\ db'.job = db.job /\ db'.step = db.step
      /\ db'.output = db.output /\ db'.merge = db.merge
  BY <1>1 DEF IsDb, DbNames
<1>3. db' \in DbType
  BY <1>1, <1>2, DbFields, DbFromFields
<1>4. \A F : F \subseteq DOMAIN tables => KeptTables(tables, tables', F)
  BY DEF KeptTables
<1>5. DiskOK' /\ Records' = Records /\ End' = End /\ Points' = Points
  <2>1. current \in DOMAIN manifests' /\ manifests'[current] = manifests[current]
    BY <1>1, RecordsFacts
  <2>2. KeptTables(tables, tables', DOMAIN tables) /\ \A n \in DOMAIN logs : KeptLogs(logs, logs', {n})
    BY DEF KeptTables, KeptLogs
  <2>3. db'.phase # "new_db" /\ written' \in Nat /\ written <= written'
    BY <1>1, <1>2
  <2> QED BY <1>1, <2>1, <2>2, <2>3, QuietDisk
<1>6. Works
  BY <1>2 DEF Works
<1>7. Held' \subseteq Held \cup db.version
  BY <1>2 DEF Held
<1>8. JobsOK'
  BY <1>1, <1>2, <1>3, <1>5, <1>6, <1>7, JobsStay
<1>9. db.version \subseteq DOMAIN tables /\ db.edit.added \subseteq DOMAIN tables
  BY <1>1 DEF NumbersOK, TablesOK
<1>10. EditOK'
  BY <1>1, <1>2, <1>3, <1>4, <1>5, <1>6, <1>9, EditStays
<1>11. DiskTypeOK' /\ UpdatesOK'
  BY <1>2, InvParts DEF DiskTypeOK, UpdatesOK, Known
<1>12. \A k \in Points : KeptTables(tables, tables', FilesAt(Records, k))
  BY <1>1, <1>4, BusyFacts
<1>13. StepsOn
  BY <1>2 DEF StepsOn
<1>14. /\ TablesOK(tables', db'.edit.added) /\ Below(db'.edit.added, db'.next_file)
       /\ SeqsBelow(db'.mem \cup db'.imm \cup Data(tables', db'.edit.added), db'.last_sequence)
  <2>1. TablesOK(tables, db.edit.added) /\ Below(db.edit.added, db.next_file)
    BY <1>1 DEF NumbersOK, TablesOK, Below
  <2>2. Data(tables, db.edit.added) \subseteq Data(tables, db.version \cup db.edit.added)
    BY DataUnion
  <2>3. SeqsBelow(db.mem \cup db.imm \cup Data(tables, db.edit.added), db.last_sequence)
    BY <1>1, <2>2 DEF NumbersOK, SeqsBelow
  <2> QED BY <1>2, <2>1, <2>3
<1>15. /\ db.job = "none" => db.step = "none"
       /\ db.mem \subseteq AllOf(logs, db.logfile)
  BY <1>1 DEF NumbersOK
<1>16. /\ acked \subseteq db.mem \cup db.imm \cup Data(tables, db.version)
       /\ synced \subseteq Data(tables, db.version) \cup db.imm \cup (db.mem \cap SyncedOf(logs, db.logfile))
       /\ ~db.has_imm => db.imm = {}
       /\ db.job \in {"none", "flush", "merge"}
  BY <1>1 DEF OpenOK, Contents, Data
<1> QED BY <1>1, <1>2, <1>3, <1>4, <1>5, <1>6, <1>8, <1>9, <1>10, <1>11, <1>12, <1>13, <1>14, <1>15, <1>16, OpenStep

LEMMA AppendSets ==
    ASSUME NEW s \in Seq(SUBSET Nat), NEW e \in SUBSET Nat
    PROVE  Append(s, e) \in Seq(SUBSET Nat) /\ UNION ToSet(Append(s, e)) \subseteq (UNION ToSet(s)) \cup e
<1> DEFINE t == Append(s, e)
           m == Len(s)
<1>1. /\ t \in Seq(SUBSET Nat) /\ Len(t) = m + 1 /\ m \in Nat /\ t[m + 1] = e
      /\ \A i \in 1 .. m : t[i] = s[i]
  BY AppendFacts
<1>2. \A i \in 1 .. m : s[i] \in ToSet(s)
  BY ToSetFacts
<1>3. DOMAIN t = 1 .. m + 1
  BY <1>1
<1> HIDE DEF t, m
<1>4. \A i \in 1 .. m + 1 : i = m + 1 \/ i \in 1 .. m
  BY <1>1
<1>5. \A x \in ToSet(t) : x = e \/ x \in ToSet(s)
  BY <1>1, <1>2, <1>3, <1>4 DEF ToSet
<1> QED BY <1>1, <1>5 DEF t

LEMMA Around ==
    ASSUME NEW m \in Nat, NEW i \in 1 .. m
    PROVE  /\ i - 1 \in Nat /\ m - i \in Nat /\ i + 1 \in Int /\ i - 1 \in Int /\ m \in Int
           /\ (\A k \in 1 .. i - 1 : k \in 1 .. m) /\ (\A k \in i + 1 .. m : k \in 1 .. m)
           /\ (\A k \in 1 .. m - i : i + 1 + k - 1 \in 1 .. m) /\ (i - 1) - 1 + 1 = i - 1 /\ m - (i + 1) + 1 = m - i
OBVIOUS

LEMMA RemoveSets ==
    ASSUME NEW s \in Seq(SUBSET Nat), NEW i \in DOMAIN s
    PROVE  RemoveAt(s, i) \in Seq(SUBSET Nat) /\ UNION ToSet(RemoveAt(s, i)) \subseteq UNION ToSet(s)
<1> DEFINE m == Len(s)
           l == i - 1
           r == m - i
           a == SubSeq(s, 1, i - 1)
           b == SubSeq(s, i + 1, m)
           t == RemoveAt(s, i)
<1>1. m \in Nat /\ i \in 1 .. m /\ \A k \in 1 .. m : s[k] \in SUBSET Nat
  OBVIOUS
<1>2. \A k \in 1 .. m : s[k] \in ToSet(s)
  BY ToSetFacts
<1>3. t = a \o b
  BY DEF RemoveAt
<1> HIDE DEF m
<1>4. l \in Nat /\ r \in Nat /\ i + 1 \in Int /\ i - 1 \in Int /\ m \in Int
      /\ (\A k \in 1 .. i - 1 : k \in 1 .. m) /\ (\A k \in i + 1 .. m : k \in 1 .. m)
      /\ (\A k \in 1 .. r : i + 1 + k - 1 \in 1 .. m) /\ (i - 1) - 1 + 1 = l /\ m - (i + 1) + 1 = r
  BY <1>1, Around
<1>5. a \in Seq(SUBSET Nat) /\ Len(a) = l /\ \A k \in 1 .. l : a[k] \in ToSet(s)
  <2>1. \A k \in 1 .. i - 1 : s[k] \in SUBSET Nat
    BY <1>1, <1>4
  <2>2. /\ a \in Seq(SUBSET Nat) /\ Len(a) = IF 1 <= i - 1 THEN (i - 1) - 1 + 1 ELSE 0
        /\ \A k \in 1 .. (i - 1) - 1 + 1 : a[k] = s[1 + k - 1]
    BY SMTT(30), <1>4, <2>1, SubSeqProperties
  <2> HIDE DEF a
  <2>3. Len(a) = l /\ \A k \in 1 .. l : a[k] = s[k]
    BY <1>1, <2>2
  <2> QED BY <1>2, <1>4, <2>2, <2>3
<1>6. b \in Seq(SUBSET Nat) /\ Len(b) = r /\ \A k \in 1 .. r : b[k] \in ToSet(s)
  <2>1. \A k \in i + 1 .. m : s[k] \in SUBSET Nat
    BY <1>1, <1>4
  <2>2. /\ b \in Seq(SUBSET Nat) /\ Len(b) = IF i + 1 <= m THEN m - (i + 1) + 1 ELSE 0
        /\ \A k \in 1 .. m - (i + 1) + 1 : b[k] = s[i + 1 + k - 1]
    BY SMTT(30), <1>4, <2>1, SubSeqProperties
  <2> HIDE DEF b
  <2>3. Len(b) = r
    BY <1>1, <2>2
  <2> HIDE DEF r
  <2>4. \A k \in 1 .. r : b[k] = s[i + 1 + k - 1]
    BY <1>4, <2>2
  <2> QED BY <1>2, <1>4, <2>2, <2>3, <2>4
<1>7. /\ t \in Seq(SUBSET Nat) /\ Len(t) = Len(a) + Len(b)
      /\ \A j \in 1 .. Len(a) + Len(b) : t[j] = IF j <= Len(a) THEN a[j] ELSE b[j - Len(a)]
  <2>1. a \in Seq(SUBSET Nat) /\ b \in Seq(SUBSET Nat)
    BY <1>5, <1>6
  <2> HIDE DEF a, b, t
  <2> QED BY <1>3, <2>1, ConcatProperties
<1>8. DOMAIN t = 1 .. l + r
  <2> HIDE DEF a, b, t, l, r
  <2> QED BY <1>5, <1>6, <1>7
<1> HIDE DEF a, b, t, l, r
<1>9. ASSUME NEW j \in 1 .. l + r PROVE t[j] \in ToSet(s)
  <2>1. CASE j <= l
    <3>1. j \in 1 .. l
      BY <1>4, <2>1
    <3> QED BY <1>5, <1>6, <1>7, <2>1, <3>1
  <2>2. CASE ~(j <= l)
    <3>1. j - l \in 1 .. r
      BY <1>4, <2>2
    <3>2. t[j] = b[j - l]
      BY <1>5, <1>6, <1>7, <2>2
    <3> QED BY <1>6, <3>1, <3>2
  <2> QED BY <2>1, <2>2
<1>10. ToSet(t) \subseteq ToSet(s)
  BY <1>8, <1>9 DEF ToSet
<1> QED BY <1>7, <1>10 DEF t

LEMMA NewIteratorKeeps == FilesInv /\ NewIterator => FilesInv'
<1> SUFFICES ASSUME FilesInv, NewIterator PROVE FilesInv'
  OBVIOUS
<1>1. /\ db.phase = "open" /\ db' = [db EXCEPT !.pinned = Append(@, db.version)]
      /\ UNCHANGED <<current, manifests, logs, tables>> /\ UNCHANGED <<written, acked, synced, relied, bounds>>
  BY DEF NewIterator, diskVars, history, promised
<1>2. db.pinned \in Seq(SUBSET Nat) /\ db.version \in SUBSET Nat /\ IsDb(db)
  BY InvParts, DbFields, DbIsDb
<1> DEFINE p == Append(db.pinned, db.version)
<1>3. p \in Seq(SUBSET Nat) /\ UNION ToSet(p) \subseteq Held \cup db.version
  BY <1>2, AppendSets DEF Held
<1>4. db' = [db EXCEPT !.pinned = p]
  BY <1>1, <1>2 DEF IsDb, DbNames
<1> HIDE DEF p
<1> QED BY <1>1, <1>3, <1>4, IteratorsKeep

LEMMA DeleteIteratorKeeps == \A i \in DOMAIN db.pinned : FilesInv /\ DeleteIterator(i) => FilesInv'
<1> SUFFICES ASSUME NEW i \in DOMAIN db.pinned, FilesInv, DeleteIterator(i) PROVE FilesInv'
  OBVIOUS
<1>1. /\ db.phase = "open" /\ db' = [db EXCEPT !.pinned = RemoveAt(@, i)]
      /\ UNCHANGED <<current, manifests, logs, tables>> /\ UNCHANGED <<written, acked, synced, relied, bounds>>
  BY DEF DeleteIterator, diskVars, history, promised
<1>2. db.pinned \in Seq(SUBSET Nat) /\ IsDb(db)
  BY InvParts, DbFields, DbIsDb
<1> DEFINE p == RemoveAt(db.pinned, i)
<1>3. p \in Seq(SUBSET Nat) /\ UNION ToSet(p) \subseteq Held \cup db.version
  BY <1>2, RemoveSets DEF Held
<1>4. db' = [db EXCEPT !.pinned = p]
  BY <1>1, <1>2 DEF IsDb, DbNames
<1> HIDE DEF p
<1> QED BY <1>1, <1>3, <1>4, IteratorsKeep

\* A log with one update more; all of it is synced, or what was.
GrowsLog(G, H, n, u, full) ==
    /\ DOMAIN H = DOMAIN G /\ (\A m \in DOMAIN G : m # n => H[m] = G[m])
    /\ H[n] \in LogType /\ H[n].synced <= Len(H[n].records)
    /\ AllOf(H, n) \subseteq AllOf(G, n) \cup {u}
    /\ \A m \in DOMAIN G : KeptLogs(G, H, {m})
    /\ full => u \in SyncedOf(H, n)

LEMMA GrowLog ==
    ASSUME NEW G, NEW n \in DOMAIN G, G[n] \in LogType, G[n].synced <= Len(G[n].records), NEW u \in AnyUpdate,
           NEW full \in BOOLEAN, NEW H,
           H = [G EXCEPT ![n] = [records |-> Append(G[n].records, u),
                                 synced |-> IF full THEN Len(Append(G[n].records, u)) ELSE G[n].synced]]
    PROVE  GrowsLog(G, H, n, u, full) /\ u \in AllOf(H, n)
<1> DEFINE s == G[n].records
           t == Append(s, u)
           m == Len(s)
           k == IF full THEN Len(t) ELSE G[n].synced
<1>1. s \in Seq(AnyUpdate) /\ G[n].synced \in Nat /\ G[n].synced <= m
  BY DEF LogType
<1>2. m \in Nat /\ t \in Seq(AnyUpdate) /\ Len(t) = m + 1 /\ t[m + 1] = u /\ \A i \in 1 .. m : t[i] = s[i]
  BY <1>1, AppendFacts
<1>3. k \in Nat /\ k <= Len(t) /\ G[n].synced <= k
  BY <1>1, <1>2
<1>4. H = [G EXCEPT ![n] = [records |-> t, synced |-> k]]
  OBVIOUS
<1>5. DOMAIN s = 1 .. m /\ DOMAIN t = 1 .. m + 1
  BY <1>1, <1>2
<1>6. full => k = m + 1
  BY <1>2
<1> HIDE DEF s, t, m, k
<1>7. DOMAIN H = DOMAIN G /\ (\A j \in DOMAIN G : j # n => H[j] = G[j]) /\ H[n] = [records |-> t, synced |-> k]
  BY <1>4
<1>8. H[n] \in LogType /\ H[n].records = t /\ H[n].synced = k
  BY <1>2, <1>3, <1>7 DEF LogType
<1>9. ToSet(t) = ToSet(s) \cup {u}
  <2>1. 1 .. m + 1 = (1 .. m) \cup {m + 1}
    BY <1>2
  <2> QED BY <1>2, <1>5, <2>1 DEF ToSet
<1>10. AllOf(H, n) = AllOf(G, n) \cup {u}
  BY <1>8, <1>9 DEF AllOf, s
<1>11. SyncedOf(G, n) \subseteq SyncedOf(H, n)
  <2>1. \A i \in 1 .. G[n].synced : i \in 1 .. k /\ i \in 1 .. m
    BY <1>1, <1>2, <1>3
  <2>2. \A i \in 1 .. G[n].synced : s[i] = t[i] /\ i \in 1 .. k
    BY <1>2, <2>1
  <2> QED BY <1>8, <2>2 DEF SyncedOf, s
<1>12. full => u \in SyncedOf(H, n)
  <2>1. full => m + 1 \in 1 .. k
    BY <1>2, <1>6
  <2> QED BY <1>2, <1>8, <2>1 DEF SyncedOf
<1>13. \A j \in DOMAIN G : KeptLogs(G, H, {j})
  <2>1. \A j \in DOMAIN G : j # n => AllOf(H, j) = AllOf(G, j) /\ SyncedOf(H, j) = SyncedOf(G, j)
    BY <1>7 DEF AllOf, SyncedOf
  <2>2. \A j \in DOMAIN G : j \in DOMAIN H /\ AllOf(G, j) \subseteq AllOf(H, j) /\ SyncedOf(G, j) \subseteq SyncedOf(H, j)
    BY <1>7, <1>10, <1>11, <2>1
  <2> QED BY <2>2 DEF KeptLogs
<1>14. H[n].synced <= Len(H[n].records)
  BY <1>3, <1>8
<1> QED BY <1>7, <1>8, <1>10, <1>12, <1>13, <1>14 DEF GrowsLog

LEMMA SameLog ==
    ASSUME NEW G, NEW n \in DOMAIN G, G[n] \in LogType, G[n].synced <= Len(G[n].records), NEW u
    PROVE  GrowsLog(G, G, n, u, FALSE)
BY DEF GrowsLog, KeptLogs

\* A step that adds an update to the log in use, and perhaps to the memtable, or only counts it.
LEMMA GrowKeeps ==
    ASSUME FilesInv, db.phase = "open", written < bounds.updates, NEW full \in BOOLEAN,
           NEW u, u = [id |-> written + 1, seq |-> db.last_sequence + 1],
           GrowsLog(logs, logs', db.logfile, u, full),
           NEW mem, mem = db.mem \/ mem = db.mem \cup {u},
           u \in AllOf(logs', db.logfile) \/ (mem = db.mem /\ acked' = acked), NEW error \in BOOLEAN, db.bg_error => error,
           /\ IsDb(db') /\ db'.mem = mem /\ db'.last_sequence = db.last_sequence + 1
           /\ db'.bg_error = error /\ db'.phase = db.phase /\ db'.version = db.version
           /\ db'.pinned = db.pinned /\ db'.log_number = db.log_number /\ db'.logfile = db.logfile
           /\ db'.next_file = db.next_file /\ db'.manifest = db.manifest
           /\ db'.descriptor = db.descriptor /\ db'.imm = db.imm /\ db'.has_imm = db.has_imm
           /\ db'.pending = db.pending /\ db'.save_manifest = db.save_manifest /\ db'.edit = db.edit
           /\ db'.logs_left = db.logs_left /\ db'.job = db.job /\ db'.step = db.step
           /\ db'.output = db.output /\ db'.merge = db.merge,
           written' = written + 1, UNCHANGED <<current, manifests, tables, relied, bounds>>,
           acked' = acked \/ (acked' = acked \cup {u} /\ u \in mem),
           synced' = synced \/ (synced' = synced \cup {u} /\ u \in mem /\ acked' = acked \cup {u} /\ full)
    PROVE  FilesInv'
<1> DEFINE n == db.logfile
<1>1. /\ Busy /\ NumbersOK /\ OpenOK /\ JobsOK /\ db \in DbType /\ IsDb(db) /\ current # 0 /\ written \in Nat
      /\ db.next_file \in Nat /\ db.last_sequence \in Nat /\ n \in Nat
      /\ n \in DOMAIN logs /\ n # 0 /\ \A j \in DOMAIN logs : j < db.next_file
  BY OpenFacts
<1>2. /\ IsDb(db') /\ db'.mem = mem /\ db'.last_sequence = db.last_sequence + 1
      /\ db'.bg_error = error /\ db'.phase = db.phase /\ db'.version = db.version
      /\ db'.pinned = db.pinned /\ db'.log_number = db.log_number /\ db'.logfile = db.logfile
      /\ db'.next_file = db.next_file /\ db'.manifest = db.manifest
      /\ db'.descriptor = db.descriptor /\ db'.imm = db.imm /\ db'.has_imm = db.has_imm
      /\ db'.pending = db.pending /\ db'.save_manifest = db.save_manifest /\ db'.edit = db.edit
      /\ db'.logs_left = db.logs_left /\ db'.job = db.job /\ db'.step = db.step
      /\ db'.output = db.output /\ db'.merge = db.merge
  OBVIOUS
<1>3. u \in AnyUpdate /\ u.id = written + 1 /\ u.seq = db.last_sequence + 1
  BY <1>1 DEF AnyUpdate
<1>4. /\ DOMAIN logs' = DOMAIN logs /\ (\A m \in DOMAIN logs : m # n => logs'[m] = logs[m])
      /\ logs'[n] \in LogType /\ logs'[n].synced <= Len(logs'[n].records)
      /\ AllOf(logs', n) \subseteq AllOf(logs, n) \cup {u} /\ (\A m \in DOMAIN logs : KeptLogs(logs, logs', {m}))
      /\ full => u \in SyncedOf(logs', n)
  BY DEF GrowsLog
<1>5. db' \in DbType
  <2>1. mem \subseteq AnyUpdate /\ db.last_sequence + 1 \in Nat
    BY SMTT(30), <1>1, <1>3, DbFields
  <2> QED BY <1>1, <1>2, <2>1, DbFields, DbFromFields
<1>6. DiskTypeOK'
  <2>1. acked' \subseteq AnyUpdate /\ synced' \subseteq acked'
    BY <1>3, InvParts DEF DiskTypeOK
  <2>2. \A m \in DOMAIN logs' : logs'[m] \in LogType /\ logs'[m].synced <= Len(logs'[m].records)
    BY <1>4, InvParts DEF DiskTypeOK
  <2>3. written' \in Nat
    BY <1>1
  <2> QED BY <1>4, <2>1, <2>2, <2>3, InvParts DEF DiskTypeOK
<1>7. UpdatesOK'
  <2>1. \A x \in 1 .. written : x \in 1 .. written'
    BY <1>1
  <2>2. \A U : Known(U) => (\A x \in U : x.id \in 1 .. written' /\ x.seq \in 1 .. written')
    BY <2>1 DEF Known
  <2>3. u.id \in 1 .. written' /\ u.seq \in 1 .. written' /\ db.last_sequence + 1 <= written'
    BY <1>1, <1>3, InvParts DEF UpdatesOK
  <2>4. ASSUME NEW m \in DOMAIN logs' PROVE \A x \in ToSet(logs'[m].records) : x.id \in 1 .. written' /\ x.seq \in 1 .. written'
    <3>1. Known(ToSet(logs[m].records))
      BY <1>4, InvParts DEF UpdatesOK
    <3>2. ToSet(logs'[m].records) \subseteq ToSet(logs[m].records) \cup {u}
      BY <1>4 DEF AllOf
    <3> QED BY <2>2, <2>3, <3>1, <3>2
  <2>5. \A x \in db'.mem \cup db'.imm : x.id \in 1 .. written' /\ x.seq \in 1 .. written'
    <3>1. Known(db.mem) /\ Known(db.imm)
      BY InvParts DEF UpdatesOK
    <3> QED BY <1>2, <2>2, <2>3, <3>1
  <2>6. \A m \in DOMAIN tables : \A x \in tables[m].data : x.id \in 1 .. written' /\ x.seq \in 1 .. written'
    <3>1. \A m \in DOMAIN tables : Known(tables[m].data)
      BY InvParts DEF UpdatesOK
    <3> QED BY <2>2, <3>1
  <2>7. written' <= bounds.updates /\ bounds \in Scenario
    <3>1. bounds \in Scenario /\ bounds.updates \in Int
      BY InvParts, FilesAssumption DEF UpdatesOK, Scenario
    <3> QED BY <1>1, <3>1
  <2> QED BY <1>2, <2>3, <2>4, <2>5, <2>6, <2>7 DEF UpdatesOK, Known
<1>8. Records' = Records /\ manifests'[current'].synced = manifests[current].synced
  BY DEF Records
<1>9. End' = End
  BY <1>8 DEF End
<1>10. Points' = Points
  BY <1>8, <1>9 DEF Points
<1>11. \A F : F \subseteq DOMAIN tables => KeptTables(tables, tables', F)
  BY DEF KeptTables
<1>12. ASSUME NEW k \in Points PROVE GoodAt(k)'
  <2> DEFINE e == Records[k]
             F == FilesAt(Records, k)
  <2>1. GoodAt(k) /\ e.log_number <= n
    BY <1>1, InvParts DEF DiskOK, OpenOK
  <2>2. KeptLogs(logs, logs', From(logs, e.log_number))
    BY <1>4 DEF KeptLogs, From
  <2>3. GoodEdit(tables, logs, acked, synced, current, written, e, F) /\ e.last_sequence \in Nat /\ e.log_number \in Nat
    BY <2>1 DEF GoodAt, GoodEdit
  <2>4. KeptTables(tables, tables', F)
    BY <1>1, <1>11, BusyFacts
  <2>5. written <= written' /\ written' \in Nat
    BY <1>1
  <2>6. n \in From(logs', e.log_number)
    BY <1>1, <1>4, <2>1, <2>3 DEF From
  <2>7. (acked' = acked \/ u \in LogData(logs', From(logs', e.log_number))) /\ (full => u \in SyncedData(logs', From(logs', e.log_number)))
    BY <1>4, <2>6 DEF LogData, SyncedData
  <2> HIDE DEF e, F
  <2>8. GoodEdit(tables', logs', acked, synced, current, written', e, F)
    BY <1>1, <2>2, <2>3, <2>4, <2>5, GoodStays
  <2>9. GoodEdit(tables', logs', acked', synced', current', written', e, F)
    BY <2>7, <2>8 DEF GoodEdit
  <2> QED BY <1>8, <1>9, <2>1, <2>9 DEF GoodAt, e, F
<1>13. DiskOK'
  <2>1. db'.phase # "new_db"
    BY <1>2
  <2> QED BY <1>1, <1>8, <1>9, <1>10, <1>12, <2>1, InvParts DEF DiskOK
<1>14. Works /\ StepsOn
  BY <1>2 DEF Works, StepsOn
<1>15. Held' = Held
  BY <1>2 DEF Held
<1>16. JobsOK'
  BY <1>1, <1>2, <1>5, <1>8, <1>10, <1>14, <1>15, JobsStay
<1>17. db.version \subseteq DOMAIN tables /\ db.edit.added \subseteq DOMAIN tables
  BY <1>1 DEF NumbersOK, TablesOK
<1>18. db.last_sequence <= db'.last_sequence
  BY <1>1, <1>2
<1>19. EditOK'
  BY <1>1, <1>2, <1>5, <1>8, <1>10, <1>11, <1>14, <1>17, <1>18, EditStays
<1>20. \A k \in Points : KeptTables(tables, tables', FilesAt(Records, k))
  BY <1>1, <1>11, BusyFacts
<1>21. TablesOK(tables', db'.edit.added) /\ Below(db'.edit.added, db'.next_file)
  BY <1>1, <1>2 DEF NumbersOK, TablesOK, Below
<1>22. SeqsBelow(db'.mem \cup db'.imm \cup Data(tables', db'.edit.added), db'.last_sequence)
  <2> DEFINE D == Data(tables, db.edit.added)
  <2>1. D \subseteq Data(tables, db.version \cup db.edit.added) /\ D \subseteq AnyUpdate
    <3>1. TablesOK(tables, db.edit.added)
      BY <1>1 DEF NumbersOK, TablesOK
    <3> QED BY <3>1, DataUnion, DataTyped, InvParts
  <2>2. db.mem \subseteq AnyUpdate /\ db.imm \subseteq AnyUpdate
    BY <1>1, DbFields
  <2> HIDE DEF D
  <2>3. SeqsBelow(db.mem \cup db.imm \cup D, db.last_sequence)
    BY <1>1, <2>1 DEF NumbersOK, SeqsBelow
  <2>4. SeqsBelow(db.mem \cup db.imm \cup D, db.last_sequence + 1)
    BY <1>1, <2>1, <2>2, <2>3, SeqsUp
  <2>5. u.seq <= db.last_sequence + 1
    BY <1>1, <1>3
  <2>6. SeqsBelow(mem \cup db.imm \cup D, db.last_sequence + 1)
    BY <2>4, <2>5 DEF SeqsBelow
  <2> QED BY <1>2, <2>6 DEF D
<1>23. /\ db.job = "none" => db.step = "none"
       /\ mem \subseteq AllOf(logs', n)
  <2>1. db.mem \subseteq AllOf(logs, n) /\ AllOf(logs, n) \subseteq AllOf(logs', n)
    BY <1>1, <1>4 DEF NumbersOK, KeptLogs
  <2>2. mem = db.mem \/ u \in AllOf(logs', n)
    OBVIOUS
  <2> HIDE DEF n
  <2> QED BY <1>1, <2>1, <2>2 DEF NumbersOK
<1>24. /\ acked \subseteq db.mem \cup db.imm \cup Data(tables, db.version)
       /\ synced \subseteq Data(tables, db.version) \cup db.imm \cup (db.mem \cap SyncedOf(logs, n))
       /\ ~db.has_imm => db.imm = {}
       /\ db.job \in {"none", "flush", "merge"}
  BY <1>1 DEF OpenOK, Contents, Data
<1>25. acked' \subseteq mem \cup db.imm \cup Data(tables, db.version)
  BY <1>24
<1>26. synced' \subseteq Data(tables, db.version) \cup db.imm \cup (mem \cap SyncedOf(logs', n))
  <2>1. SyncedOf(logs, n) \subseteq SyncedOf(logs', n)
    BY <1>1, <1>4 DEF KeptLogs
  <2> HIDE DEF n
  <2> QED BY <1>4, <1>24, <2>1
<1>27. \A j \in DOMAIN logs' : j < db'.next_file
  BY <1>1, <1>2, <1>4
<1> QED BY <1>1, <1>2, <1>4, <1>5, <1>6, <1>7, <1>8, <1>9, <1>10, <1>11, <1>13, <1>14, <1>16, <1>17, <1>18, <1>19,
           <1>20, <1>21, <1>22, <1>23, <1>24, <1>25, <1>26, <1>27, OpenStep

LEMMA WriteKeeps == \A sync \in BOOLEAN : FilesInv /\ Write(sync) => FilesInv'
<1> SUFFICES ASSUME NEW sync \in BOOLEAN, FilesInv, Write(sync) PROVE FilesInv'
  OBVIOUS
<1> DEFINE n == db.logfile
           u == [id |-> written + 1, seq |-> db.last_sequence + 1]
           t == Append(logs[n].records, u)
<1>1. /\ db.phase = "open" /\ ~db.bg_error /\ written < bounds.updates
      /\ logs' = [logs EXCEPT ![n] = [records |-> t, synced |-> IF sync THEN Len(t) ELSE @.synced]]
      /\ db' = [db EXCEPT !.mem = @ \cup {u}, !.last_sequence = @ + 1]
      /\ written' = written + 1 /\ acked' = acked \cup {u} /\ synced' = IF sync THEN synced \cup {u} ELSE synced
      /\ UNCHANGED <<current, manifests, tables, relied, bounds>>
  BY DEF Write, WriteStarts
<1>2. n \in DOMAIN logs /\ IsDb(db) /\ written \in Nat /\ db.last_sequence \in Nat /\ db.bg_error \in BOOLEAN
  BY <1>1, OpenFacts, DbFields
<1>3. u \in AnyUpdate
  BY <1>2 DEF AnyUpdate
<1>4. logs[n] \in LogType /\ logs[n].synced <= Len(logs[n].records)
  BY <1>2, InvParts DEF DiskTypeOK
<1> HIDE DEF u
<1>5. logs' = [logs EXCEPT ![n] = [records |-> t, synced |-> IF sync THEN Len(t) ELSE logs[n].synced]]
  <2> HIDE DEF t
  <2> QED BY <1>1, <1>2
<1>6. GrowsLog(logs, logs', n, u, sync) /\ u \in AllOf(logs', n)
  BY <1>2, <1>3, <1>4, <1>5, GrowLog
<1> DEFINE mem == db.mem \cup {u}
<1>7. /\ IsDb(db') /\ db'.mem = mem /\ db'.last_sequence = db.last_sequence + 1
      /\ db'.phase = db.phase /\ db'.version = db.version /\ db'.pinned = db.pinned
      /\ db'.log_number = db.log_number /\ db'.logfile = db.logfile
      /\ db'.next_file = db.next_file /\ db'.manifest = db.manifest
      /\ db'.descriptor = db.descriptor /\ db'.imm = db.imm /\ db'.has_imm = db.has_imm
      /\ db'.pending = db.pending /\ db'.bg_error = db.bg_error
      /\ db'.save_manifest = db.save_manifest /\ db'.edit = db.edit
      /\ db'.logs_left = db.logs_left /\ db'.job = db.job /\ db'.step = db.step
      /\ db'.output = db.output /\ db'.merge = db.merge
  BY ZenonT(60), <1>1, <1>2 DEF IsDb, DbNames
<1>8. u \in mem /\ mem = db.mem \cup {u}
  OBVIOUS
<1>9. synced' = synced \/ (synced' = synced \cup {u} /\ sync)
  BY <1>1
<1> HIDE DEF mem, n, t
<1>10. u = [id |-> written + 1, seq |-> db.last_sequence + 1]
  BY DEF u
<1> QED BY ZenonT(60), <1>1, <1>2, <1>6, <1>7, <1>8, <1>9, <1>10, GrowKeeps DEF n

LEMMA SyncFailsKeeps == FilesInv /\ SyncFails => FilesInv'
<1> SUFFICES ASSUME FilesInv, SyncFails PROVE FilesInv'
  OBVIOUS
<1> DEFINE n == db.logfile
           u == [id |-> written + 1, seq |-> db.last_sequence + 1]
           t == Append(logs[n].records, u)
<1>1. /\ db.phase = "open" /\ ~db.bg_error /\ written < bounds.updates
      /\ logs' = [logs EXCEPT ![n].records = Append(@, u)]
      /\ db' = [db EXCEPT !.last_sequence = @ + 1, !.bg_error = TRUE]
      /\ written' = written + 1 /\ UNCHANGED <<current, manifests, tables, relied, bounds, acked, synced>>
  BY DEF SyncFails, WriteStarts
<1>2. n \in DOMAIN logs /\ IsDb(db) /\ written \in Nat /\ db.last_sequence \in Nat
  BY <1>1, OpenFacts
<1>3. u \in AnyUpdate
  BY <1>2 DEF AnyUpdate
<1>4. logs[n] \in LogType /\ logs[n].synced <= Len(logs[n].records)
  BY <1>2, InvParts DEF DiskTypeOK
<1> HIDE DEF u
<1>5. logs' = [logs EXCEPT ![n] = [records |-> t, synced |-> IF FALSE THEN Len(t) ELSE logs[n].synced]]
  <2>1. [logs[n] EXCEPT !.records = t] = [records |-> t, synced |-> logs[n].synced]
    <3> HIDE DEF t
    <3> QED BY <1>4 DEF LogType
  <2>2. logs' = [logs EXCEPT ![n] = [logs[n] EXCEPT !.records = t]]
    BY <1>1, <1>2
  <2> HIDE DEF t
  <2> QED BY <2>1, <2>2
<1>6. GrowsLog(logs, logs', n, u, FALSE)
  BY <1>2, <1>3, <1>4, <1>5, GrowLog
<1>7. /\ IsDb(db') /\ db'.last_sequence = db.last_sequence + 1 /\ db'.bg_error = TRUE
      /\ db'.phase = db.phase /\ db'.version = db.version /\ db'.pinned = db.pinned
      /\ db'.log_number = db.log_number /\ db'.logfile = db.logfile
      /\ db'.next_file = db.next_file /\ db'.manifest = db.manifest
      /\ db'.descriptor = db.descriptor /\ db'.mem = db.mem /\ db'.imm = db.imm
      /\ db'.has_imm = db.has_imm /\ db'.pending = db.pending
      /\ db'.save_manifest = db.save_manifest /\ db'.edit = db.edit
      /\ db'.logs_left = db.logs_left /\ db'.job = db.job /\ db'.step = db.step
      /\ db'.output = db.output /\ db'.merge = db.merge
  BY ZenonT(60), <1>1, <1>2 DEF IsDb, DbNames
<1> HIDE DEF n, t
<1>8. u = [id |-> written + 1, seq |-> db.last_sequence + 1]
  BY DEF u
<1> DEFINE error == TRUE
<1>9. error \in BOOLEAN /\ db'.bg_error = error
  BY <1>7
<1> HIDE DEF error
<1> QED BY <1>1, <1>2, <1>6, <1>7, <1>8, <1>9, GrowKeeps DEF n, error

LEMMA WriteFailsKeeps == FilesInv /\ WriteFails => FilesInv'
<1> SUFFICES ASSUME FilesInv, WriteFails PROVE FilesInv'
  OBVIOUS
<1> DEFINE n == db.logfile
           u == [id |-> written + 1, seq |-> db.last_sequence + 1]
           error == db.bg_error
<1>1. /\ db.phase = "open" /\ ~db.bg_error /\ written < bounds.updates /\ logs' = logs
      /\ db' = [db EXCEPT !.last_sequence = @ + 1]
      /\ written' = written + 1 /\ UNCHANGED <<current, manifests, tables, relied, bounds, acked, synced>>
  BY DEF WriteFails, WriteStarts
<1>2. n \in DOMAIN logs /\ IsDb(db) /\ error \in BOOLEAN
  BY <1>1, OpenFacts, DbFields
<1>3. logs[n] \in LogType /\ logs[n].synced <= Len(logs[n].records)
  BY <1>2, InvParts DEF DiskTypeOK
<1>4. GrowsLog(logs, logs', n, u, FALSE)
  <2> HIDE DEF u, n
  <2> QED BY <1>1, <1>2, <1>3, SameLog
<1>5. /\ IsDb(db') /\ db'.last_sequence = db.last_sequence + 1 /\ db'.bg_error = error
      /\ db'.phase = db.phase /\ db'.version = db.version /\ db'.pinned = db.pinned
      /\ db'.log_number = db.log_number /\ db'.logfile = db.logfile
      /\ db'.next_file = db.next_file /\ db'.manifest = db.manifest
      /\ db'.descriptor = db.descriptor /\ db'.mem = db.mem /\ db'.imm = db.imm
      /\ db'.has_imm = db.has_imm /\ db'.pending = db.pending
      /\ db'.save_manifest = db.save_manifest /\ db'.edit = db.edit
      /\ db'.logs_left = db.logs_left /\ db'.job = db.job /\ db'.step = db.step
      /\ db'.output = db.output /\ db'.merge = db.merge
  BY ZenonT(60), <1>1, <1>2 DEF IsDb, DbNames
<1>6. u = [id |-> written + 1, seq |-> db.last_sequence + 1] /\ (db.bg_error => error)
  OBVIOUS
<1> HIDE DEF n, u, error
<1> QED BY <1>1, <1>2, <1>4, <1>5, <1>6, GrowKeeps DEF n

LEMMA SwitchMemTableKeeps == FilesInv /\ SwitchMemTable => FilesInv'
<1> SUFFICES ASSUME FilesInv, SwitchMemTable PROVE FilesInv'
  OBVIOUS
<1> DEFINE n == db.next_file
<1>1. /\ db.phase = "open" /\ ~db.has_imm /\ logs' = Make(logs, n, File(<<>>))
      /\ db' = [db EXCEPT !.logfile = n, !.next_file = @ + 1, !.imm = db.mem, !.has_imm = TRUE, !.mem = {}]
      /\ UNCHANGED <<current, manifests, tables, written, acked, synced, relied, bounds>>
  BY DEF SwitchMemTable, history, promised
<1>2. /\ Busy /\ NumbersOK /\ OpenOK /\ JobsOK /\ db \in DbType /\ IsDb(db) /\ current # 0 /\ written \in Nat
      /\ n \in Nat /\ db.last_sequence \in Nat /\ db.logfile \in Nat
      /\ db.logfile \in DOMAIN logs /\ db.logfile # 0 /\ \A j \in DOMAIN logs : j < n
      /\ DOMAIN logs \subseteq Nat
  BY <1>1, OpenFacts
<1>3. /\ IsDb(db') /\ db'.logfile = n /\ db'.next_file = n + 1 /\ db'.imm = db.mem
      /\ db'.has_imm = TRUE /\ db'.mem = {} /\ db'.phase = db.phase /\ db'.version = db.version
      /\ db'.pinned = db.pinned /\ db'.log_number = db.log_number
      /\ db'.last_sequence = db.last_sequence /\ db'.manifest = db.manifest
      /\ db'.descriptor = db.descriptor /\ db'.pending = db.pending /\ db'.bg_error = db.bg_error
      /\ db'.save_manifest = db.save_manifest /\ db'.edit = db.edit
      /\ db'.logs_left = db.logs_left /\ db'.job = db.job /\ db'.step = db.step
      /\ db'.output = db.output /\ db'.merge = db.merge
  BY ZenonT(60), <1>1, <1>2 DEF IsDb, DbNames
<1>4. n \notin DOMAIN logs /\ db.logfile < n
  <2>1. ~(n < n)
    BY <1>2
  <2> QED BY <1>2, <2>1
<1>5. HasFresh(logs, logs', n)
  BY <1>1, <1>4, FreshLog
<1>6. /\ DOMAIN logs' = DOMAIN logs \cup {n} /\ (\A m \in DOMAIN logs : logs'[m] = logs[m] /\ KeptLogs(logs, logs', {m}))
      /\ logs'[n] \in LogType /\ logs'[n].synced <= Len(logs'[n].records) /\ ToSet(logs'[n].records) = {}
  BY <1>5 DEF HasFresh
<1>7. db' \in DbType
  <2>1. n + 1 \in Nat /\ TRUE \in BOOLEAN
    BY <1>2
  <2> QED BY <1>2, <1>3, <2>1, DbFields, DbFromFields
<1>8. \A F : F \subseteq DOMAIN tables => KeptTables(tables, tables', F)
  BY <1>1 DEF KeptTables
<1>9. DiskOK' /\ Records' = Records /\ End' = End /\ Points' = Points
  <2>1. current \in DOMAIN manifests' /\ manifests'[current] = manifests[current]
    BY <1>1, <1>2, RecordsFacts
  <2>2. KeptTables(tables, tables', DOMAIN tables) /\ \A m \in DOMAIN logs : KeptLogs(logs, logs', {m})
    BY <1>6, <1>8
  <2>3. db'.phase # "new_db" /\ written' \in Nat /\ written <= written'
    BY <1>1, <1>2, <1>3
  <2> QED BY <1>1, <1>2, <2>1, <2>2, <2>3, QuietDisk
<1>10. Works /\ StepsOn
  BY <1>1, <1>3 DEF Works, StepsOn
<1>11. db.job # "flush"
  BY <1>1, <1>2 DEF JobsOK
<1>12. db.next_file <= db'.next_file /\ db.logfile <= db'.logfile /\ db'.logfile < db'.next_file
  BY <1>2, <1>3, <1>4
<1>13. JobsOK'
  <2>1. Held' = Held
    BY <1>3 DEF Held
  <2> QED BY <1>1, <1>3, <1>7, <1>9, <1>10, <1>11, <1>12, <2>1, JobsStay
<1>14. db.version \subseteq DOMAIN tables /\ db.edit.added \subseteq DOMAIN tables
  BY <1>2 DEF NumbersOK, TablesOK
<1>15. EditOK'
  BY <1>1, <1>2, <1>3, <1>7, <1>8, <1>9, <1>10, <1>12, <1>14, EditStays
<1>16. DiskTypeOK'
  <2>1. DOMAIN logs' \subseteq Nat \ {0}
    <3>1. n # 0
      BY <1>2, <1>4
    <3> QED BY <1>2, <1>6, <3>1, InvParts DEF DiskTypeOK
  <2>2. \A m \in DOMAIN logs' : logs'[m] \in LogType /\ logs'[m].synced <= Len(logs'[m].records)
    BY <1>6, InvParts DEF DiskTypeOK
  <2> QED BY <1>1, <2>1, <2>2, InvParts DEF DiskTypeOK
<1>17. UpdatesOK'
  <2>1. \A m \in DOMAIN logs' : Known(ToSet(logs'[m].records))
    BY <1>6, InvParts DEF UpdatesOK, Known
  <2> QED BY <1>1, <1>3, <2>1, InvParts DEF UpdatesOK, Known
<1>18. \A k \in Points : KeptTables(tables, tables', FilesAt(Records, k))
  BY <1>2, <1>8, BusyFacts
<1>19. /\ acked \subseteq db.mem \cup db.imm \cup Data(tables, db.version)
       /\ synced \subseteq Data(tables, db.version) \cup db.imm \cup (db.mem \cap SyncedOf(logs, db.logfile))
       /\ db.imm = {} /\ db.job \in {"none", "flush", "merge"}
  BY <1>1, <1>2 DEF OpenOK, Contents, Data
<1>20. acked' \subseteq db'.mem \cup db'.imm \cup Data(tables, db.version)
       /\ synced' \subseteq Data(tables, db.version) \cup db'.imm \cup (db'.mem \cap SyncedOf(logs', db'.logfile))
  <2> HIDE DEF n
  <2> QED BY <1>1, <1>3, <1>19
<1>21. TablesOK(tables', db'.edit.added) /\ Below(db'.edit.added, db'.next_file)
  <2>1. TablesOK(tables, db.edit.added) /\ Below(db.edit.added, n) /\ db.edit.added \subseteq Nat
    BY <1>2, DbFields, EditFields DEF NumbersOK, TablesOK, Below
  <2> QED BY <1>1, <1>2, <1>3, <2>1 DEF Below
<1>22. SeqsBelow(db'.mem \cup db'.imm \cup Data(tables', db'.edit.added), db'.last_sequence)
  <2>1. Data(tables, db.edit.added) \subseteq Data(tables, db.version \cup db.edit.added)
    BY DataUnion
  <2>2. SeqsBelow(db.mem \cup Data(tables, db.edit.added), db.last_sequence)
    BY <1>2, <2>1 DEF NumbersOK, SeqsBelow
  <2> QED BY <1>1, <1>3, <2>2
<1>23. \A j \in DOMAIN logs' : j < db'.next_file
  BY <1>2, <1>3, <1>6
<1>24. db'.logfile \in DOMAIN logs' /\ db'.mem \subseteq AllOf(logs', db'.logfile) /\ (~db'.has_imm => db'.imm = {})
  BY <1>3, <1>6
<1>25. (db'.job = "none" => db'.step = "none") /\ db'.job \in {"none", "flush", "merge"} /\ db.last_sequence <= db'.last_sequence
  BY <1>2, <1>3, <1>19 DEF NumbersOK
<1> HIDE DEF n
<1> QED BY <1>1, <1>7, <1>8, <1>9, <1>10, <1>12, <1>13, <1>14, <1>15, <1>16, <1>17, <1>18, <1>20, <1>21, <1>22, <1>23,
           <1>24, <1>25, OpenStep

\* Steps on tables: logs and memtables stay as they are, and so do the tables in use.
TableSteps ==
    /\ Works /\ db'.mem = db.mem /\ db'.imm = db.imm /\ db'.has_imm = db.has_imm
    /\ db'.logfile = db.logfile /\ db'.last_sequence = db.last_sequence /\ db'.pinned = db.pinned
    /\ UNCHANGED <<logs, written, acked, synced>>

LEMMA TableDisk ==
    ASSUME FilesInv, db.phase = "open", TableSteps, db' \in DbType, db.next_file <= db'.next_file,
           DOMAIN tables' \subseteq Nat,
           \A n \in DOMAIN tables' : tables'[n] \in TableType /\ Known(tables'[n].data),
           KeptTables(tables, tables', db.version), KeptTables(tables, tables', Held),
           \A k \in Points : KeptTables(tables, tables', FilesAt(Records, k))
    PROVE  /\ DiskOK' /\ Records' = Records /\ End' = End /\ Points' = Points /\ DiskTypeOK' /\ UpdatesOK'
           /\ Held' = Held /\ TablesOK(tables', Held') /\ Below(Held', db'.next_file)
<1>1. /\ db'.phase = db.phase /\ db'.mem = db.mem /\ db'.imm = db.imm /\ db'.last_sequence = db.last_sequence
      /\ db'.pinned = db.pinned /\ UNCHANGED <<current, manifests, relied, bounds>>
      /\ UNCHANGED <<logs, written, acked, synced>>
  BY DEF TableSteps, Works
<1>2. Busy /\ current # 0 /\ written \in Nat /\ JobsOK
  BY OpenFacts
<1>3. /\ DiskOK' /\ Records' = Records /\ End' = End /\ Points' = Points
  <2>1. current \in DOMAIN manifests' /\ manifests'[current] = manifests[current]
        /\ relied' \in Nat /\ relied <= relied' /\ relied' <= End
    BY <1>1, <1>2, RecordsFacts
  <2>2. \A n \in DOMAIN logs : KeptLogs(logs, logs', {n})
    BY <1>1 DEF KeptLogs
  <2>3. written' \in Nat /\ written <= written' /\ db'.phase # "new_db"
    BY <1>1, <1>2
  <2> QED BY <1>1, <1>2, <2>1, <2>2, <2>3, DiskStays
<1>4. DiskTypeOK'
  BY <1>1, InvParts DEF DiskTypeOK
<1>5. UpdatesOK'
  BY <1>1, InvParts DEF UpdatesOK, Known
<1>6. Held' = Held
  BY <1>1 DEF Held
<1>7. TablesOK(tables', Held') /\ Below(Held', db'.next_file)
  BY <1>6, HeldStays
<1> QED BY <1>3, <1>4, <1>5, <1>6, <1>7

LEMMA TableStep ==
    ASSUME FilesInv, db.phase = "open", TableSteps, StepsOn, db' \in DbType, db.next_file <= db'.next_file,
           DiskOK', Records' = Records, End' = End, Points' = Points, DiskTypeOK', UpdatesOK', EditOK', JobsOK',
           KeptTables(tables, tables', db.version),
           \A k \in Points : KeptTables(tables, tables', FilesAt(Records, k)),
           TablesOK(tables', db'.edit.added), Below(db'.edit.added, db'.next_file),
           SeqsBelow(Data(tables', db'.edit.added), db.last_sequence),
           db'.job = "none" => db'.step = "none", db'.job \in {"none", "flush", "merge"}
    PROVE  FilesInv'
<1>1. /\ Works /\ db'.mem = db.mem /\ db'.imm = db.imm /\ db'.has_imm = db.has_imm
      /\ db'.logfile = db.logfile /\ db'.last_sequence = db.last_sequence
      /\ UNCHANGED <<logs, written, acked, synced>>
  BY DEF TableSteps
<1>2. /\ NumbersOK /\ OpenOK /\ db.next_file \in Nat /\ db.last_sequence \in Nat /\ db.logfile \in Nat
      /\ db.logfile \in DOMAIN logs /\ db.logfile # 0 /\ (\A j \in DOMAIN logs : j < db.next_file)
      /\ DOMAIN logs \subseteq Nat /\ db'.next_file \in Nat
  BY OpenFacts, DbFields
<1>3. /\ acked \subseteq db.mem \cup db.imm \cup Data(tables, db.version)
      /\ synced \subseteq Data(tables, db.version) \cup db.imm \cup (db.mem \cap SyncedOf(logs, db.logfile))
      /\ ~db.has_imm => db.imm = {}
  BY <1>2 DEF OpenOK, Contents, Data
<1>4. SeqsBelow(db'.mem \cup db'.imm \cup Data(tables', db'.edit.added), db'.last_sequence)
  BY <1>1, <1>2 DEF NumbersOK, SeqsBelow
<1>5. \A j \in DOMAIN logs' : j < db'.next_file
  BY <1>1, <1>2
<1>6. db.mem \subseteq AllOf(logs, db.logfile)
  BY <1>2 DEF NumbersOK
<1>7. db.last_sequence <= db'.last_sequence /\ db.logfile <= db'.logfile
  BY <1>1, <1>2
<1> QED BY <1>1, <1>2, <1>3, <1>4, <1>5, <1>6, <1>7, OpenStep

MakesTable(T, U, number, D) ==
    /\ DOMAIN U = DOMAIN T \cup {number} /\ U[number] \in TableType /\ U[number].data = D
    /\ \A m : m \in DOMAIN T /\ m # number => U[m] = T[m]

LEMMA MakeTable ==
    ASSUME NEW T, NEW number, NEW D, D \subseteq AnyUpdate
    PROVE  MakesTable(T, Make(T, number, [data |-> D, complete |-> FALSE]), number, D)
<1> DEFINE v == [data |-> D, complete |-> FALSE]
           U == Make(T, number, v)
<1>1. v.data = D /\ v \in TableType
  BY DEF TableType
<1> HIDE DEF v
<1>2. DOMAIN U = DOMAIN T \cup {number} /\ U[number] = v /\ \A m \in DOMAIN T : m # number => U[m] = T[m]
  BY DEF Make
<1> QED BY <1>1, <1>2 DEF MakesTable, v

\* A table with a new number touches none that is in use.
LEMMA NewTable ==
    ASSUME FilesInv, db.phase = "open", NEW data, data \subseteq AnyUpdate, Known(data),
           tables' = tables \/ tables' = Make(tables, db.next_file, [data |-> data, complete |-> FALSE])
    PROVE  /\ DOMAIN tables' \subseteq Nat /\ \A n \in DOMAIN tables' : tables'[n] \in TableType /\ Known(tables'[n].data)
           /\ KeptTables(tables, tables', db.version) /\ KeptTables(tables, tables', Held)
           /\ \A k \in Points : KeptTables(tables, tables', FilesAt(Records, k)) /\ db.next_file \notin FilesAt(Records, k)
           /\ db.merge.output # 0 => KeptTables(tables, tables', {db.merge.output})
           /\ db.next_file \notin db.version \cup Held /\ db.next_file # db.merge.output /\ db.next_file # 0
<1> DEFINE n == db.next_file
<1>1. /\ Busy /\ NumbersOK /\ JobsOK /\ n \in Nat /\ db.logfile \in Nat /\ db.logfile # 0 /\ db.logfile < n
      /\ db.merge.output \in Nat /\ DOMAIN tables \subseteq Nat
  BY OpenFacts
<1>2. n # 0 /\ ~(n < n)
  BY <1>1
<1>10. \/ tables' = tables
       \/ /\ DOMAIN tables' = DOMAIN tables \cup {n} /\ tables'[n] \in TableType /\ tables'[n].data = data
          /\ \A m : m \in DOMAIN tables /\ m # n => tables'[m] = tables[m]
  <2>1. tables' = tables \/ MakesTable(tables, tables', n, data)
    BY MakeTable
  <2> HIDE DEF n
  <2> QED BY <2>1 DEF MakesTable
<1>3. ASSUME NEW F, F \subseteq DOMAIN tables, Below(F, n)
      PROVE  n \notin F /\ KeptTables(tables, tables', F)
  <2>1. n \notin F
    BY <1>2, <1>3 DEF Below
  <2>2. \A m \in F : m \in DOMAIN tables' /\ tables'[m] = tables[m]
    BY <1>3, <1>10, <2>1
  <2> QED BY <2>1, <2>2 DEF KeptTables
<1>4. /\ db.version \subseteq DOMAIN tables /\ Below(db.version, n) /\ Held \subseteq DOMAIN tables /\ Below(Held, n)
      /\ db.merge.output # 0 => db.merge.output \in DOMAIN tables /\ db.merge.output < n
  BY <1>1 DEF NumbersOK, JobsOK, TablesOK, Below
<1>5. \A k \in Points : FilesAt(Records, k) \subseteq DOMAIN tables /\ Below(FilesAt(Records, k), n)
  BY <1>1, BusyFacts
<1>6. db.merge.output # 0 => {db.merge.output} \subseteq DOMAIN tables /\ Below({db.merge.output}, n)
  BY <1>4 DEF Below
<1>7. DOMAIN tables' \subseteq Nat
  BY <1>1, <1>10
<1>8. ASSUME NEW m \in DOMAIN tables' PROVE tables'[m] \in TableType /\ Known(tables'[m].data)
  <2>1. \A j \in DOMAIN tables : tables[j] \in TableType /\ Known(tables[j].data)
    BY InvParts DEF DiskTypeOK, UpdatesOK
  <2>2. CASE m = n /\ tables'[n] \in TableType /\ tables'[n].data = data
    BY <2>2
  <2>3. CASE m \in DOMAIN tables /\ tables'[m] = tables[m]
    BY <2>1, <2>3
  <2> QED BY <1>8, <1>10, <2>2, <2>3
<1>9. db.next_file # db.merge.output
  BY <1>1, <1>2, <1>4
<1> HIDE DEF n
<1> QED BY <1>2, <1>3, <1>4, <1>5, <1>6, <1>7, <1>8, <1>9 DEF n

LEMMA StartFlushKeeps == FilesInv /\ StartFlush => FilesInv'
<1> SUFFICES ASSUME FilesInv, StartFlush PROVE FilesInv'
  OBVIOUS
<1> DEFINE n == db.next_file
<1>1. /\ db.phase = "open" /\ db.has_imm /\ db.job = "none"
      /\ tables' = IF db.imm = {} THEN tables ELSE Make(tables, n, [data |-> db.imm, complete |-> FALSE])
      /\ db' = [db EXCEPT !.job = "flush", !.step = "table", !.output = n,
                          !.next_file = @ + 1, !.pending = @ \cup {n}]
      /\ UNCHANGED <<current, manifests, logs, written, acked, synced, relied, bounds>>
  BY DEF StartFlush, history, promised
<1>2. /\ Busy /\ NumbersOK /\ OpenOK /\ JobsOK /\ db \in DbType /\ IsDb(db) /\ n \in Nat /\ db.last_sequence \in Nat
  BY <1>1, OpenFacts
<1>3. /\ IsDb(db') /\ db'.job = "flush" /\ db'.step = "table" /\ db'.output = n
      /\ db'.next_file = n + 1 /\ db'.pending = db.pending \cup {n} /\ db'.phase = db.phase
      /\ db'.version = db.version /\ db'.pinned = db.pinned /\ db'.log_number = db.log_number
      /\ db'.logfile = db.logfile /\ db'.last_sequence = db.last_sequence
      /\ db'.manifest = db.manifest /\ db'.descriptor = db.descriptor /\ db'.mem = db.mem
      /\ db'.imm = db.imm /\ db'.has_imm = db.has_imm /\ db'.bg_error = db.bg_error
      /\ db'.save_manifest = db.save_manifest /\ db'.edit = db.edit
      /\ db'.logs_left = db.logs_left /\ db'.merge = db.merge
  BY ZenonT(60), <1>1, <1>2 DEF IsDb, DbNames
<1>4. db' \in DbType
  <2>1. n + 1 \in Nat /\ db.pending \cup {n} \subseteq Nat /\ "flush" \in Jobs /\ "table" \in Steps
    BY <1>2, DbFields DEF Jobs, Steps
  <2> QED BY <1>2, <1>3, <2>1, DbFields, DbFromFields
<1>5. db.imm \subseteq AnyUpdate /\ Known(db.imm)
  BY <1>2, DbFields, InvParts DEF UpdatesOK
<1>6. tables' = tables \/ tables' = Make(tables, db.next_file, [data |-> db.imm, complete |-> FALSE])
  BY <1>1
<1>7. /\ DOMAIN tables' \subseteq Nat /\ \A m \in DOMAIN tables' : tables'[m] \in TableType /\ Known(tables'[m].data)
      /\ KeptTables(tables, tables', db.version) /\ KeptTables(tables, tables', Held)
      /\ \A k \in Points : KeptTables(tables, tables', FilesAt(Records, k)) /\ n \notin FilesAt(Records, k)
      /\ db.merge.output # 0 => KeptTables(tables, tables', {db.merge.output})
      /\ n \notin db.version \cup Held /\ n # db.merge.output
  BY <1>1, <1>5, <1>6, NewTable
<1>8. TableSteps
  BY <1>1, <1>3 DEF TableSteps, Works
<1>9. db.next_file <= db'.next_file /\ n < db'.next_file
  BY <1>2, <1>3
<1>10. /\ DiskOK' /\ Records' = Records /\ End' = End /\ Points' = Points /\ DiskTypeOK' /\ UpdatesOK'
       /\ Held' = Held /\ TablesOK(tables', Held') /\ Below(Held', db'.next_file)
  BY <1>1, <1>4, <1>7, <1>8, <1>9, TableDisk
<1>11. StepsOn
  <2>1. db.step = "none"
    BY <1>1, <1>2 DEF NumbersOK
  <2>2. ~InManifest
    BY <2>1 DEF InManifest
  <2> QED BY <1>3, <2>2 DEF StepsOn
<1>12. EditOK'
  BY <1>3 DEF EditOK, Applying, InManifest
<1>13. db.edit.added = {} /\ (db.merge.output # 0 => db.merge.output \in db.pending)
  BY <1>1, <1>2 DEF JobsOK
<1>14. JobsOK'
  <2>1. /\ db'.merge.inputs \subseteq db'.version
        /\ IF db'.merge.output = 0 THEN db'.merge.inputs = {}
           ELSE /\ db'.merge.output \in db'.pending /\ db'.merge.output \in DOMAIN tables'
                /\ db'.merge.output < db'.next_file
                /\ tables'[db'.merge.output].data = Data(tables', db'.merge.inputs)
    BY <1>1, <1>3, <1>4, <1>7, <1>9, <1>13, MergeStays
  <2>2. db'.imm # {} => db'.output \in DOMAIN tables' /\ tables'[db'.output].data = db'.imm
    <3>1. db.imm # {} => MakesTable(tables, tables', n, db.imm)
      BY <1>1, <1>5, MakeTable
    <3> HIDE DEF n
    <3>2. db.imm # {} => n \in DOMAIN tables' /\ tables'[n].data = db.imm
      BY <3>1 DEF MakesTable
    <3> QED BY <1>3, <3>2
  <2>3. /\ db'.edit.added = {} /\ db'.output \notin db'.version \cup Held' /\ db'.output # db'.merge.output
        /\ \A k \in Points' : db'.output \notin FilesAt(Records', k)
    BY <1>3, <1>7, <1>10, <1>13
  <2> QED BY <1>1, <1>3, <1>9, <1>10, <2>1, <2>2, <2>3 DEF JobsOK
<1>15. TablesOK(tables', db'.edit.added) /\ Below(db'.edit.added, db'.next_file) /\ SeqsBelow(Data(tables', db'.edit.added), db.last_sequence)
  BY <1>3, <1>13 DEF TablesOK, Below, SeqsBelow, Data
<1>16. (db'.job = "none" => db'.step = "none") /\ db'.job \in {"none", "flush", "merge"}
  BY <1>3
<1> HIDE DEF n
<1> QED BY <1>1, <1>4, <1>7, <1>8, <1>9, <1>10, <1>11, <1>12, <1>14, <1>15, <1>16, TableStep

LEMMA StartMergeKeeps == \A inputs \in SUBSET db.version : FilesInv /\ StartMerge(inputs) => FilesInv'
<1> SUFFICES ASSUME NEW inputs \in SUBSET db.version, FilesInv, StartMerge(inputs) PROVE FilesInv'
  OBVIOUS
<1> DEFINE n == db.next_file
           data == Data(tables, inputs)
           merge == [inputs |-> inputs, output |-> n]
<1>1. /\ db.phase = "open" /\ db.job = "none" /\ db.merge.output = 0
      /\ tables' = Make(tables, n, [data |-> data, complete |-> FALSE])
      /\ db' = [db EXCEPT !.merge = merge, !.next_file = @ + 1, !.pending = @ \cup {n}]
      /\ UNCHANGED <<current, manifests, logs, written, acked, synced, relied, bounds>>
  BY DEF StartMerge, history, promised, Data
<1>2. /\ Busy /\ NumbersOK /\ OpenOK /\ JobsOK /\ db \in DbType /\ IsDb(db) /\ n \in Nat /\ db.last_sequence \in Nat
  BY <1>1, OpenFacts
<1>3. merge.inputs = inputs /\ merge.output = n /\ merge \in [inputs : SUBSET Nat, output : Nat]
  BY <1>2, DbFields
<1> HIDE DEF merge
<1>4. /\ IsDb(db') /\ db'.merge = merge /\ db'.next_file = n + 1
      /\ db'.pending = db.pending \cup {n} /\ db'.phase = db.phase /\ db'.version = db.version
      /\ db'.pinned = db.pinned /\ db'.log_number = db.log_number /\ db'.logfile = db.logfile
      /\ db'.last_sequence = db.last_sequence /\ db'.manifest = db.manifest
      /\ db'.descriptor = db.descriptor /\ db'.mem = db.mem /\ db'.imm = db.imm
      /\ db'.has_imm = db.has_imm /\ db'.bg_error = db.bg_error
      /\ db'.save_manifest = db.save_manifest /\ db'.edit = db.edit
      /\ db'.logs_left = db.logs_left /\ db'.job = db.job /\ db'.step = db.step
      /\ db'.output = db.output
  BY <1>1, <1>2 DEF IsDb, DbNames
<1>5. db' \in DbType
  <2>1. n + 1 \in Nat /\ db.pending \cup {n} \subseteq Nat
    BY <1>2, DbFields
  <2> QED BY <1>2, <1>3, <1>4, <2>1, DbFields, DbFromFields
<1>6. inputs \subseteq DOMAIN tables
  BY <1>2 DEF NumbersOK, TablesOK
<1>7. data \subseteq AnyUpdate /\ Known(data)
  BY <1>6, InvParts DEF DiskTypeOK, UpdatesOK, Known, Data, TableType
<1> HIDE DEF data
<1>8. /\ DOMAIN tables' \subseteq Nat /\ \A m \in DOMAIN tables' : tables'[m] \in TableType /\ Known(tables'[m].data)
      /\ KeptTables(tables, tables', db.version) /\ KeptTables(tables, tables', Held)
      /\ \A k \in Points : KeptTables(tables, tables', FilesAt(Records, k))
      /\ n # 0
  BY <1>1, <1>7, NewTable
<1>9. TableSteps
  BY <1>1, <1>4 DEF TableSteps, Works
<1>10. db.next_file <= db'.next_file /\ n < db'.next_file
  BY <1>2, <1>4
<1>11. /\ DiskOK' /\ Records' = Records /\ End' = End /\ Points' = Points /\ DiskTypeOK' /\ UpdatesOK'
       /\ TablesOK(tables', Held') /\ Below(Held', db'.next_file)
  BY <1>1, <1>5, <1>8, <1>9, <1>10, TableDisk
<1>12. StepsOn
  BY <1>4 DEF StepsOn
<1>13. db.edit.added = {} /\ db.step = "none"
  BY <1>1, <1>2 DEF JobsOK, NumbersOK
<1>14. EditOK'
  BY <1>4, <1>13 DEF EditOK, Applying, InManifest
<1>15. JobsOK'
  <2>1. n \in DOMAIN tables' /\ tables'[n].data = data
    <3>1. MakesTable(tables, tables', n, data)
      BY <1>1, <1>7, MakeTable
    <3> HIDE DEF n
    <3> QED BY <3>1 DEF MakesTable
  <2>2. KeptTables(tables, tables', inputs)
    BY <1>8, KeptSubset
  <2>3. Data(tables', inputs) = data
    BY <2>2, KeptFacts DEF data
  <2>4. /\ db'.merge.inputs \subseteq db'.version
        /\ db'.merge.output # 0
        /\ db'.merge.output \in db'.pending /\ db'.merge.output \in DOMAIN tables'
        /\ db'.merge.output < db'.next_file
        /\ tables'[db'.merge.output].data = Data(tables', db'.merge.inputs)
    BY <1>3, <1>4, <1>8, <1>10, <2>1, <2>3
  <2> QED BY <1>1, <1>4, <1>11, <1>13, <2>4 DEF JobsOK
<1>16. TablesOK(tables', db'.edit.added) /\ Below(db'.edit.added, db'.next_file) /\ SeqsBelow(Data(tables', db'.edit.added), db.last_sequence)
  BY <1>4, <1>13 DEF TablesOK, Below, SeqsBelow, Data
<1>17. (db'.job = "none" => db'.step = "none") /\ db'.job \in {"none", "flush", "merge"}
  BY <1>1, <1>4, <1>13
<1> HIDE DEF n
<1> QED BY <1>1, <1>5, <1>8, <1>9, <1>10, <1>11, <1>12, <1>14, <1>15, <1>16, <1>17, TableStep

\* A table that is finished.
Completes(T, U, number) ==
    /\ DOMAIN U = DOMAIN T /\ U[number].complete
    /\ \A m \in DOMAIN T : U[m] \in TableType /\ U[m].data = T[m].data /\ (T[m].complete => U[m].complete)

LEMMA CompleteTable ==
    ASSUME NEW T, NEW number \in DOMAIN T, \A m \in DOMAIN T : T[m] \in TableType
    PROVE  Completes(T, [m \in DOMAIN T |-> IF m = number THEN [T[m] EXCEPT !.complete = TRUE] ELSE T[m]], number)
<1> DEFINE v == [T[number] EXCEPT !.complete = TRUE]
           U == [m \in DOMAIN T |-> IF m = number THEN [T[m] EXCEPT !.complete = TRUE] ELSE T[m]]
<1>1. T[number] \in TableType
  OBVIOUS
<1>2. v \in TableType /\ v.data = T[number].data /\ v.complete = TRUE
  BY <1>1 DEF TableType
<1>3. DOMAIN U = DOMAIN T /\ U[number] = v /\ \A m \in DOMAIN T : m # number => U[m] = T[m]
  OBVIOUS
<1> HIDE DEF v, U
<1>4. Completes(T, U, number)
  BY <1>2, <1>3 DEF Completes
<1> QED BY <1>4 DEF U

\* LogAndApply begins in an open database.
LEMMA ApplyStarts ==
    ASSUME FilesInv, db.phase = "open", TableSteps, db'.step = "append", db'.next_file = db.next_file,
           db'.edit.next_file = db.next_file, db'.edit.last_sequence = db.last_sequence,
           db'.edit.log_number \in Nat, db'.edit.log_number <= db.logfile,
           Below(db'.edit.added, db.next_file), SeqsBelow(Data(tables', db'.edit.added), db.last_sequence),
           Records' = Records, Points' = Points
    PROVE  EditOK'
<1>1. db'.manifest = db.manifest /\ db'.logfile = db.logfile /\ db'.last_sequence = db.last_sequence
  BY DEF TableSteps, Works
<1>2. /\ Busy /\ NumbersOK /\ ManifestOK /\ db.descriptor /\ db.logfile \in Nat /\ db.logfile < db.next_file
      /\ db.next_file \in Nat /\ db.last_sequence \in Nat
  BY OpenFacts
<1>3. db.manifest < db.next_file
  BY <1>2, CurrentBelow DEF ManifestOK
<1>4. \A k \in Points : Records[k].next_file <= db.next_file /\ Records[k].last_sequence <= db.last_sequence
  BY <1>2 DEF NumbersOK
<1>5. db'.edit.log_number < db.next_file
  BY <1>2
<1>6. \A k \in Points' : Records'[k].next_file <= db'.edit.next_file /\ Records'[k].last_sequence <= db'.edit.last_sequence
  BY <1>4
<1>7. db.next_file <= db.next_file /\ db.last_sequence <= db.last_sequence
  BY <1>2
<1> QED BY <1>1, <1>2, <1>3, <1>5, <1>6, <1>7 DEF EditOK

LEMMA FinishFlushKeeps == FilesInv /\ FinishFlush => FilesInv'
<1> SUFFICES ASSUME FilesInv, FinishFlush PROVE FilesInv'
  OBVIOUS
<1> DEFINE n == db.output
           A == IF db.imm = {} THEN {} ELSE {n}
           base == [NoEdit EXCEPT !.log_number = db.logfile, !.added = A]
           db1 == [db EXCEPT !.pending = @ \ {n}]
<1>1. /\ db.job = "flush" /\ db.step = "table"
      /\ tables' = IF db.imm = {} THEN tables ELSE [tables EXCEPT ![n].complete = TRUE]
      /\ db' = StartLogAndApply(db1, "flush", base)
      /\ UNCHANGED <<current, manifests, logs, written, acked, synced, relied, bounds>>
  BY DEF FinishFlush, history, promised
<1>2. db.phase = "open"
  <2>1. db.phase \in Phases
    BY InvParts, DbFields
  <2>2. db.phase \notin {"down", "new_db", "recover"}
    BY <1>1, InvParts DEF ClosedOK, NewIncarnation
  <2>3. db.phase # "replay"
    BY <1>1, InvParts DEF ReplayOK
  <2> QED BY <2>1, <2>2, <2>3 DEF Phases
<1>3. /\ Busy /\ NumbersOK /\ OpenOK /\ JobsOK /\ db \in DbType /\ IsDb(db) /\ db.next_file \in Nat /\ db.last_sequence \in Nat
      /\ n \in Nat /\ db.logfile \in Nat /\ db.descriptor
  BY <1>2, OpenFacts
<1>4. IsEdit(base) /\ base.log_number = db.logfile /\ base.added = A /\ base.deleted = {}
  BY NoEditFacts DEF IsEdit, EditNames
<1>5. /\ IsDb(db1) /\ db1.pending = db.pending \ {n} /\ db1.phase = db.phase
      /\ db1.version = db.version /\ db1.pinned = db.pinned /\ db1.log_number = db.log_number
      /\ db1.logfile = db.logfile /\ db1.next_file = db.next_file
      /\ db1.last_sequence = db.last_sequence /\ db1.manifest = db.manifest
      /\ db1.descriptor = db.descriptor /\ db1.mem = db.mem /\ db1.imm = db.imm
      /\ db1.has_imm = db.has_imm /\ db1.bg_error = db.bg_error
      /\ db1.save_manifest = db.save_manifest /\ db1.edit = db.edit
      /\ db1.logs_left = db.logs_left /\ db1.job = db.job /\ db1.step = db.step
      /\ db1.output = db.output /\ db1.merge = db.merge
  BY <1>3 DEF IsDb, DbNames
<1> HIDE DEF db1, base
<1>6. /\ IsDb(db') /\ db'.job = "flush" /\ db'.step = "append" /\ db'.pending = db.pending \ {n}
      /\ db'.phase = db.phase /\ db'.version = db.version /\ db'.pinned = db.pinned
      /\ db'.log_number = db.log_number /\ db'.logfile = db.logfile
      /\ db'.next_file = db.next_file /\ db'.last_sequence = db.last_sequence
      /\ db'.manifest = db.manifest /\ db'.descriptor = db.descriptor /\ db'.mem = db.mem
      /\ db'.imm = db.imm /\ db'.has_imm = db.has_imm /\ db'.bg_error = db.bg_error
      /\ db'.save_manifest = db.save_manifest
      /\ db'.logs_left = db.logs_left /\ db'.output = db.output /\ db'.merge = db.merge
      /\ IsEdit(db'.edit) /\ db'.edit.log_number = db.logfile /\ db'.edit.next_file = db.next_file
      /\ db'.edit.last_sequence = db.last_sequence /\ db'.edit.added = A /\ db'.edit.deleted = {}
  <2>1. IsDb(db1) /\ IsEdit(base)
    BY <1>3, <1>4, <1>5
  <2>3. db' = StartLogAndApply(db1, "flush", base)
    BY <1>1
  <2>2. /\ IsDb(db') /\ db'.job = "flush"
        /\ db'.step = (IF db1.descriptor THEN "append" ELSE "manifest") /\ db'.phase = db1.phase
        /\ db'.version = db1.version /\ db'.pinned = db1.pinned /\ db'.log_number = db1.log_number
        /\ db'.logfile = db1.logfile /\ db'.next_file = db1.next_file
        /\ db'.last_sequence = db1.last_sequence /\ db'.manifest = db1.manifest
        /\ db'.descriptor = db1.descriptor /\ db'.mem = db1.mem /\ db'.imm = db1.imm
        /\ db'.has_imm = db1.has_imm /\ db'.pending = db1.pending /\ db'.bg_error = db1.bg_error
        /\ db'.save_manifest = db1.save_manifest
        /\ db'.logs_left = db1.logs_left /\ db'.output = db1.output /\ db'.merge = db1.merge
        /\ IsEdit(db'.edit) /\ db'.edit.log_number = base.log_number /\ db'.edit.next_file = db1.next_file
        /\ db'.edit.last_sequence = db1.last_sequence /\ db'.edit.added = base.added /\ db'.edit.deleted = base.deleted
    BY <2>1, <2>3, StartFields
  <2> HIDE DEF A, n
  <2> QED BY <1>3, <1>4, <1>5, <2>2
<1>7. /\ db.has_imm /\ (db.imm # {} => n \in DOMAIN tables /\ tables[n].data = db.imm) /\ n < db.next_file
      /\ n \notin db.version \cup Held /\ n # db.merge.output
      /\ db.merge.output # 0 => db.merge.output \in db.pending /\ db.merge.output \in DOMAIN tables
      /\ db.version \subseteq DOMAIN tables /\ Held \subseteq DOMAIN tables
  BY <1>1, <1>2, <1>3 DEF JobsOK, NumbersOK, TablesOK
<1>8. db' \in DbType
  <2>1. db'.edit \in Edits
    <3>1. db.logfile \in Int /\ db.next_file \in Int /\ db.last_sequence \in Int /\ A \subseteq Nat
      BY <1>3
    <3> QED BY <1>6, <3>1, EditFromFields
  <2>2. db.pending \ {n} \subseteq Nat /\ "flush" \in Jobs /\ "append" \in Steps
    BY <1>3, DbFields DEF Jobs, Steps
  <2> QED BY <1>3, <1>6, <2>1, <2>2, DbFields, DbFromFields
<1>9. \A m \in DOMAIN tables : tables[m] \in TableType /\ Known(tables[m].data)
  BY InvParts DEF DiskTypeOK, UpdatesOK
<1>10. /\ DOMAIN tables' = DOMAIN tables /\ (db.imm # {} => tables'[n].complete)
       /\ \A m \in DOMAIN tables : tables'[m] \in TableType /\ tables'[m].data = tables[m].data /\ (tables[m].complete => tables'[m].complete)
  <2>1. CASE db.imm = {}
    BY <1>1, <1>9, <2>1
  <2>2. CASE db.imm # {}
    <3> DEFINE U == [m \in DOMAIN tables |-> IF m = n THEN [tables[m] EXCEPT !.complete = TRUE] ELSE tables[m]]
    <3>1. n \in DOMAIN tables /\ tables' = U
      BY <1>1, <1>7, <2>2
    <3>2. Completes(tables, U, n)
      BY <1>9, <3>1, CompleteTable
    <3> HIDE DEF U, n
    <3> QED BY <3>1, <3>2 DEF Completes
  <2> QED BY <2>1, <2>2
<1>11. \A F : F \subseteq DOMAIN tables => KeptTables(tables, tables', F)
  BY <1>10 DEF KeptTables
<1>12. TableSteps
  BY <1>1, <1>6 DEF TableSteps, Works
<1>13. \A k \in Points : KeptTables(tables, tables', FilesAt(Records, k))
  BY <1>3, <1>11, BusyFacts
<1>14. db.next_file <= db'.next_file /\ n < db'.next_file
  BY <1>3, <1>6, <1>7
<1>15. DOMAIN tables' \subseteq Nat /\ \A m \in DOMAIN tables' : tables'[m] \in TableType /\ Known(tables'[m].data)
  BY <1>9, <1>10, InvParts DEF DiskTypeOK
<1>16. /\ DiskOK' /\ Records' = Records /\ End' = End /\ Points' = Points /\ DiskTypeOK' /\ UpdatesOK'
       /\ TablesOK(tables', Held') /\ Below(Held', db'.next_file)
  BY <1>2, <1>7, <1>8, <1>11, <1>12, <1>13, <1>14, <1>15, TableDisk
<1>17. StepsOn
  <2>1. ~InManifest
    BY <1>1 DEF InManifest
  <2> QED BY <1>6, <2>1 DEF StepsOn
<1>18. TablesOK(tables', A) /\ Below(A, db.next_file)
  BY <1>7, <1>10 DEF TablesOK, Below
<1>19. Data(tables', A) \subseteq db.imm
  <2>1. CASE db.imm = {}
    BY <2>1 DEF Data
  <2>2. CASE db.imm # {}
    BY <1>7, <1>10, <2>2, DataOne
  <2> QED BY <2>1, <2>2
<1>20. SeqsBelow(Data(tables', A), db.last_sequence)
  BY <1>3, <1>19 DEF NumbersOK, SeqsBelow
<1>21. EditOK'
  <2>1. db.logfile <= db.logfile
    BY <1>3
  <2> HIDE DEF A, n
  <2> QED BY <1>2, <1>3, <1>6, <1>12, <1>16, <1>18, <1>20, <2>1, ApplyStarts
<1>22. JobsOK'
  <2>1. /\ db'.merge.inputs \subseteq db'.version
        /\ IF db'.merge.output = 0 THEN db'.merge.inputs = {}
           ELSE /\ db'.merge.output \in db'.pending /\ db'.merge.output \in DOMAIN tables'
                /\ db'.merge.output < db'.next_file
                /\ tables'[db'.merge.output].data = Data(tables', db'.merge.inputs)
    <3>1. db.merge.output # 0 => db.merge.output \in db'.pending /\ KeptTables(tables, tables', {db.merge.output})
      BY <1>6, <1>7, <1>11
    <3> QED BY <1>2, <1>6, <1>7, <1>8, <1>11, <1>14, <3>1, MergeStays
  <2>2. db'.imm # {} => db'.output \in DOMAIN tables' /\ tables'[db'.output].data = db'.imm
    BY <1>6, <1>7, <1>10
  <2>3. /\ db'.edit.log_number = db'.logfile /\ db'.edit.deleted = {} /\ db'.step = "append"
        /\ db'.edit.added = IF db'.imm = {} THEN {} ELSE {db'.output}
    BY <1>6
  <2>4. db'.job = "flush" /\ db'.has_imm /\ db'.output < db'.next_file
    BY <1>6, <1>7, <1>14
  <2> QED BY <1>16, <2>1, <2>2, <2>3, <2>4 DEF JobsOK
<1>23. /\ TablesOK(tables', db'.edit.added) /\ Below(db'.edit.added, db'.next_file)
       /\ SeqsBelow(Data(tables', db'.edit.added), db.last_sequence)
  BY <1>6, <1>18, <1>20
<1>24. (db'.job = "none" => db'.step = "none") /\ db'.job \in {"none", "flush", "merge"}
  BY <1>6
<1>25. KeptTables(tables, tables', db.version)
  BY <1>7, <1>11
<1> HIDE DEF n, A
<1> QED BY <1>2, <1>8, <1>12, <1>13, <1>14, <1>16, <1>17, <1>21, <1>22, <1>23, <1>24, <1>25, TableStep

\* There is a compaction only in an open database.
LEMMA MergeIsOpen ==
    ASSUME FilesInv, db.merge.output # 0 \/ db.job \in {"flush", "merge"}
    PROVE  db.phase = "open"
<1>1. db.phase \in Phases
  BY InvParts, DbFields
<1>2. db.phase \notin {"down", "new_db", "recover"}
  BY InvParts DEF ClosedOK, NewIncarnation
<1>3. db.phase # "replay"
  BY InvParts DEF ReplayOK
<1> QED BY <1>1, <1>2, <1>3 DEF Phases

LEMMA FinishMergeKeeps == FilesInv /\ FinishMerge => FilesInv'
<1> SUFFICES ASSUME FilesInv, FinishMerge PROVE FilesInv'
  OBVIOUS
<1> DEFINE n == db.merge.output
           base == [NoEdit EXCEPT !.log_number = db.log_number, !.added = {n}, !.deleted = db.merge.inputs]
           U == [m \in DOMAIN tables |-> IF m = n THEN [tables[m] EXCEPT !.complete = TRUE] ELSE tables[m]]
<1>1. /\ db.job = "none" /\ n # 0 /\ tables' = U /\ db' = StartLogAndApply(db, "merge", base)
      /\ UNCHANGED <<current, manifests, logs, written, acked, synced, relied, bounds>>
  BY DEF FinishMerge, history, promised
<1>2. db.phase = "open"
  BY <1>1, MergeIsOpen
<1>3. /\ Busy /\ NumbersOK /\ OpenOK /\ JobsOK /\ db \in DbType /\ IsDb(db) /\ db.next_file \in Nat /\ db.last_sequence \in Nat
      /\ n \in Nat /\ db.logfile \in Nat /\ db.descriptor /\ current # 0
  BY <1>2, OpenFacts
<1>4. IsEdit(base) /\ base.log_number = db.log_number /\ base.added = {n} /\ base.deleted = db.merge.inputs
  BY NoEditFacts DEF IsEdit, EditNames
<1> HIDE DEF base
<1>5. /\ IsDb(db') /\ db'.job = "merge" /\ db'.step = "append" /\ db'.phase = db.phase
      /\ db'.version = db.version /\ db'.pinned = db.pinned /\ db'.log_number = db.log_number
      /\ db'.logfile = db.logfile /\ db'.next_file = db.next_file
      /\ db'.last_sequence = db.last_sequence /\ db'.manifest = db.manifest
      /\ db'.descriptor = db.descriptor /\ db'.mem = db.mem /\ db'.imm = db.imm
      /\ db'.has_imm = db.has_imm /\ db'.pending = db.pending /\ db'.bg_error = db.bg_error
      /\ db'.save_manifest = db.save_manifest
      /\ db'.logs_left = db.logs_left /\ db'.output = db.output /\ db'.merge = db.merge
      /\ IsEdit(db'.edit) /\ db'.edit.log_number = db.log_number /\ db'.edit.next_file = db.next_file
      /\ db'.edit.last_sequence = db.last_sequence /\ db'.edit.added = {n} /\ db'.edit.deleted = db.merge.inputs
  <2>1. IsDb(db) /\ IsEdit(base)
    BY <1>3, <1>4
  <2>3. db' = StartLogAndApply(db, "merge", base)
    BY <1>1
  <2>2. /\ IsDb(db') /\ db'.job = "merge"
        /\ db'.step = (IF db.descriptor THEN "append" ELSE "manifest") /\ db'.phase = db.phase
        /\ db'.version = db.version /\ db'.pinned = db.pinned /\ db'.log_number = db.log_number
        /\ db'.logfile = db.logfile /\ db'.next_file = db.next_file
        /\ db'.last_sequence = db.last_sequence /\ db'.manifest = db.manifest
        /\ db'.descriptor = db.descriptor /\ db'.mem = db.mem /\ db'.imm = db.imm
        /\ db'.has_imm = db.has_imm /\ db'.pending = db.pending /\ db'.bg_error = db.bg_error
        /\ db'.save_manifest = db.save_manifest
        /\ db'.logs_left = db.logs_left /\ db'.output = db.output /\ db'.merge = db.merge
        /\ IsEdit(db'.edit) /\ db'.edit.log_number = base.log_number /\ db'.edit.next_file = db.next_file
        /\ db'.edit.last_sequence = db.last_sequence /\ db'.edit.added = base.added /\ db'.edit.deleted = base.deleted
    BY <2>1, <2>3, StartFields
  <2> HIDE DEF U, n
  <2> QED BY <1>3, <1>4, <2>2
<1>6. /\ n \in db.pending /\ n \in DOMAIN tables /\ n < db.next_file /\ tables[n].data = Data(tables, db.merge.inputs)
      /\ db.merge.inputs \subseteq db.version
      /\ db.version \subseteq DOMAIN tables /\ Held \subseteq DOMAIN tables
  BY <1>1, <1>2, <1>3 DEF JobsOK, NumbersOK, TablesOK
<1>7. db' \in DbType
  <2>1. db.log_number \in Int /\ db.next_file \in Int /\ db.last_sequence \in Int /\ {n} \subseteq Nat /\ db.merge.inputs \subseteq Nat
    BY <1>3, DbFields
  <2>2. db'.edit \in Edits
    BY <1>5, <2>1, EditFromFields
  <2>3. "merge" \in Jobs /\ "append" \in Steps
    BY DEF Jobs, Steps
  <2> QED BY <1>3, <1>5, <2>2, <2>3, DbFields, DbFromFields
<1>8. \A m \in DOMAIN tables : tables[m] \in TableType /\ Known(tables[m].data)
  BY InvParts DEF DiskTypeOK, UpdatesOK
<1>9. /\ DOMAIN tables' = DOMAIN tables /\ tables'[n].complete
      /\ \A m \in DOMAIN tables : tables'[m] \in TableType /\ tables'[m].data = tables[m].data /\ (tables[m].complete => tables'[m].complete)
  <2>1. Completes(tables, U, n)
    BY <1>6, <1>8, CompleteTable
  <2> HIDE DEF U, n
  <2> QED BY <1>1, <2>1 DEF Completes
<1> HIDE DEF U
<1>10. \A F : F \subseteq DOMAIN tables => KeptTables(tables, tables', F)
  BY <1>9 DEF KeptTables
<1>11. TableSteps
  BY <1>1, <1>5 DEF TableSteps, Works
<1>12. \A k \in Points : KeptTables(tables, tables', FilesAt(Records, k))
  BY <1>3, <1>10, BusyFacts
<1>13. db.next_file <= db'.next_file /\ n < db'.next_file
  BY <1>3, <1>5, <1>6
<1>14. DOMAIN tables' \subseteq Nat /\ \A m \in DOMAIN tables' : tables'[m] \in TableType /\ Known(tables'[m].data)
  BY <1>8, <1>9, InvParts DEF DiskTypeOK
<1>15. /\ DiskOK' /\ Records' = Records /\ End' = End /\ Points' = Points /\ DiskTypeOK' /\ UpdatesOK'
       /\ TablesOK(tables', Held') /\ Below(Held', db'.next_file)
  BY <1>2, <1>6, <1>7, <1>10, <1>11, <1>12, <1>13, <1>14, TableDisk
<1>16. StepsOn
  <2>1. ~InManifest
    BY <1>1, <1>3 DEF InManifest, NumbersOK
  <2> QED BY <1>5, <2>1 DEF StepsOn
<1>17. TablesOK(tables', {n}) /\ Below({n}, db.next_file)
  BY <1>6, <1>9 DEF TablesOK, Below
<1>18. SeqsBelow(Data(tables', {n}), db.last_sequence)
  <2>1. Data(tables', {n}) = tables'[n].data
    BY DataOne
  <2>2. Data(tables, db.merge.inputs) \subseteq Data(tables, db.version \cup db.edit.added)
    BY <1>6 DEF Data
  <2>3. SeqsBelow(Data(tables, db.version \cup db.edit.added), db.last_sequence)
    BY <1>3 DEF NumbersOK, SeqsBelow
  <2>4. Data(tables', {n}) \subseteq Data(tables, db.version \cup db.edit.added)
    BY <1>6, <1>9, <2>1, <2>2
  <2> QED BY <2>3, <2>4 DEF SeqsBelow
<1>19. EditOK'
  <2>1. db.log_number <= Records[End].log_number /\ Records[End].log_number <= db.logfile
    BY <1>2, <1>3, RecordsFacts DEF OpenOK
  <2>2. Records[End].log_number \in Nat /\ db.log_number \in Nat
    BY <1>3, RecordsFacts, DbFields DEF GoodAt, GoodEdit
  <2>3. db.log_number <= db.logfile
    BY <1>3, <2>1, <2>2
  <2> HIDE DEF n
  <2> QED BY <1>2, <1>3, <1>5, <1>11, <1>15, <1>17, <1>18, <2>2, <2>3, ApplyStarts
<1>20. JobsOK'
  <2>1. /\ db'.merge.inputs \subseteq db'.version
        /\ IF db'.merge.output = 0 THEN db'.merge.inputs = {}
           ELSE /\ db'.merge.output \in db'.pending /\ db'.merge.output \in DOMAIN tables'
                /\ db'.merge.output < db'.next_file
                /\ tables'[db'.merge.output].data = Data(tables', db'.merge.inputs)
    <3>1. db.merge.output # 0 => db.merge.output \in db'.pending /\ KeptTables(tables, tables', {db.merge.output})
      BY <1>5, <1>6, <1>10
    <3> QED BY <1>2, <1>5, <1>6, <1>7, <1>10, <1>13, <3>1, MergeStays
  <2>2. /\ db'.job = "merge" /\ db'.merge.output # 0 /\ db'.step = "append" /\ db'.edit.log_number = db'.log_number
        /\ db'.edit.added = {db'.merge.output} /\ db'.edit.deleted = db'.merge.inputs
    BY <1>1, <1>5
  <2> QED BY <1>15, <2>1, <2>2 DEF JobsOK
<1>21. /\ TablesOK(tables', db'.edit.added) /\ Below(db'.edit.added, db'.next_file)
       /\ SeqsBelow(Data(tables', db'.edit.added), db.last_sequence)
  BY <1>5, <1>17, <1>18
<1>22. (db'.job = "none" => db'.step = "none") /\ db'.job \in {"none", "flush", "merge"}
  BY <1>5
<1>23. KeptTables(tables, tables', db.version)
  BY <1>6, <1>10
<1> HIDE DEF n
<1> QED BY <1>2, <1>7, <1>11, <1>12, <1>13, <1>15, <1>16, <1>19, <1>20, <1>21, <1>22, <1>23, TableStep

-----------------------------------------------------------------------------
\* A background job gives up.

LEMMA GiveUpFields ==
    ASSUME NEW d, IsDb(d)
    PROVE  LET g == GiveUp(d)
           IN  /\ IsDb(g) /\ g.bg_error = TRUE /\ g.step = "none" /\ g.job = "none" /\ g.edit = NoEdit
               /\ g.output = 0 /\ g.phase = d.phase /\ g.version = d.version /\ g.pinned = d.pinned
               /\ g.log_number = d.log_number /\ g.logfile = d.logfile /\ g.next_file = d.next_file
               /\ g.last_sequence = d.last_sequence /\ g.manifest = d.manifest
               /\ g.descriptor = d.descriptor /\ g.mem = d.mem /\ g.imm = d.imm /\ g.has_imm = d.has_imm
               /\ g.save_manifest = d.save_manifest /\ g.logs_left = d.logs_left
              
               /\ d.job = "flush" => g.pending = d.pending /\ g.merge = d.merge
               /\ d.job # "flush" => g.pending = d.pending \ {d.merge.output} /\ g.merge = [inputs |-> {}, output |-> 0]
<1> DEFINE e == [d EXCEPT !.bg_error = TRUE, !.step = "none", !.job = "none", !.edit = NoEdit, !.output = 0]
           c == CleanupCompaction(e)
           g == GiveUp(d)
<1>1. /\ IsDb(e) /\ e.bg_error = TRUE /\ e.step = "none" /\ e.job = "none" /\ e.edit = NoEdit
      /\ e.output = 0 /\ e.phase = d.phase /\ e.version = d.version /\ e.pinned = d.pinned
      /\ e.log_number = d.log_number /\ e.logfile = d.logfile /\ e.next_file = d.next_file
      /\ e.last_sequence = d.last_sequence /\ e.manifest = d.manifest
      /\ e.descriptor = d.descriptor /\ e.mem = d.mem /\ e.imm = d.imm /\ e.has_imm = d.has_imm
      /\ e.pending = d.pending /\ e.save_manifest = d.save_manifest /\ e.logs_left = d.logs_left
      /\ e.merge = d.merge
  BY DEF IsDb, DbNames
<1>2. (d.job = "flush" => g = e) /\ (d.job # "flush" => g = c)
  BY DEF GiveUp
<1> HIDE DEF e
<1>3. /\ IsDb(c) /\ c.bg_error = TRUE /\ c.step = "none" /\ c.job = "none" /\ c.edit = NoEdit
      /\ c.output = 0 /\ c.phase = d.phase /\ c.version = d.version /\ c.pinned = d.pinned
      /\ c.log_number = d.log_number /\ c.logfile = d.logfile /\ c.next_file = d.next_file
      /\ c.last_sequence = d.last_sequence /\ c.manifest = d.manifest
      /\ c.descriptor = d.descriptor /\ c.mem = d.mem /\ c.imm = d.imm /\ c.has_imm = d.has_imm
      /\ c.save_manifest = d.save_manifest /\ c.logs_left = d.logs_left
     
      /\ c.pending = e.pending \ {e.merge.output} /\ c.merge = [inputs |-> {}, output |-> 0]
  <2>1. IsDb(e)
    BY <1>1
  <2>2. /\ IsDb(c) /\ c.phase = e.phase /\ c.version = e.version /\ c.pinned = e.pinned
        /\ c.log_number = e.log_number /\ c.logfile = e.logfile /\ c.next_file = e.next_file
        /\ c.last_sequence = e.last_sequence /\ c.manifest = e.manifest
        /\ c.descriptor = e.descriptor /\ c.mem = e.mem /\ c.imm = e.imm /\ c.has_imm = e.has_imm
        /\ c.bg_error = e.bg_error /\ c.save_manifest = e.save_manifest
        /\ c.edit = e.edit /\ c.logs_left = e.logs_left /\ c.job = e.job /\ c.step = e.step
        /\ c.output = e.output
        /\ c.pending = e.pending \ {e.merge.output} /\ c.merge = [inputs |-> {}, output |-> 0]
    BY <2>1, CleanupFields
  <2> HIDE DEF c
  <2> QED BY <1>1, <2>2
<1> HIDE DEF c, g
<1>4. /\ IsDb(g) /\ g.bg_error = TRUE /\ g.step = "none" /\ g.job = "none" /\ g.edit = NoEdit
      /\ g.output = 0 /\ g.phase = d.phase /\ g.version = d.version /\ g.pinned = d.pinned
      /\ g.log_number = d.log_number /\ g.logfile = d.logfile /\ g.next_file = d.next_file
      /\ g.last_sequence = d.last_sequence /\ g.manifest = d.manifest
      /\ g.descriptor = d.descriptor /\ g.mem = d.mem /\ g.imm = d.imm /\ g.has_imm = d.has_imm
      /\ g.save_manifest = d.save_manifest /\ g.logs_left = d.logs_left
     
      /\ d.job = "flush" => g.pending = d.pending /\ g.merge = d.merge
      /\ d.job # "flush" => g.pending = d.pending \ {d.merge.output} /\ g.merge = [inputs |-> {}, output |-> 0]
  <2>1. CASE d.job = "flush"
    BY <1>1, <1>2, <2>1
  <2>2. CASE d.job # "flush"
    BY <1>1, <1>2, <1>3, <2>2
  <2> QED BY <2>1, <2>2
<1> QED BY <1>4 DEF g

LEMMA GiveUpKeeps ==
    ASSUME FilesInv, db.phase = "open", NEW d, IsDb(d), db' = GiveUp(d),
           d.phase = db.phase, d.version = db.version, d.pinned = db.pinned, d.log_number = db.log_number,
           d.logfile = db.logfile, d.next_file = db.next_file, d.last_sequence = db.last_sequence,
           d.manifest = db.manifest, d.descriptor = db.descriptor, d.mem = db.mem, d.imm = db.imm,
           d.has_imm = db.has_imm, d.save_manifest = db.save_manifest, d.logs_left = db.logs_left,
           d.merge = db.merge, d.pending \subseteq db.pending,
           d.job = "flush" /\ db.merge.output # 0 => db.merge.output \in d.pending,
           UNCHANGED <<current, manifests, logs, written, acked, synced, relied, bounds>>,
           DOMAIN tables' \subseteq DOMAIN tables, \A n \in DOMAIN tables' : tables'[n] = tables[n],
           \A n \in db.version \cup Held : n \in DOMAIN tables',
           \A k \in Points : \A n \in FilesAt(Records, k) : n \in DOMAIN tables',
           d.job = "flush" /\ db.merge.output # 0 => db.merge.output \in DOMAIN tables'
    PROVE  FilesInv'
<1>1. /\ IsDb(db') /\ db'.bg_error = TRUE /\ db'.step = "none" /\ db'.job = "none"
      /\ db'.edit = NoEdit /\ db'.output = 0 /\ db'.phase = db.phase /\ db'.version = db.version
      /\ db'.pinned = db.pinned /\ db'.log_number = db.log_number /\ db'.logfile = db.logfile
      /\ db'.next_file = db.next_file /\ db'.last_sequence = db.last_sequence
      /\ db'.manifest = db.manifest /\ db'.descriptor = db.descriptor /\ db'.mem = db.mem
      /\ db'.imm = db.imm /\ db'.has_imm = db.has_imm
      /\ db'.save_manifest = db.save_manifest /\ db'.logs_left = db.logs_left
     
      /\ d.job = "flush" => db'.pending = d.pending /\ db'.merge = db.merge
      /\ d.job # "flush" => db'.pending = d.pending \ {db.merge.output} /\ db'.merge = [inputs |-> {}, output |-> 0]
  <2>1. /\ IsDb(db') /\ db'.bg_error = TRUE /\ db'.step = "none" /\ db'.job = "none"
        /\ db'.edit = NoEdit /\ db'.output = 0 /\ db'.phase = d.phase /\ db'.version = d.version
        /\ db'.pinned = d.pinned /\ db'.log_number = d.log_number /\ db'.logfile = d.logfile
        /\ db'.next_file = d.next_file /\ db'.last_sequence = d.last_sequence
        /\ db'.manifest = d.manifest /\ db'.descriptor = d.descriptor /\ db'.mem = d.mem
        /\ db'.imm = d.imm /\ db'.has_imm = d.has_imm
        /\ db'.save_manifest = d.save_manifest /\ db'.logs_left = d.logs_left
       
        /\ d.job = "flush" => db'.pending = d.pending /\ db'.merge = d.merge
        /\ d.job # "flush" => db'.pending = d.pending \ {d.merge.output} /\ db'.merge = [inputs |-> {}, output |-> 0]
    BY ZenonT(60), GiveUpFields
  <2> QED BY <2>1
<1>2. /\ Busy /\ NumbersOK /\ OpenOK /\ JobsOK /\ db \in DbType /\ IsDb(db) /\ db.next_file \in Nat /\ DOMAIN tables \subseteq Nat
  BY OpenFacts
<1>3. db' \in DbType
  <2> DEFINE m == [inputs |-> {}, output |-> 0]
             error == TRUE
  <2>1. m \in [inputs : SUBSET Nat, output : Nat] /\ db.pending \in SUBSET Nat /\ db.merge \in [inputs : SUBSET Nat, output : Nat]
    BY <1>2, DbFields
  <2>2. db'.merge = db.merge \/ db'.merge = m
    BY <1>1
  <2>3. db'.pending \subseteq db.pending
    BY <1>1
  <2>4. NoEdit \in Edits /\ "none" \in Jobs /\ "none" \in Steps /\ 0 \in Nat /\ error \in BOOLEAN /\ db'.bg_error = error
    BY <1>1, NoEditFacts DEF Jobs, Steps
  <2> HIDE DEF m, error
  <2>5. db'.merge \in [inputs : SUBSET Nat, output : Nat] /\ db'.pending \in SUBSET Nat /\ db'.bg_error \in BOOLEAN
    BY <2>1, <2>2, <2>3, <2>4
  <2> QED BY <1>1, <1>2, <2>4, <2>5, DbFields, DbFromFields
<1>4. \A n \in DOMAIN tables : tables[n] \in TableType /\ Known(tables[n].data)
  BY InvParts DEF DiskTypeOK, UpdatesOK
<1>5. DOMAIN tables' \subseteq Nat /\ \A n \in DOMAIN tables' : tables'[n] \in TableType /\ Known(tables'[n].data)
  BY <1>2, <1>4
<1>6. \A F : (\A n \in F : n \in DOMAIN tables') => KeptTables(tables, tables', F)
  BY DEF KeptTables
<1>7. /\ KeptTables(tables, tables', db.version) /\ KeptTables(tables, tables', Held)
      /\ \A k \in Points : KeptTables(tables, tables', FilesAt(Records, k))
      /\ d.job = "flush" /\ db.merge.output # 0 => KeptTables(tables, tables', {db.merge.output})
  BY <1>6
<1>8. TableSteps
  BY <1>1 DEF TableSteps, Works
<1>9. StepsOn
  BY <1>1 DEF StepsOn
<1>10. db.next_file <= db'.next_file
  BY <1>1, <1>2
<1>11. /\ DiskOK' /\ Records' = Records /\ End' = End /\ Points' = Points /\ DiskTypeOK' /\ UpdatesOK'
       /\ TablesOK(tables', Held') /\ Below(Held', db'.next_file)
  BY <1>3, <1>5, <1>7, <1>8, <1>10, TableDisk
<1>12. EditOK'
  BY <1>1 DEF EditOK, Applying, InManifest
<1>13. db'.edit.added = {}
  BY <1>1, NoEditFacts
<1>14. JobsOK'
  <2>1. /\ db'.merge.inputs \subseteq db'.version
        /\ IF db'.merge.output = 0 THEN db'.merge.inputs = {}
           ELSE /\ db'.merge.output \in db'.pending /\ db'.merge.output \in DOMAIN tables'
                /\ db'.merge.output < db'.next_file
                /\ tables'[db'.merge.output].data = Data(tables', db'.merge.inputs)
    <3>1. CASE d.job = "flush"
      <4>1. db'.merge = db.merge /\ db'.version = db.version
        BY <1>1, <3>1
      <4>2. db.merge.output # 0 => db.merge.output \in db'.pending /\ KeptTables(tables, tables', {db.merge.output})
        BY <1>1, <1>7, <3>1
      <4> QED BY <1>3, <1>7, <1>10, <4>1, <4>2, MergeStays
    <3>2. CASE d.job # "flush"
      <4>1. db'.merge.inputs = {} /\ db'.merge.output = 0
        BY <1>1, <3>2
      <4> QED BY <4>1
    <3> QED BY <3>1, <3>2
  <2> QED BY <1>1, <1>11, <1>13, <2>1 DEF JobsOK
<1>15. /\ TablesOK(tables', db'.edit.added) /\ Below(db'.edit.added, db'.next_file)
       /\ SeqsBelow(Data(tables', db'.edit.added), db.last_sequence)
  BY <1>13 DEF TablesOK, Below, SeqsBelow, Data
<1>16. (db'.job = "none" => db'.step = "none") /\ db'.job \in {"none", "flush", "merge"}
  BY <1>1
<1> QED BY <1>3, <1>7, <1>8, <1>9, <1>10, <1>11, <1>12, <1>14, <1>15, <1>16, TableStep

LEMMA TableFailsKeeps == FilesInv /\ TableFails => FilesInv'
<1> SUFFICES ASSUME FilesInv, TableFails PROVE FilesInv'
  OBVIOUS
<1> DEFINE n == db.output
           flush == [db EXCEPT !.pending = @ \ {n}]
           merge == [db EXCEPT !.job = "merge"]
<1>1. UNCHANGED <<current, manifests, logs, written, acked, synced, relied, bounds>>
  BY DEF TableFails, history, promised
<1>2. \/ /\ db.job = "flush" /\ db.step = "table" /\ db' = GiveUp(flush)
         /\ tables' = Restrict(tables, DOMAIN tables \ {n})
      \/ /\ db.job = "none" /\ db.merge.output # 0 /\ db' = GiveUp(merge) /\ tables' = tables
  BY DEF TableFails
<1>3. db.phase = "open"
  BY <1>2, MergeIsOpen
<1>4. /\ Busy /\ NumbersOK /\ JobsOK /\ IsDb(db)
  BY <1>3, OpenFacts
<1>5. /\ db.version \subseteq DOMAIN tables /\ Held \subseteq DOMAIN tables
      /\ \A k \in Points : FilesAt(Records, k) \subseteq DOMAIN tables
  BY <1>3, <1>4, BusyFacts DEF NumbersOK, JobsOK, TablesOK
<1>6. CASE /\ db.job = "flush" /\ db.step = "table" /\ db' = GiveUp(flush)
           /\ tables' = Restrict(tables, DOMAIN tables \ {n})
  <2>1. /\ IsDb(flush) /\ flush.pending = db.pending \ {n} /\ flush.phase = db.phase
        /\ flush.version = db.version /\ flush.pinned = db.pinned
        /\ flush.log_number = db.log_number /\ flush.logfile = db.logfile
        /\ flush.next_file = db.next_file /\ flush.last_sequence = db.last_sequence
        /\ flush.manifest = db.manifest /\ flush.descriptor = db.descriptor /\ flush.mem = db.mem
        /\ flush.imm = db.imm /\ flush.has_imm = db.has_imm /\ flush.bg_error = db.bg_error
        /\ flush.save_manifest = db.save_manifest /\ flush.edit = db.edit
        /\ flush.logs_left = db.logs_left /\ flush.job = db.job /\ flush.step = db.step
        /\ flush.output = db.output /\ flush.merge = db.merge
    BY <1>4 DEF IsDb, DbNames
  <2>2. /\ n \notin db.version \cup Held /\ n # db.merge.output /\ (\A k \in Points : n \notin FilesAt(Records, k))
        /\ db.merge.output # 0 => db.merge.output \in db.pending /\ db.merge.output \in DOMAIN tables
    BY <1>3, <1>4, <1>6 DEF JobsOK
  <2>3. DOMAIN tables' = DOMAIN tables \ {n} /\ \A m \in DOMAIN tables' : tables'[m] = tables[m]
    BY <1>6, RestrictFacts
  <2>4. db' = GiveUp(flush)
    BY <1>6
  <2> HIDE DEF flush
  <2>5. /\ DOMAIN tables' \subseteq DOMAIN tables /\ (\A m \in db.version \cup Held : m \in DOMAIN tables')
        /\ (\A k \in Points : \A m \in FilesAt(Records, k) : m \in DOMAIN tables')
        /\ db.merge.output # 0 => db.merge.output \in DOMAIN tables'
    BY <1>5, <2>2, <2>3
  <2>6. flush.pending \subseteq db.pending /\ (db.merge.output # 0 => db.merge.output \in flush.pending)
    BY <2>1, <2>2
  <2> HIDE DEF n
  <2> QED BY <1>1, <1>3, <2>1, <2>3, <2>4, <2>5, <2>6, GiveUpKeeps
<1>7. CASE db.job = "none" /\ db.merge.output # 0 /\ db' = GiveUp(merge) /\ tables' = tables
  <2>1. /\ IsDb(merge) /\ merge.job = "merge" /\ merge.phase = db.phase
        /\ merge.version = db.version /\ merge.pinned = db.pinned
        /\ merge.log_number = db.log_number /\ merge.logfile = db.logfile
        /\ merge.next_file = db.next_file /\ merge.last_sequence = db.last_sequence
        /\ merge.manifest = db.manifest /\ merge.descriptor = db.descriptor /\ merge.mem = db.mem
        /\ merge.imm = db.imm /\ merge.has_imm = db.has_imm /\ merge.pending = db.pending
        /\ merge.bg_error = db.bg_error /\ merge.save_manifest = db.save_manifest
        /\ merge.edit = db.edit /\ merge.logs_left = db.logs_left /\ merge.step = db.step
        /\ merge.output = db.output /\ merge.merge = db.merge
    BY <1>4 DEF IsDb, DbNames
  <2>2. db' = GiveUp(merge)
    BY <1>7
  <2> HIDE DEF merge
  <2>3. /\ DOMAIN tables' \subseteq DOMAIN tables /\ (\A m \in DOMAIN tables' : tables'[m] = tables[m])
        /\ (\A m \in db.version \cup Held : m \in DOMAIN tables')
        /\ (\A k \in Points : \A m \in FilesAt(Records, k) : m \in DOMAIN tables')
    BY <1>5, <1>7
  <2>4. merge.pending \subseteq db.pending /\ merge.job # "flush"
    BY <2>1
  <2> QED BY <1>1, <1>3, <2>1, <2>2, <2>3, <2>4, GiveUpKeeps
<1> QED BY <1>2, <1>6, <1>7

LEMMA BackgroundFailsKeeps == FilesInv /\ LogAndApplyFails /\ db.job # "open" => FilesInv'
<1> SUFFICES ASSUME FilesInv, LogAndApplyFails, db.job # "open" PROVE FilesInv'
  OBVIOUS
<1>1. /\ UNCHANGED <<current, manifests, logs, tables, written, acked, synced, relied, bounds>>
      /\ db' = GiveUp(db) /\ db.step # "none"
  BY DEF LogAndApplyFails, history, promised
<1>2. db.job \in {"flush", "merge"}
  <2>1. db.job \in Jobs /\ db.phase \in Phases
    BY InvParts, DbFields
  <2>2. db.phase \in {"down", "new_db", "recover"} => db.step = "none"
    BY InvParts DEF ClosedOK, NewIncarnation
  <2>3. Busy => (db.job = "none" => db.step = "none")
    BY InvParts DEF BusyOK, NumbersOK
  <2> QED BY <1>1, <2>1, <2>2, <2>3 DEF Jobs, Phases, Busy
<1>3. db.phase = "open"
  BY <1>2, MergeIsOpen
<1>4. /\ Busy /\ NumbersOK /\ JobsOK /\ IsDb(db)
  BY <1>3, OpenFacts
<1>5. /\ db.version \subseteq DOMAIN tables /\ Held \subseteq DOMAIN tables
      /\ \A k \in Points : FilesAt(Records, k) \subseteq DOMAIN tables
      /\ db.merge.output # 0 => db.merge.output \in DOMAIN tables /\ db.merge.output \in db.pending
  BY <1>3, <1>4, BusyFacts DEF NumbersOK, JobsOK, TablesOK
<1>6. /\ DOMAIN tables' \subseteq DOMAIN tables /\ (\A m \in DOMAIN tables' : tables'[m] = tables[m])
      /\ (\A m \in db.version \cup Held : m \in DOMAIN tables')
      /\ (\A k \in Points : \A m \in FilesAt(Records, k) : m \in DOMAIN tables')
      /\ db.merge.output # 0 => db.merge.output \in DOMAIN tables' /\ db.merge.output \in db.pending
  BY <1>1, <1>5
<1> QED BY <1>1, <1>3, <1>4, <1>6, GiveUpKeeps

LEMMA StutterKeeps == FilesInv /\ UNCHANGED vars => FilesInv'
<1> SUFFICES ASSUME FilesInv, UNCHANGED vars PROVE FilesInv'
  OBVIOUS
<1>1. UNCHANGED <<current, manifests, logs, tables, db, written, acked, synced, relied, bounds>>
  BY DEF vars, diskVars, history, promised
<1>2. Records' = Records
  BY <1>1 DEF Records
<1>3. End' = End
  BY <1>2 DEF End
<1>4. Points' = Points
  BY <1>1, <1>3 DEF Points
<1>5. DiskTypeOK' /\ (db \in DbType)' /\ UpdatesOK'
  BY <1>1, InvParts DEF DiskTypeOK, UpdatesOK, Known
<1>6. DiskOK' /\ ClosedOK'
  BY <1>1, <1>2, <1>3, <1>4, InvParts DEF DiskOK, ClosedOK, GoodAt
<1>7. BusyOK'
  BY <1>1, <1>2, <1>3, <1>4, InvParts
     DEF BusyOK, Busy, NumbersOK, EditOK, ManifestOK, Applying, InManifest, Snapshot
<1>8. ReplayOK' /\ OpenOK' /\ JobsOK'
  <2>1. ReplayOK /\ OpenOK /\ JobsOK
    BY InvParts
  <2>2. ReplayOK'
    BY <1>1, <1>2, <1>3, <1>4, <2>1 DEF ReplayOK, InManifest, Applying
  <2>3. OpenOK'
    BY <1>1, <1>2, <1>3, <1>4, <2>1 DEF OpenOK, Contents
  <2>4. Held' = Held
    BY <1>1 DEF Held
  <2>5. JobsOK'
    BY <1>1, <1>2, <1>3, <1>4, <2>1, <2>4 DEF JobsOK
  <2> QED BY <2>2, <2>3, <2>5
<1> QED BY <1>5, <1>6, <1>7, <1>8 DEF FilesInv

-----------------------------------------------------------------------------
\* Unfinished records.  While none is appended behind them they are at the ends of their
\* files, and every file is read as it was written.

Marks == {"log", "manifest"} \X Nat \X Nat

\* In files of a kind, at most the last record is unfinished.
EndsOnly(T, kind, F) ==
    \A t \in T : t[1] = kind /\ t[2] \in DOMAIN F => t[3] >= Len(F[t[2]].records)

AtEnds == torn \subseteq Marks /\ EndsOnly(torn, "log", logs) /\ EndsOnly(torn, "manifest", manifests)

\* The lengths of files in a state that is reached.
Lengths(F) == \A n \in DOMAIN F : n \in Nat /\ Len(F[n].records) \in Nat

LEMMA LengthsHold ==
    ASSUME FilesInv
    PROVE  Lengths(logs) /\ Lengths(manifests)
<1>1. DiskTypeOK
  BY InvParts
<1>2. \A n \in DOMAIN logs : n \in Nat /\ logs[n].records \in Seq(AnyUpdate)
  BY <1>1 DEF DiskTypeOK, LogType
<1>3. \A n \in DOMAIN manifests : n \in Nat /\ manifests[n].records \in Seq(Edits)
  BY <1>1 DEF DiskTypeOK, ManifestType
<1> QED BY <1>2, <1>3 DEF Lengths

LEMMA SoundEnds ==
    ASSUME NEW kind, NEW F, EndsOnly(torn, kind, F), torn \subseteq Marks, NEW n \in DOMAIN F
    PROVE  Sound(kind, n, F[n].records)
<1>1. ASSUME NEW t \in torn, <<t[1], t[2]>> = <<kind, n>> PROVE t[3] >= Len(F[n].records)
  <2>1. t[1] = kind /\ t[2] = n
    BY <1>1
  <2> QED BY <2>1 DEF EndsOnly
<1> QED BY <1>1 DEF Sound

LEMMA IntactFollows ==
    ASSUME FilesInv, AtEnds
    PROVE  Intact
<1>1. \A n \in DOMAIN logs : Sound("log", n, logs[n].records)
  BY SoundEnds DEF AtEnds
<1>2. current \in DOMAIN manifests => Sound("manifest", current, manifests[current].records)
  BY SoundEnds DEF AtEnds
<1>3. \A n \in DOMAIN logs : Reads("log", n, logs[n].records) = {logs[n].records}
  BY <1>1 DEF Reads
<1>4. current \in DOMAIN manifests => ManifestReads = {manifests[current].records}
  BY <1>2 DEF ManifestReads, Reads
<1> QED BY <1>3, <1>4 DEF Intact, Records

\* Files that are as long as before, or gone.
LEMMA EndsStay ==
    ASSUME NEW T, NEW kind, NEW F, NEW G, EndsOnly(T, kind, F),
           \A n \in DOMAIN G : n \in DOMAIN F /\ G[n].records = F[n].records
    PROVE  EndsOnly(T, kind, G)
BY DEF EndsOnly

\* A file that is made.
LEMMA EndsMade ==
    ASSUME NEW kind, NEW F, NEW n, NEW v, EndsOnly(torn, kind, F), torn \subseteq Marks
    PROVE  EndsOnly(Fresh(kind, n), kind, Make(F, n, v))
<1>1. ASSUME NEW t \in Fresh(kind, n), t[1] = kind, t[2] \in DOMAIN Make(F, n, v)
      PROVE  t[3] >= Len(Make(F, n, v)[t[2]].records)
  <2>1. t \in torn /\ <<t[1], t[2]>> # <<kind, n>>
    BY DEF Fresh
  <2>2. t[2] # n
    BY <1>1, <2>1
  <2>3. t[2] \in DOMAIN F /\ Make(F, n, v)[t[2]] = F[t[2]]
    BY <1>1, <2>2 DEF Make
  <2> QED BY <1>1, <2>1, <2>3 DEF EndsOnly
<1> QED BY <1>1 DEF EndsOnly

LEMMA EndsFewer ==
    ASSUME NEW T, NEW U, NEW kind, NEW F, EndsOnly(T, kind, F), U \subseteq T
    PROVE  EndsOnly(U, kind, F)
BY DEF EndsOnly

\* A record that was begun.
LEMMA EndsBegun ==
    ASSUME NEW T, T \subseteq Marks, NEW kind, NEW F, EndsOnly(T, kind, F), NEW B,
           \A t \in B : t[1] = kind /\ t[2] \in DOMAIN F => t[3] = Len(F[t[2]].records),
           Lengths(F)
    PROVE  EndsOnly(T \cup B, kind, F)
<1>1. ASSUME NEW t \in B, t[1] = kind, t[2] \in DOMAIN F PROVE t[3] >= Len(F[t[2]].records)
  <2>1. t[3] = Len(F[t[2]].records) /\ Len(F[t[2]].records) \in Nat
    BY <1>1 DEF Lengths
  <2> QED BY <2>1
<1> QED BY <1>1 DEF EndsOnly

\* A record that is appended where none is unfinished.
LEMMA EndsAppended ==
    ASSUME NEW kind, NEW F, EndsOnly(torn, kind, F), torn \subseteq Marks, NEW n, NEW G, NEW u, NEW S, NEW w,
           G = [F EXCEPT ![n] = w], n \in DOMAIN F => F[n].records \in Seq(S) /\ u \in S,
           n \in DOMAIN F => w.records = Append(F[n].records, u),
           n \in DOMAIN F => ~TornBehind(kind, n, F[n].records)
    PROVE  EndsOnly(torn, kind, G)
<1>1. DOMAIN G = DOMAIN F /\ \A m \in DOMAIN F : G[m] = IF m = n THEN w ELSE F[m]
  OBVIOUS
<1>2. ASSUME NEW t \in torn, t[1] = kind, t[2] \in DOMAIN G PROVE t[3] >= Len(G[t[2]].records)
  <2>1. t[2] \in DOMAIN F /\ t[3] >= Len(F[t[2]].records)
    BY <1>1, <1>2 DEF EndsOnly
  <2>2. CASE t[2] # n
    BY <1>1, <2>1, <2>2
  <2>3. CASE t[2] = n
    <3> DEFINE s == F[n].records
               l == Len(s)
    <3>1. s \in Seq(S) /\ u \in S /\ G[n].records = Append(s, u) /\ <<kind, n, l>> \notin torn
      BY <1>1, <2>1, <2>3 DEF TornBehind
    <3>2. t \in {"log", "manifest"} \X Nat \X Nat
      BY DEF Marks
    <3>3. t = <<t[1], t[2], t[3]>> /\ t[3] \in Nat
      BY <3>2
    <3> HIDE DEF s
    <3>4. l \in Nat /\ Len(Append(s, u)) = l + 1
      BY <3>1, AppendFacts
    <3>5. t[3] # l
      BY <1>2, <2>3, <3>1, <3>3
    <3>6. t[3] >= l
      BY <2>1, <2>3 DEF s
    <3>7. t[3] >= l + 1
      BY <3>3, <3>4, <3>5, <3>6
    <3> QED BY <2>3, <3>1, <3>4, <3>7
  <2> QED BY <2>2, <2>3
<1> QED BY <1>2 DEF EndsOnly

\* Steps that leave logs, MANIFESTs and unfinished records alone, or drop files.
LEMMA EndsQuiet ==
    ASSUME AtEnds, torn' \subseteq torn,
           \A n \in DOMAIN logs' : n \in DOMAIN logs /\ logs'[n].records = logs[n].records,
           \A n \in DOMAIN manifests' : n \in DOMAIN manifests /\ manifests'[n].records = manifests[n].records
    PROVE  AtEnds'
<1>1. EndsOnly(torn, "log", logs') /\ EndsOnly(torn, "manifest", manifests')
  BY EndsStay DEF AtEnds
<1>2. EndsOnly(torn', "log", logs') /\ EndsOnly(torn', "manifest", manifests')
  BY <1>1, EndsFewer
<1> QED BY <1>2 DEF AtEnds

LEMMA EndsNewLog ==
    ASSUME AtEnds, NEW n, NEW v, logs' = Make(logs, n, v), torn' = Fresh("log", n), manifests' = manifests
    PROVE  AtEnds'
<1>1. Fresh("log", n) \subseteq torn
  BY DEF Fresh
<1>2. EndsOnly(Fresh("log", n), "log", Make(logs, n, v))
  BY EndsMade DEF AtEnds
<1>3. EndsOnly(Fresh("log", n), "manifest", manifests)
  BY <1>1, EndsFewer DEF AtEnds
<1> QED BY <1>1, <1>2, <1>3 DEF AtEnds

LEMMA EndsNewManifest ==
    ASSUME AtEnds, NEW n, NEW v, manifests' = Make(manifests, n, v), torn' = Fresh("manifest", n), logs' = logs
    PROVE  AtEnds'
<1>1. Fresh("manifest", n) \subseteq torn
  BY DEF Fresh
<1>2. EndsOnly(Fresh("manifest", n), "manifest", Make(manifests, n, v))
  BY EndsMade DEF AtEnds
<1>3. EndsOnly(Fresh("manifest", n), "log", logs)
  BY <1>1, EndsFewer DEF AtEnds
<1> QED BY <1>1, <1>2, <1>3 DEF AtEnds

\* The ends of files: where a record may have been begun.
AtEndOf(B, kind, F) == \A t \in B : t[1] = kind /\ t[2] \in DOMAIN F => t[3] = Len(F[t[2]].records)

LEMMA EndsStarted ==
    ASSUME FilesInv, AtEnds, NEW B, B \subseteq Marks, AtEndOf(B, "log", logs), AtEndOf(B, "manifest", manifests),
           torn' = torn \cup B, logs' = logs,
           \A n \in DOMAIN manifests' : n \in DOMAIN manifests /\ manifests'[n].records = manifests[n].records
    PROVE  AtEnds'
<1>1. Lengths(logs) /\ Lengths(manifests)
  BY LengthsHold
<1>2. torn \subseteq Marks /\ EndsOnly(torn, "log", logs) /\ EndsOnly(torn, "manifest", manifests)
  BY DEF AtEnds
<1>3. EndsOnly(torn \cup B, "log", logs) /\ EndsOnly(torn \cup B, "manifest", manifests)
  BY <1>1, <1>2, EndsBegun DEF AtEndOf
<1>4. EndsOnly(torn \cup B, "manifest", manifests')
  BY <1>3, EndsStay
<1> QED BY <1>2, <1>3, <1>4 DEF AtEnds

LEMMA MarkOf ==
    ASSUME NEW n \in Nat, NEW l \in Nat
    PROVE  /\ <<"log", n, l>> \in Marks /\ <<"log", n, l>>[1] = "log" /\ <<"log", n, l>>[2] = n /\ <<"log", n, l>>[3] = l
           /\ <<"manifest", n, l>> \in Marks /\ <<"manifest", n, l>>[1] = "manifest"
           /\ <<"manifest", n, l>>[2] = n /\ <<"manifest", n, l>>[3] = l
BY DEF Marks

LEMMA LogEnd ==
    ASSUME FilesInv, db.phase = "open"
    PROVE  LET B == {<<"log", db.logfile, Len(logs[db.logfile].records)>>}
           IN  B \subseteq Marks /\ AtEndOf(B, "log", logs) /\ AtEndOf(B, "manifest", manifests)
<1> DEFINE n == db.logfile
           l == Len(logs[n].records)
<1>1. n \in DOMAIN logs /\ n \in Nat
  BY OpenFacts
<1>2. l \in Nat
  BY <1>1, LengthsHold DEF Lengths
<1>3. <<"log", n, l>> \in Marks /\ <<"log", n, l>>[1] = "log" /\ <<"log", n, l>>[2] = n /\ <<"log", n, l>>[3] = l
  BY <1>1, <1>2, MarkOf
<1>4. \A t \in {<<"log", n, l>>} : t \in Marks /\ t[1] = "log" /\ t[2] = n /\ t[3] = Len(logs[t[2]].records)
  BY <1>3
<1> HIDE DEF n, l
<1>5. AtEndOf({<<"log", n, l>>}, "log", logs) /\ AtEndOf({<<"log", n, l>>}, "manifest", manifests)
  BY <1>4 DEF AtEndOf
<1> QED BY <1>4, <1>5 DEF n, l

LEMMA ManifestEnd ==
    ASSUME FilesInv, db.step = "append"
    PROVE  LET B == {<<"manifest", db.manifest, Len(manifests[db.manifest].records)>>}
           IN  /\ B \subseteq Marks /\ AtEndOf(B, "log", logs) /\ AtEndOf(B, "manifest", manifests)
               /\ db.manifest \in DOMAIN manifests /\ db.edit \in Edits
<1> DEFINE n == db.manifest
           l == Len(manifests[n].records)
<1>1. Busy
  BY ApplyingFacts DEF Applying
<1>2. ManifestOK /\ current \in DOMAIN manifests /\ n \in Nat /\ db.edit \in Edits
  BY <1>1, BusyFacts, RecordsFacts, InvParts, DbFields
<1>3. n \in DOMAIN manifests
  BY <1>2 DEF ManifestOK
<1>4. l \in Nat
  BY <1>3, LengthsHold DEF Lengths
<1>5. <<"manifest", n, l>> \in Marks /\ <<"manifest", n, l>>[1] = "manifest" /\ <<"manifest", n, l>>[2] = n /\ <<"manifest", n, l>>[3] = l
  BY <1>2, <1>4, MarkOf
<1>6. \A t \in {<<"manifest", n, l>>} : t \in Marks /\ t[1] = "manifest" /\ t[2] = n /\ t[3] = Len(manifests[t[2]].records)
  BY <1>5
<1> HIDE DEF n, l
<1>7. AtEndOf({<<"manifest", n, l>>}, "log", logs) /\ AtEndOf({<<"manifest", n, l>>}, "manifest", manifests)
  BY <1>6 DEF AtEndOf
<1> QED BY <1>2, <1>3, <1>6, <1>7 DEF n, l

LEMMA UnderWayEnds ==
    ASSUME FilesInv, NEW B, B \subseteq UnderWay
    PROVE  B \subseteq Marks /\ AtEndOf(B, "log", logs) /\ AtEndOf(B, "manifest", manifests)
<1> DEFINE L == {<<"log", db.logfile, Len(logs[db.logfile].records)>>}
           M == {<<"manifest", db.manifest, Len(manifests[db.manifest].records)>>}
<1>1. WriteStarts => L \subseteq Marks /\ AtEndOf(L, "log", logs) /\ AtEndOf(L, "manifest", manifests)
  BY LogEnd DEF WriteStarts
<1>2. db.step = "append" => M \subseteq Marks /\ AtEndOf(M, "log", logs) /\ AtEndOf(M, "manifest", manifests)
  BY ManifestEnd
<1>3. UnderWay = (IF WriteStarts THEN L ELSE {}) \cup (IF db.step = "append" THEN M ELSE {})
  BY DEF UnderWay
<1> HIDE DEF L, M
<1>4. \A t \in B : (WriteStarts /\ t \in L) \/ (db.step = "append" /\ t \in M)
  BY <1>3
<1> QED BY <1>1, <1>2, <1>4 DEF AtEndOf

LEMMA AppendLogEnds ==
    ASSUME ~TornAppends, FilesInv, AtEnds, WriteStarts, NEW u \in AnyUpdate, NEW k,
           logs' = [logs EXCEPT ![db.logfile] = [records |-> Append(logs[db.logfile].records, u), synced |-> k]],
           torn' = torn, manifests' = manifests
    PROVE  AtEnds'
<1> DEFINE n == db.logfile
           w == [records |-> Append(logs[n].records, u), synced |-> k]
<1>1. n \in DOMAIN logs /\ ~TornBehind("log", n, logs[n].records)
  BY OpenFacts DEF WriteStarts, MayAppend
<1>2. logs[n].records \in Seq(AnyUpdate)
  BY <1>1, InvParts DEF DiskTypeOK, LogType
<1>3. w.records = Append(logs[n].records, u) /\ logs' = [logs EXCEPT ![n] = w]
  OBVIOUS
<1> HIDE DEF n, w
<1>4. EndsOnly(torn, "log", logs')
  BY <1>1, <1>2, <1>3, EndsAppended DEF AtEnds
<1> QED BY <1>4 DEF AtEnds

LEMMA AppendEditEnds ==
    ASSUME ~TornAppends, FilesInv, AtEnds, AppendEdit
    PROVE  AtEnds'
<1> DEFINE n == db.manifest
           w == [manifests[n] EXCEPT !.records = Append(manifests[n].records, db.edit)]
<1>1. n \in DOMAIN manifests /\ db.edit \in Edits
  BY ManifestEnd DEF AppendEdit
<1>2. manifests[n] \in ManifestType
  BY <1>1, InvParts DEF DiskTypeOK
<1>3. manifests[n].records \in Seq(Edits) /\ w.records = Append(manifests[n].records, db.edit)
  BY <1>2 DEF ManifestType
<1>4. /\ manifests' = [manifests EXCEPT ![n] = w] /\ torn' = torn /\ logs' = logs
      /\ ~TornBehind("manifest", n, manifests[n].records)
  BY DEF AppendEdit, MayAppend
<1> HIDE DEF n, w
<1>5. EndsOnly(torn, "manifest", manifests')
  BY <1>1, <1>3, <1>4, EndsAppended DEF AtEnds
<1> QED BY <1>4, <1>5 DEF AtEnds

LEMMA WriteEnds ==
    ASSUME ~TornAppends, FilesInv, AtEnds, (\E sync \in BOOLEAN : Write(sync)) \/ SyncFails
    PROVE  AtEnds'
<1> DEFINE n == db.logfile
           u == [id |-> written + 1, seq |-> db.last_sequence + 1]
           r == Append(logs[n].records, u)
<1>1. WriteStarts /\ torn' = torn /\ manifests' = manifests
  BY DEF Write, SyncFails
<1>2. n \in DOMAIN logs /\ written \in Nat /\ db.last_sequence \in Nat
  BY <1>1, OpenFacts DEF WriteStarts
<1>3. u \in AnyUpdate
  BY <1>2 DEF AnyUpdate
<1>4. logs[n] \in LogType
  BY <1>2, InvParts DEF DiskTypeOK
<1>5. CASE SyncFails
  <2>1. [logs[n] EXCEPT !.records = r] = [records |-> r, synced |-> logs[n].synced]
    <3> HIDE DEF r
    <3> QED BY <1>4 DEF LogType
  <2>2. logs' = [logs EXCEPT ![n] = [logs[n] EXCEPT !.records = r]]
    BY <1>2, <1>5 DEF SyncFails
  <2>3. logs' = [logs EXCEPT ![n] = [records |-> r, synced |-> logs[n].synced]]
    <3> HIDE DEF r
    <3> QED BY <2>1, <2>2
  <2> QED BY <1>1, <1>3, <2>3, AppendLogEnds
<1>6. CASE \E sync \in BOOLEAN : Write(sync)
  <2>1. PICK sync \in BOOLEAN : Write(sync)
    BY <1>6
  <2>2. logs' = [logs EXCEPT ![n] = [records |-> r, synced |-> IF sync THEN Len(r) ELSE @.synced]]
    BY <2>1 DEF Write
  <2>3. logs' = [logs EXCEPT ![n] = [records |-> r, synced |-> IF sync THEN Len(r) ELSE logs[n].synced]]
    <3> HIDE DEF r
    <3> QED BY <1>2, <2>2
  <2> QED BY <1>1, <1>3, <2>3, AppendLogEnds
<1> QED BY <1>5, <1>6

LEMMA DroppedEnds ==
    ASSUME AtEnds, NEW n, logs' = logs, torn' = torn, manifests' = Restrict(manifests, DOMAIN manifests \ {n})
    PROVE  AtEnds'
<1>1. \A k \in DOMAIN manifests' : k \in DOMAIN manifests /\ manifests'[k].records = manifests[k].records
  BY RestrictFacts
<1> QED BY <1>1, EndsQuiet

LEMMA CollectedEnds ==
    ASSUME AtEnds, NEW d, DeleteObsoleteFiles(d)
    PROVE  AtEnds'
<1>1. \A k \in DOMAIN manifests' : k \in DOMAIN manifests /\ manifests'[k].records = manifests[k].records
  BY CollectFacts DEF Kept
<1>2. \A k \in DOMAIN logs' : k \in DOMAIN logs /\ logs'[k].records = logs[k].records
  BY CollectFacts DEF Kept
<1>3. torn' = torn
  BY DEF DeleteObsoleteFiles, diskVars
<1> QED BY <1>1, <1>2, <1>3, EndsQuiet

LEMMA FailedEnds ==
    ASSUME FilesInv, AtEnds, LogAndApplyFails
    PROVE  AtEnds'
<1> DEFINE B == {<<"manifest", db.manifest, Len(manifests[db.manifest].records)>>}
<1>1. logs' = logs /\ torn' = IF db.step = "append" /\ db.descriptor THEN torn \cup B ELSE torn
  BY DEF LogAndApplyFails
<1>2. \A k \in DOMAIN manifests' : k \in DOMAIN manifests /\ manifests'[k].records = manifests[k].records
  <2>1. manifests' = manifests \/ manifests' = Restrict(manifests, DOMAIN manifests \ {db.manifest})
    BY DEF LogAndApplyFails
  <2> QED BY <2>1, RestrictFacts
<1>3. db.step = "append" => B \subseteq Marks /\ AtEndOf(B, "log", logs) /\ AtEndOf(B, "manifest", manifests)
  BY ManifestEnd
<1> HIDE DEF B
<1>4. CASE db.step = "append" /\ db.descriptor
  BY <1>1, <1>2, <1>3, <1>4, EndsStarted
<1>5. CASE ~(db.step = "append" /\ db.descriptor)
  BY <1>1, <1>2, <1>5, EndsQuiet
<1> QED BY <1>4, <1>5

LEMMA WriteFailsEnds ==
    ASSUME FilesInv, AtEnds, WriteFails
    PROVE  AtEnds'
<1> DEFINE B == {<<"log", db.logfile, Len(logs[db.logfile].records)>>}
<1>1. db.phase = "open" /\ torn' = torn \cup B /\ logs' = logs /\ manifests' = manifests
  BY DEF WriteFails, WriteStarts
<1>2. B \subseteq Marks /\ AtEndOf(B, "log", logs) /\ AtEndOf(B, "manifest", manifests)
  BY <1>1, LogEnd
<1> HIDE DEF B
<1> QED BY <1>1, <1>2, EndsStarted

LEMMA EndProcessEnds ==
    ASSUME FilesInv, AtEnds, EndProcess
    PROVE  AtEnds'
<1>1. PICK B \in SUBSET UnderWay : torn' = torn \cup B
  BY DEF EndProcess
<1>2. logs' = logs /\ manifests' = manifests
  BY DEF EndProcess
<1>3. B \subseteq Marks /\ AtEndOf(B, "log", logs) /\ AtEndOf(B, "manifest", manifests)
  BY UnderWayEnds
<1> QED BY <1>1, <1>2, <1>3, EndsStarted

\* After a crash of the machine only the ends of files, as they are left, are unfinished.
LEMMA CutEnds ==
    ASSUME NEW f, NEW g \in Cut(f), NEW S,
           \A n \in DOMAIN f : n \in Nat /\ f[n].records \in Seq(S) /\ f[n].synced \in Nat,
           NEW kind \in {"log", "manifest"}, torn \subseteq Marks, EndsOnly(torn, kind, f)
    PROVE  /\ Behind(kind, g) = {} /\ CutRecords(kind, f, g) \subseteq Marks
           /\ \A t \in CutRecords(kind, f, g) : t[1] = kind /\ t[2] \in DOMAIN g /\ t[3] >= Len(g[t[2]].records)
<1>1. DOMAIN g = DOMAIN f
  BY CutFacts
<1>2. ASSUME NEW n \in DOMAIN f
      PROVE  Len(g[n].records) \in Nat /\ Len(g[n].records) <= Len(f[n].records) /\ Len(f[n].records) \in Nat
  <2> DEFINE s == f[n].records
             l == g[n].synced
  <2>1. s \in Seq(S) /\ l \in Nat /\ l <= Len(s) /\ g[n] = [records |-> SubSeq(s, 1, l), synced |-> l]
    BY CutFacts
  <2> HIDE DEF s, l
  <2>2. g[n].records = SubSeq(s, 1, l) /\ Len(s) \in Nat
    BY <2>1
  <2>3. l \in 0 .. Len(s)
    BY <2>1, <2>2
  <2>4. Len(g[n].records) = l
    BY <2>1, <2>2, <2>3, PrefixFacts
  <2> QED BY <2>1, <2>2, <2>4 DEF s
<1>3. ASSUME NEW t \in Behind(kind, g) PROVE FALSE
  <2>1. t \in torn /\ t[1] = kind /\ t[2] \in DOMAIN f /\ t[3] < Len(g[t[2]].records)
    BY <1>1 DEF Behind
  <2>2. t[3] >= Len(f[t[2]].records)
    BY <2>1 DEF EndsOnly
  <2>3. t[3] \in Nat
    BY <2>1 DEF Marks
  <2> QED BY <1>2, <2>1, <2>2, <2>3
<1>4. ASSUME NEW t \in CutRecords(kind, f, g)
      PROVE  t \in Marks /\ t[1] = kind /\ t[2] \in DOMAIN g /\ t[3] >= Len(g[t[2]].records)
  <2>1. PICK n \in DOMAIN f : t = <<kind, n, Len(g[n].records)>>
    BY DEF CutRecords
  <2> DEFINE l == Len(g[n].records)
  <2>2. n \in Nat /\ l \in Nat /\ t = <<kind, n, l>>
    BY <1>2, <2>1
  <2>3. t \in Marks /\ t[1] = kind /\ t[2] = n /\ t[3] = l
    <3> HIDE DEF l
    <3> QED BY <2>2, MarkOf
  <2> QED BY <1>1, <2>2, <2>3
<1> QED BY <1>3, <1>4

LEMMA MachineCrashEnds ==
    ASSUME FilesInv, AtEnds, MachineCrash
    PROVE  AtEnds'
<1> DEFINE L == CutRecords("log", logs, logs')
           M == CutRecords("manifest", manifests, manifests')
<1>1. logs' \in Cut(logs) /\ manifests' \in Cut(manifests)
  BY DEF MachineCrash
<1>2. PICK B \in SUBSET (L \cup M) : torn' = Behind("log", logs') \cup Behind("manifest", manifests') \cup B
  BY DEF MachineCrash
<1>3. \A n \in DOMAIN logs : n \in Nat /\ logs[n].records \in Seq(AnyUpdate) /\ logs[n].synced \in Nat
  BY InvParts DEF DiskTypeOK, LogType
<1>4. \A n \in DOMAIN manifests : n \in Nat /\ manifests[n].records \in Seq(Edits) /\ manifests[n].synced \in Nat
  BY InvParts DEF DiskTypeOK, ManifestType
<1>5. /\ Behind("log", logs') = {} /\ L \subseteq Marks
      /\ \A t \in L : t[1] = "log" /\ t[2] \in DOMAIN logs' /\ t[3] >= Len(logs'[t[2]].records)
  BY <1>1, <1>3, CutEnds DEF AtEnds
<1>6. /\ Behind("manifest", manifests') = {} /\ M \subseteq Marks
      /\ \A t \in M : t[1] = "manifest" /\ t[2] \in DOMAIN manifests' /\ t[3] >= Len(manifests'[t[2]].records)
  BY <1>1, <1>4, CutEnds DEF AtEnds
<1> HIDE DEF L, M
<1>7. torn' = B /\ B \subseteq L \cup M
  BY <1>2, <1>5, <1>6
<1> QED BY <1>5, <1>6, <1>7 DEF AtEnds, EndsOnly

\* A sync changes how much of a file is synced, not its records.
LEMMA SyncEnds ==
    ASSUME FilesInv, AtEnds, SyncManifest
    PROVE  AtEnds'
<1> DEFINE n == db.manifest
           l == Len(manifests[n].records)
<1>1. logs' = logs /\ torn' = torn /\ manifests' = [manifests EXCEPT ![n].synced = l]
  BY DEF SyncManifest
<1> HIDE DEF n, l
<1>2. DOMAIN manifests' = DOMAIN manifests
  BY <1>1
<1>3. ASSUME NEW k \in DOMAIN manifests PROVE manifests'[k].records = manifests[k].records
  <2>1. manifests[k] \in ManifestType
    BY InvParts DEF DiskTypeOK
  <2>2. manifests'[k] = IF k = n THEN [manifests[k] EXCEPT !.synced = l] ELSE manifests[k]
    BY <1>1
  <2>3. [manifests[k] EXCEPT !.synced = l].records = manifests[k].records
    BY <2>1 DEF ManifestType
  <2> QED BY <2>2, <2>3
<1> QED BY <1>1, <1>2, <1>3, EndsQuiet

LEMMA DestroyEnds ==
    ASSUME DestroyDB
    PROVE  AtEnds'
<1>1. torn' = {}
  BY DEF DestroyDB
<1> QED BY <1>1 DEF AtEnds, EndsOnly

LEMMA OpeningEnds ==
    ASSUME AtEnds, Opening
    PROVE  AtEnds'
<1>1. CASE NewDB
  <2>1. manifests' = Make(manifests, 1, File(<<NewDBEdit>>)) /\ torn' = Fresh("manifest", 1) /\ logs' = logs
    BY <1>1 DEF NewDB
  <2> QED BY <2>1, EndsNewManifest
<1>2. CASE NewDBCurrent \/ Recover \/ RecoverLogFile
  <2>1. logs' = logs /\ manifests' = manifests /\ torn' = torn
    BY <1>2 DEF NewDBCurrent, Recover, RecoverLogFile, diskVars
  <2> QED BY <2>1, EndsQuiet
<1>3. CASE OpenLog
  <2> DEFINE fresh == db.logfile = 0
             n == IF fresh THEN db.next_file ELSE db.logfile
  <2>1. /\ logs' = IF fresh THEN Make(logs, n, File(<<>>)) ELSE logs
        /\ torn' = IF fresh THEN Fresh("log", n) ELSE torn
        /\ manifests' = manifests
    BY <1>3 DEF OpenLog
  <2> HIDE DEF fresh, n
  <2>2. CASE fresh
    BY <2>1, <2>2, EndsNewLog
  <2>3. CASE ~fresh
    BY <2>1, <2>3, EndsQuiet
  <2> QED BY <2>2, <2>3
<1> QED BY <1>1, <1>2, <1>3 DEF Opening

LEMMA LogAndApplyEnds ==
    ASSUME ~TornAppends, FilesInv, AtEnds, LogAndApply
    PROVE  AtEnds'
<1>1. CASE CreateManifest
  <2>1. /\ manifests' = Make(manifests, db.manifest, File(WriteSnapshot)) /\ logs' = logs
        /\ torn' = Fresh("manifest", db.manifest)
    BY <1>1 DEF CreateManifest
  <2> QED BY <2>1, EndsNewManifest
<1>2. CASE SetCurrentFile
  <2>1. logs' = logs /\ manifests' = manifests /\ torn' = torn
    BY <1>2 DEF SetCurrentFile
  <2> QED BY <2>1, EndsQuiet
<1>3. CASE Install
  BY <1>3, CollectedEnds DEF Install
<1>4. CASE Opened
  BY <1>4, CollectedEnds DEF Opened
<1> QED BY <1>1, <1>2, <1>3, <1>4, AppendEditEnds, SyncEnds DEF LogAndApply

LEMMA ApplicationEnds ==
    ASSUME ~TornAppends, FilesInv, AtEnds, Application \/ Background
    PROVE  AtEnds'
<1>1. CASE SwitchMemTable
  <2>1. logs' = Make(logs, db.next_file, File(<<>>)) /\ torn' = Fresh("log", db.next_file) /\ manifests' = manifests
    BY <1>1 DEF SwitchMemTable
  <2> QED BY <2>1, EndsNewLog
<1>2. CASE Background \/ NewIterator \/ \E i \in DOMAIN db.pinned : DeleteIterator(i)
  <2>1. logs' = logs /\ manifests' = manifests /\ torn' = torn
    BY <1>2 DEF Background, StartFlush, FinishFlush, FinishMerge, StartMerge, NewIterator, DeleteIterator, diskVars
  <2> QED BY <2>1, EndsQuiet
<1> QED BY <1>1, <1>2, WriteEnds DEF Application

LEMMA FailuresEnds ==
    ASSUME ~TornAppends, FilesInv, AtEnds, Failures
    PROVE  AtEnds'
<1>1. CASE NewDBFails
  <2>1. logs' = logs /\ torn' = torn /\ manifests' = Restrict(manifests, DOMAIN manifests \ {1})
    BY <1>1 DEF NewDBFails
  <2> QED BY <2>1, DroppedEnds
<1>2. CASE TableFails
  <2>1. logs' = logs /\ manifests' = manifests /\ torn' = torn
    BY <1>2 DEF TableFails
  <2> QED BY <2>1, EndsQuiet
<1> QED BY <1>1, <1>2, FailedEnds, WriteEnds, WriteFailsEnds, EndProcessEnds, MachineCrashEnds, DestroyEnds DEF Failures

LEMMA EndsKeep ==
    ASSUME ~TornAppends, FilesInv, AtEnds, [Next]_vars
    PROVE  AtEnds'
<1>1. CASE UNCHANGED vars
  <2>1. logs' = logs /\ manifests' = manifests /\ torn' = torn
    BY <1>1 DEF vars, diskVars
  <2> QED BY <2>1, EndsQuiet
<1> QED BY <1>1, OpeningEnds, LogAndApplyEnds, ApplicationEnds, FailuresEnds DEF Next

LEMMA EndsInit == Init => AtEnds
BY DEF Init, AtEnds, EndsOnly

-----------------------------------------------------------------------------
\* The invariant, and what follows from it.

LEMMA StepKeeps ==
    ASSUME ~UnsyncedCrashes, FilesInv, Intact, [Next]_vars
    PROVE  FilesInv'
<1>1. CASE Opening
  BY <1>1, NewDBKeeps, NewDBCurrentKeeps, RecoverKeeps, RecoverLogFileKeeps, OpenLogKeeps DEF Opening
<1>2. CASE LogAndApply
  BY <1>2, CreateManifestKeeps, AppendEditKeeps, SyncManifestKeeps, SetCurrentFileKeeps, InstallKeeps, OpenedKeeps
     DEF LogAndApply
<1>3. CASE Background
  BY <1>3, StartFlushKeeps, FinishFlushKeeps, FinishMergeKeeps, StartMergeKeeps DEF Background
<1>4. CASE Application
  BY <1>4, WriteKeeps, SwitchMemTableKeeps, NewIteratorKeeps, DeleteIteratorKeeps DEF Application
<1>5. CASE Failures
  BY <1>5, OpenFailsKeeps, BackgroundFailsKeeps, NewDBFailsKeeps, TableFailsKeeps, SyncFailsKeeps, WriteFailsKeeps,
     EndProcessKeeps, MachineCrashKeeps, DestroyDBKeeps DEF Failures
<1>6. CASE UNCHANGED vars
  BY <1>6, StutterKeeps
<1> QED BY <1>1, <1>2, <1>3, <1>4, <1>5, <1>6 DEF Next

\* FilesInv alone is not inductive: what Recover finds are the records that were written only
\* while every file is read as it was written (Intact), and that follows from AtEnds.
LEMMA InvHolds ==
    ASSUME ~UnsyncedCrashes, ~TornAppends
    PROVE  Spec => [](FilesInv /\ AtEnds)
<1>1. Init => FilesInv /\ AtEnds
  BY InitKeeps, EndsInit
<1>2. FilesInv /\ AtEnds /\ [Next]_vars => (FilesInv /\ AtEnds)'
  <2> SUFFICES ASSUME FilesInv, AtEnds, [Next]_vars PROVE FilesInv' /\ AtEnds'
    OBVIOUS
  <2>1. FilesInv'
    BY IntactFollows, StepKeeps
  <2>2. AtEnds'
    BY EndsKeep
  <2> QED BY <2>1, <2>2
<1> QED BY <1>1, <1>2, PTL DEF Spec

LEMMA NeededFollows == FilesInv => NeededFilesExist
<1> SUFFICES ASSUME FilesInv, db.phase = "open" PROVE NeededFilesExist
  BY DEF NeededFilesExist
<1>1. NumbersOK /\ JobsOK /\ db.logfile \in DOMAIN logs /\ current # 0
  BY OpenFacts
<1>2. TablesOK(tables, db.version) /\ TablesOK(tables, Held) /\ db.merge.inputs \subseteq db.version
  BY <1>1 DEF NumbersOK, JobsOK, TablesOK
<1>3. db.merge.output # 0 => db.merge.output \in DOMAIN tables
  BY <1>1 DEF JobsOK
<1>4. current \in DOMAIN manifests
  BY <1>1, RecordsFacts
<1> QED BY <1>1, <1>2, <1>3, <1>4 DEF NeededFilesExist, TablesOK, Held

LEMMA SequenceFollows == FilesInv => SequenceAhead
<1> SUFFICES ASSUME FilesInv, db.phase = "open" PROVE SequenceAhead
  BY DEF SequenceAhead
<1>1. NumbersOK
  BY OpenFacts
<1>2. Data(tables, db.version) \subseteq Data(tables, db.version \cup db.edit.added)
  BY DataUnion
<1>3. Contents = db.mem \cup db.imm \cup Data(tables, db.version)
  BY DEF Contents, Data
<1> QED BY <1>1, <1>2, <1>3 DEF NumbersOK, SequenceAhead, SeqsBelow

LEMMA OpensFollows == FilesInv => OpensAgain
BY InvParts, DbFields DEF OpensAgain, Phases

LEMMA SyncedFollows == FilesInv => SyncedIsHeld
BY InvParts DEF DiskTypeOK, OpenOK, SyncedIsHeld

\* While the machine does not crash on records of a MANIFEST that were never synced, and no
\* record is appended behind one that was not finished, no file that an open database needs is
\* missing: the tables of its version, of the versions that
\* iterators hold and of the compaction under way, its log, and the MANIFEST that CURRENT
\* names.  DeleteObsoleteFiles, failed flushes and new file numbers touch none of them.
THEOREM NeededFilesStay ==
    ASSUME ~UnsyncedCrashes, ~TornAppends
    PROVE  Spec => []NeededFilesExist
BY InvHolds, NeededFollows, PTL

\* Under the same assumptions, the sequence number that a recovery leaves in the VersionSet,
\* and the ones of later writes, are at or above those of all updates that reads find:
\* RecoverLogFile and LogAndApply never fall behind the logs and tables.
THEOREM SequencesGoOn ==
    ASSUME ~UnsyncedCrashes, ~TornAppends
    PROVE  Spec => []SequenceAhead
BY InvHolds, SequenceFollows, PTL

\* Under the same assumptions, DB::Open never fails for what it finds: CURRENT names a
\* MANIFEST whose records have all numbers, and every table they leave is there.
THEOREM OpenSucceeds ==
    ASSUME ~UnsyncedCrashes, ~TornAppends
    PROVE  Spec => []OpensAgain
BY InvHolds, OpensFollows, PTL

\* Under the same assumptions, a database that is open holds every update whose write was
\* acknowledged after a sync, whatever flushes, compactions, failures and crashes came between.
THEOREM SyncedStays ==
    ASSUME ~UnsyncedCrashes, ~TornAppends
    PROVE  Spec => []SyncedIsHeld
BY InvHolds, SyncedFollows, PTL

-----------------------------------------------------------------------------
\* The refinement of DurableStore: what a step does to the updates that an open database holds.

\* Nothing.
Stays ==
    /\ db'.phase = "open" <=> db.phase = "open"
    /\ db.phase = "open" => Contents' = Contents
    /\ UNCHANGED <<acked, synced>>

LEMMA StaysStutters == Stays => UNCHANGED Store!vars
BY DEF Stays, Store!vars

LEMMA ContentsParts == Contents = db.mem \cup db.imm \cup Data(tables, db.version)
BY DEF Contents, Data

LEMMA SameContents ==
    ASSUME db'.phase = db.phase, db'.mem = db.mem, db'.imm = db.imm, db'.version = db.version,
           db.phase = "open" => KeptTables(tables, tables', db.version), UNCHANGED <<acked, synced>>
    PROVE  Stays
<1>1. Contents' = db'.mem \cup db'.imm \cup Data(tables', db'.version)
  BY DEF Contents, Data
<1>2. db.phase = "open" => Data(tables', db.version) = Data(tables, db.version)
  BY KeptFacts
<1> QED BY <1>1, <1>2, ContentsParts DEF Stays

LEMMA SameTables ==
    ASSUME FilesInv, tables' = tables
    PROVE  db.phase = "open" => KeptTables(tables, tables', db.version)
<1> SUFFICES ASSUME db.phase = "open" PROVE KeptTables(tables, tables', db.version)
  OBVIOUS
<1>1. TablesOK(tables, db.version)
  BY OpenFacts DEF NumbersOK, TablesOK
<1> QED BY <1>1 DEF KeptTables, TablesOK

\* Updates that are known may be in a store.
LEMMA ContentsTyped ==
    ASSUME FilesInv, db.phase = "open"
    PROVE  Contents \subseteq Updates /\ Known(Contents)
<1>1. DiskTypeOK /\ UpdatesOK /\ db \in DbType /\ NumbersOK /\ written \in Nat
  BY InvParts, OpenFacts
<1>2. db.version \subseteq DOMAIN tables
  BY <1>1 DEF NumbersOK, TablesOK
<1>3. Data(tables, db.version) \subseteq AnyUpdate /\ Known(Data(tables, db.version))
  BY <1>1, <1>2 DEF DiskTypeOK, UpdatesOK, Known, Data, TableType
<1>4. db.mem \subseteq AnyUpdate /\ db.imm \subseteq AnyUpdate /\ Known(db.mem) /\ Known(db.imm)
  BY <1>1, DbFields DEF UpdatesOK
<1>5. Contents \subseteq AnyUpdate /\ Known(Contents)
  BY <1>3, <1>4, ContentsParts DEF Known
<1>6. written <= MaxUpdates /\ MaxUpdates \in Nat
  <2>1. written <= bounds.updates /\ bounds.updates \in 0 .. MaxUpdates
    BY <1>1 DEF UpdatesOK, Scenario
  <2> QED BY <1>1, <2>1, FilesAssumption
<1>7. \A u \in AnyUpdate : u.id \in 1 .. written /\ u.seq \in 1 .. written => u \in Updates
  BY <1>1, <1>6 DEF AnyUpdate, Updates
<1> QED BY <1>5, <1>7 DEF Known

LEMMA ClosedStays ==
    ASSUME FilesInv, Intact, db \in DbType,
           NewDB \/ NewDBCurrent \/ Recover \/ RecoverLogFile \/ OpenLog \/ NewDBFails \/ (LogAndApplyFails /\ db.job = "open")
    PROVE  Stays
<1> SUFFICES db.phase # "open" /\ db'.phase # "open" /\ UNCHANGED <<acked, synced>>
  BY DEF Stays
<1>0. IsDb(db)
  BY DbIsDb
<1>1. CASE NewDB
  BY <1>0, <1>1 DEF NewDB, history, promised, IsDb, DbNames
<1>2. CASE NewDBCurrent
  BY <1>0, <1>2 DEF NewDBCurrent, promised, IsDb, DbNames
<1>3. CASE Recover
  BY <1>3, RecoverKeeps DEF Replays
<1>4. CASE RecoverLogFile
  BY <1>4, RecoverLogFileKeeps DEF Replays
<1>5. CASE OpenLog
  <2>1. db.phase = "replay" /\ UNCHANGED <<acked, synced>>
    BY <1>5 DEF OpenLog, history, promised
  <2>2. db'.phase = db.phase
    BY <1>0, <1>5 DEF OpenLog, StartLogAndApply, IsDb, DbNames
  <2> QED BY <2>1, <2>2
<1>6. CASE NewDBFails
  BY <1>6 DEF NewDBFails, history, promised, NewIncarnation
<1>7. CASE LogAndApplyFails /\ db.job = "open"
  <2>1. db.phase # "open"
    BY <1>7, InvParts DEF OpenOK
  <2> QED BY <1>7, <2>1 DEF LogAndApplyFails, history, promised, NewIncarnation
<1> QED BY <1>1, <1>2, <1>3, <1>4, <1>5, <1>6, <1>7

LEMMA QuietStays ==
    ASSUME FilesInv, db \in DbType,
           \/ CreateManifest \/ AppendEdit \/ SyncManifest \/ SetCurrentFile \/ NewIterator \/ SyncFails \/ WriteFails
           \/ \E i \in DOMAIN db.pinned : DeleteIterator(i)
    PROVE  Stays
<1>0. IsDb(db)
  BY DbIsDb
<1> SUFFICES /\ db'.phase = db.phase /\ db'.mem = db.mem /\ db'.imm = db.imm /\ db'.version = db.version
             /\ tables' = tables /\ UNCHANGED <<acked, synced>>
  BY SameContents, SameTables
<1>1. CASE CreateManifest
  BY <1>0, <1>1 DEF CreateManifest, history, promised, IsDb, DbNames
<1>2. CASE AppendEdit
  BY <1>0, <1>2 DEF AppendEdit, history, promised, IsDb, DbNames
<1>3. CASE SyncManifest
  BY <1>0, <1>3 DEF SyncManifest, history, promised, IsDb, DbNames
<1>4. CASE SetCurrentFile
  BY <1>0, <1>4 DEF SetCurrentFile, promised, IsDb, DbNames
<1>5. CASE NewIterator
  BY <1>0, <1>5 DEF NewIterator, diskVars, history, promised, IsDb, DbNames
<1>6. CASE SyncFails
  BY <1>0, <1>6 DEF SyncFails, IsDb, DbNames
<1>7. CASE \E i \in DOMAIN db.pinned : DeleteIterator(i)
  BY <1>0, <1>7 DEF DeleteIterator, diskVars, history, promised, IsDb, DbNames
<1>8. CASE WriteFails
  BY <1>0, <1>8 DEF WriteFails, IsDb, DbNames
<1> QED BY <1>1, <1>2, <1>3, <1>4, <1>5, <1>6, <1>7, <1>8

LEMMA SwitchStays ==
    ASSUME FilesInv, SwitchMemTable
    PROVE  Stays
<1>1. /\ db.phase = "open" /\ ~db.has_imm /\ tables' = tables /\ UNCHANGED <<acked, synced>>
  BY DEF SwitchMemTable, history, promised
<1>2. IsDb(db) /\ db.imm = {}
  BY <1>1, OpenFacts DEF OpenOK
<1>3. /\ db'.phase = db.phase /\ db'.mem = {} /\ db'.imm = db.mem /\ db'.version = db.version
  BY <1>2 DEF SwitchMemTable, IsDb, DbNames
<1>4. Contents' = db'.mem \cup db'.imm \cup Data(tables', db'.version)
  BY DEF Contents, Data
<1> QED BY <1>1, <1>2, <1>3, <1>4, ContentsParts DEF Stays

LEMMA FlushStays ==
    ASSUME FilesInv, StartFlush
    PROVE  Stays
<1>1. /\ db.phase = "open" /\ UNCHANGED <<acked, synced>>
      /\ tables' = IF db.imm = {} THEN tables ELSE Make(tables, db.next_file, [data |-> db.imm, complete |-> FALSE])
  BY DEF StartFlush, history, promised
<1>2. IsDb(db) /\ db \in DbType
  BY <1>1, OpenFacts
<1>3. db'.phase = db.phase /\ db'.mem = db.mem /\ db'.imm = db.imm /\ db'.version = db.version
  BY <1>2 DEF StartFlush, IsDb, DbNames
<1>4. db.imm \subseteq AnyUpdate /\ Known(db.imm)
  BY <1>2, DbFields, InvParts DEF UpdatesOK
<1>5. tables' = tables \/ tables' = Make(tables, db.next_file, [data |-> db.imm, complete |-> FALSE])
  BY <1>1
<1>6. KeptTables(tables, tables', db.version)
  BY <1>1, <1>4, <1>5, NewTable
<1> QED BY <1>1, <1>3, <1>6, SameContents

LEMMA MergeStartStays ==
    ASSUME FilesInv, NEW inputs \in SUBSET db.version, StartMerge(inputs)
    PROVE  Stays
<1> DEFINE data == Data(tables, inputs)
<1>1. /\ db.phase = "open" /\ UNCHANGED <<acked, synced>>
      /\ tables' = Make(tables, db.next_file, [data |-> data, complete |-> FALSE])
  BY DEF StartMerge, history, promised, Data
<1>2. IsDb(db) /\ NumbersOK
  BY <1>1, OpenFacts
<1>3. db'.phase = db.phase /\ db'.mem = db.mem /\ db'.imm = db.imm /\ db'.version = db.version
  BY <1>2 DEF StartMerge, IsDb, DbNames
<1>4. inputs \subseteq DOMAIN tables
  BY <1>2 DEF NumbersOK, TablesOK
<1>5. data \subseteq AnyUpdate /\ Known(data)
  BY <1>4, InvParts DEF DiskTypeOK, UpdatesOK, Known, Data, TableType
<1> HIDE DEF data
<1>6. KeptTables(tables, tables', db.version)
  BY <1>1, <1>5, NewTable
<1> QED BY <1>1, <1>3, <1>6, SameContents

LEMMA FinishStays ==
    ASSUME FilesInv, FinishFlush \/ FinishMerge
    PROVE  Stays
<1>1. db.phase = "open"
  BY MergeIsOpen DEF FinishFlush, FinishMerge
<1>2. IsDb(db) /\ NumbersOK
  BY <1>1, OpenFacts
<1>3. db.version \subseteq DOMAIN tables /\ \A n \in DOMAIN tables : tables[n] \in TableType
  BY <1>2, InvParts DEF NumbersOK, TablesOK, DiskTypeOK
<1>4. CASE FinishFlush
  <2>1. /\ UNCHANGED <<acked, synced>>
        /\ tables' = IF db.imm = {} THEN tables ELSE [tables EXCEPT ![db.output].complete = TRUE]
    BY <1>4 DEF FinishFlush, history, promised
  <2>2. db'.phase = db.phase /\ db'.mem = db.mem /\ db'.imm = db.imm /\ db'.version = db.version
    BY <1>2, <1>4 DEF FinishFlush, StartLogAndApply, IsDb, DbNames
  <2>3. KeptTables(tables, tables', db.version)
    BY <1>3, <2>1 DEF KeptTables, TableType
  <2> QED BY <2>1, <2>2, <2>3, SameContents
<1>5. CASE FinishMerge
  <2>1. /\ UNCHANGED <<acked, synced>>
        /\ tables' = [n \in DOMAIN tables |-> IF n = db.merge.output THEN [tables[n] EXCEPT !.complete = TRUE] ELSE tables[n]]
    BY <1>5 DEF FinishMerge, history, promised
  <2>2. db'.phase = db.phase /\ db'.mem = db.mem /\ db'.imm = db.imm /\ db'.version = db.version
    BY <1>2, <1>5 DEF FinishMerge, StartLogAndApply, IsDb, DbNames
  <2>3. KeptTables(tables, tables', db.version)
    BY <1>3, <2>1 DEF KeptTables, TableType
  <2> QED BY <2>1, <2>2, <2>3, SameContents
<1> QED BY <1>4, <1>5

LEMMA FailureStays ==
    ASSUME FilesInv, TableFails \/ (LogAndApplyFails /\ db.job # "open")
    PROVE  Stays
<1>1. IsDb(db) /\ UNCHANGED <<acked, synced>>
  BY InvParts, DbIsDb DEF TableFails, LogAndApplyFails, history, promised
<1>2. ASSUME NEW d, IsDb(d), db' = GiveUp(d), d.phase = db.phase, d.mem = db.mem, d.imm = db.imm, d.version = db.version
      PROVE  db'.phase = db.phase /\ db'.mem = db.mem /\ db'.imm = db.imm /\ db'.version = db.version
  BY <1>2, GiveUpFields
<1>3. CASE TableFails
  <2> DEFINE n == db.output
             flush == [db EXCEPT !.pending = @ \ {n}]
             merge == [db EXCEPT !.job = "merge"]
  <2>1. \/ /\ db.job = "flush" /\ db.step = "table" /\ db' = GiveUp(flush)
           /\ tables' = Restrict(tables, DOMAIN tables \ {n})
        \/ /\ db.job = "none" /\ db.merge.output # 0 /\ db' = GiveUp(merge) /\ tables' = tables
    BY <1>3 DEF TableFails
  <2>2. db.phase = "open"
    BY <2>1, MergeIsOpen
  <2>3. JobsOK /\ NumbersOK
    BY <2>2, OpenFacts
  <2>4. db.version \subseteq DOMAIN tables
    BY <2>3 DEF NumbersOK, TablesOK
  <2>5. IsDb(flush) /\ flush.phase = db.phase /\ flush.mem = db.mem /\ flush.imm = db.imm /\ flush.version = db.version
    BY <1>1 DEF IsDb, DbNames
  <2>6. IsDb(merge) /\ merge.phase = db.phase /\ merge.mem = db.mem /\ merge.imm = db.imm /\ merge.version = db.version
    BY <1>1 DEF IsDb, DbNames
  <2> HIDE DEF flush, merge
  <2>7. CASE db.job = "flush" /\ db.step = "table" /\ db' = GiveUp(flush) /\ tables' = Restrict(tables, DOMAIN tables \ {n})
    <3>1. db'.phase = db.phase /\ db'.mem = db.mem /\ db'.imm = db.imm /\ db'.version = db.version
      BY <1>2, <2>5, <2>7
    <3>2. n \notin db.version
      BY <2>2, <2>3, <2>7 DEF JobsOK
    <3>3. KeptTables(tables, tables', db.version)
      BY <2>4, <2>7, <3>2, RestrictFacts DEF KeptTables
    <3> QED BY <1>1, <3>1, <3>3, SameContents
  <2>8. CASE db' = GiveUp(merge) /\ tables' = tables
    <3>1. db'.phase = db.phase /\ db'.mem = db.mem /\ db'.imm = db.imm /\ db'.version = db.version
      BY <1>2, <2>6, <2>8
    <3> QED BY <1>1, <2>8, <3>1, SameTables, SameContents
  <2> QED BY <2>1, <2>7, <2>8
<1>4. CASE LogAndApplyFails /\ db.job # "open"
  <2>1. db' = GiveUp(db) /\ tables' = tables
    BY <1>4 DEF LogAndApplyFails
  <2>2. db'.phase = db.phase /\ db'.mem = db.mem /\ db'.imm = db.imm /\ db'.version = db.version
    BY <1>1, <1>2, <2>1
  <2> QED BY <1>1, <2>1, <2>2, SameTables, SameContents
<1> QED BY <1>3, <1>4

\* The updates of a database that was opened.
LEMMA OpenHolds == FilesInv => (db.phase = "open" => Contents \subseteq Updates /\ acked \subseteq Contents)
<1> SUFFICES ASSUME FilesInv, db.phase = "open" PROVE Contents \subseteq Updates /\ acked \subseteq Contents
  OBVIOUS
<1> QED BY ContentsTyped, InvParts DEF OpenOK

LEMMA OpensStore ==
    ASSUME FilesInv', db.phase # "open", db'.phase = "open", UNCHANGED <<acked, synced>>
    PROVE  Store!Next
<1>1. FilesInv' => (db.phase = "open" => Contents \subseteq Updates /\ acked \subseteq Contents)'
  BY OpenHolds, PTL
<1>2. Contents' \in {s \in SUBSET Updates : acked \subseteq s}
  BY <1>1
<1>3. Store!Reopen
  BY <1>2 DEF Store!Reopen
<1> QED BY <1>3 DEF Store!Next

\* The new version holds what the old one and the memtable that was flushed held.
LEMMA InstallMaps ==
    ASSUME FilesInv, FilesInv', Install
    PROVE  Store!Next \/ Stays
<1> DEFINE V == (db.version \ db.edit.deleted) \cup db.edit.added
<1>1. db.step = "install" /\ UNCHANGED <<acked, synced>> /\ DeleteObsoleteFiles(db')
  BY DEF Install, history, promised
<1>2. Applying /\ Busy
  <2>1. Applying
    BY <1>1 DEF Applying, InManifest
  <2> QED BY <2>1, ApplyingFacts
<1>3. IsDb(db) /\ NumbersOK
  BY <1>2, BusyFacts
<1>4. CASE db.phase = "replay"
  <2>1. db.job = "open"
    BY <1>2, <1>4, ApplyingFacts
  <2>2. db'.phase = "open"
    BY <1>3, <2>1, InstallFields
  <2> QED BY <1>1, <1>4, <2>2, OpensStore
<1>5. CASE db.phase = "open"
  <2>1. db.job \in {"flush", "merge"} /\ JobsOK
    BY <1>2, <1>5, ApplyingFacts, InvParts
  <2>2. db'.version = V /\ db'.phase = "open" /\ db'.mem = db.mem
    BY <1>3, <1>5, <2>1, InstallFields
  <2>3. Kept(tables, tables', Live(db'))
    BY <1>1, CollectFacts
  <2>4. V \subseteq DOMAIN tables /\ V \subseteq Live(db')
    BY <1>3, <2>2 DEF NumbersOK, TablesOK, Live
  <2>5. Data(tables', V) = Data(tables, V)
    <3> HIDE DEF V
    <3>1. \A n \in V : n \in DOMAIN tables' /\ tables'[n] = tables[n]
      BY <2>3, <2>4 DEF Kept
    <3> QED BY <3>1 DEF Data
  <2>6. Contents' = db.mem \cup db'.imm \cup Data(tables, V)
    <3>1. Contents' = db'.mem \cup db'.imm \cup Data(tables', db'.version)
      BY DEF Contents, Data
    <3> HIDE DEF V
    <3> QED BY <2>2, <2>5, <3>1
  <2>7. db'.imm \cup Data(tables, V) = db.imm \cup Data(tables, db.version)
    <3>1. CASE db.job = "flush"
      <4>1. db'.imm = {}
        BY <1>3, <3>1, InstallFields
      <4>2. /\ db.edit.deleted = {} /\ db.edit.added = (IF db.imm = {} THEN {} ELSE {db.output})
            /\ db.imm # {} => tables[db.output].data = db.imm
        BY <1>1, <1>5, <2>1, <3>1 DEF JobsOK
      <4>3. Data(tables, db.edit.added) = db.imm
        <5>1. CASE db.imm = {}
          <6>1. db.edit.added = {}
            BY <4>2, <5>1
          <6> QED BY <5>1, <6>1 DEF Data
        <5>2. CASE db.imm # {}
          <6>1. db.edit.added = {db.output} /\ tables[db.output].data = db.imm
            BY <4>2, <5>2
          <6>2. Data(tables, {db.output}) = tables[db.output].data
            BY DataOne
          <6> QED BY <6>1, <6>2
        <5> QED BY <5>1, <5>2
      <4>4. V = db.version \cup db.edit.added
        BY <4>2
      <4>5. Data(tables, db.version \cup db.edit.added) = Data(tables, db.version) \cup Data(tables, db.edit.added)
        BY DataUnion
      <4> HIDE DEF V
      <4> QED BY <4>1, <4>3, <4>4, <4>5
    <3>2. CASE db.job = "merge"
      <4>1. db'.imm = db.imm
        BY <1>3, <3>2, InstallFields
      <4>2. /\ db.merge.output # 0 /\ db.edit.added = {db.merge.output} /\ db.edit.deleted = db.merge.inputs
            /\ db.merge.inputs \subseteq db.version /\ tables[db.merge.output].data = Data(tables, db.merge.inputs)
        BY <1>5, <2>1, <3>2 DEF JobsOK
      <4>3. Data(tables, db.edit.added) = Data(tables, db.merge.inputs)
        BY ZenonT(60), <4>2, DataOne
      <4>4. V = (db.version \ db.merge.inputs) \cup db.edit.added
            /\ db.version = (db.version \ db.merge.inputs) \cup db.merge.inputs
        BY <4>2
      <4>5. Data(tables, (db.version \ db.merge.inputs) \cup db.edit.added)
              = Data(tables, db.version \ db.merge.inputs) \cup Data(tables, db.edit.added)
        BY DataUnion
      <4>6. Data(tables, (db.version \ db.merge.inputs) \cup db.merge.inputs)
              = Data(tables, db.version \ db.merge.inputs) \cup Data(tables, db.merge.inputs)
        BY DataUnion
      <4> HIDE DEF V
      <4> QED BY <4>1, <4>3, <4>4, <4>5, <4>6
    <3> QED BY <2>1, <3>1, <3>2
  <2>8. Contents' = Contents
    <3> HIDE DEF V
    <3> QED BY <2>6, <2>7, ContentsParts
  <2> QED BY <1>1, <1>5, <2>2, <2>8 DEF Stays
<1> QED BY <1>2, <1>4, <1>5 DEF Busy

LEMMA OpenedMaps ==
    ASSUME FilesInv, FilesInv', Opened
    PROVE  Store!Next
<1>1. db.step = "opened" /\ UNCHANGED <<acked, synced>>
  BY DEF Opened, history, promised
<1>2. db.phase # "open"
  <2>1. db.phase = "open" => db.job \in {"none", "flush", "merge"}
    BY InvParts DEF OpenOK
  <2>2. db.phase = "open" /\ db.job = "none" => db.step = "none"
    BY InvParts DEF BusyOK, Busy, NumbersOK
  <2> QED BY <1>1, <2>1, <2>2, InvParts DEF JobsOK
<1>3. db'.phase = "open"
  <2>1. IsDb(db)
    BY InvParts, DbIsDb
  <2> QED BY <2>1 DEF Opened, IsDb, DbNames
<1> QED BY <1>1, <1>2, <1>3, OpensStore

LEMMA WriteMaps ==
    ASSUME FilesInv, NEW sync \in BOOLEAN, Write(sync)
    PROVE  Store!Next
<1> DEFINE u == [id |-> written + 1, seq |-> db.last_sequence + 1]
<1>1. /\ db.phase = "open" /\ written < bounds.updates /\ tables' = tables
      /\ acked' = acked \cup {u} /\ synced' = IF sync THEN synced \cup {u} ELSE synced
      /\ db' = [db EXCEPT !.mem = @ \cup {u}, !.last_sequence = @ + 1]
  BY DEF Write, WriteStarts
<1>2. IsDb(db) /\ written \in Nat /\ db.last_sequence \in Nat /\ UpdatesOK
  BY <1>1, OpenFacts, InvParts
<1>3. u \in Updates /\ u.id = written + 1
  <2>1. bounds.updates \in 0 .. MaxUpdates /\ db.last_sequence <= written
    BY <1>2 DEF UpdatesOK, Scenario
  <2>2. written + 1 \in 1 .. MaxUpdates /\ db.last_sequence + 1 \in 1 .. MaxUpdates
    BY <1>1, <1>2, <2>1, FilesAssumption
  <2> QED BY <2>2 DEF Updates
<1>4. u \notin Contents
  <2>1. Known(Contents)
    BY <1>1, ContentsTyped
  <2>2. written + 1 \notin 1 .. written
    BY <1>2
  <2> QED BY <1>3, <2>1, <2>2 DEF Known
<1> HIDE DEF u
<1>5. db'.phase = "open" /\ db'.mem = db.mem \cup {u} /\ db'.imm = db.imm /\ db'.version = db.version
  BY <1>1, <1>2 DEF IsDb, DbNames
<1>6. Contents' = Contents \cup {u}
  <2>1. Contents' = db'.mem \cup db'.imm \cup Data(tables', db'.version)
    BY DEF Contents, Data
  <2> QED BY <1>1, <1>5, <2>1, ContentsParts
<1>7. Store!Put(u, sync)
  BY <1>1, <1>4, <1>5, <1>6 DEF Store!Put
<1> QED BY <1>3, <1>7 DEF Store!Next

LEMMA EndMaps ==
    ASSUME FilesInv, EndProcess \/ MachineCrash \/ DestroyDB
    PROVE  Store!Next \/ Stays
<1>1. CASE EndProcess
  <2>1. db'.phase = "down" /\ UNCHANGED <<acked, synced>>
    BY <1>1 DEF EndProcess, NewIncarnation, history, promised
  <2>2. CASE db.phase = "open"
    <3>1. Store!Exit
      BY <2>1, <2>2 DEF Store!Exit
    <3> QED BY <3>1 DEF Store!Next
  <2>3. CASE db.phase # "open"
    BY <2>1, <2>3 DEF Stays
  <2> QED BY <2>2, <2>3
<1>2. CASE MachineCrash
  <2>1. db'.phase = "down" /\ acked' = synced /\ synced' = synced
    BY <1>2 DEF MachineCrash, NewIncarnation
  <2>2. Store!MachineCrash
    BY <2>1 DEF Store!MachineCrash
  <2> QED BY <2>2 DEF Store!Next
<1>3. CASE DestroyDB
  <2>1. db.phase = "down" /\ db' = db /\ acked' = {} /\ synced' = {}
    BY <1>3 DEF DestroyDB
  <2>2. Store!Destroy
    BY <2>1 DEF Store!Destroy
  <2> QED BY <2>2 DEF Store!Next
<1> QED BY <1>1, <1>2, <1>3

LEMMA StepMaps ==
    ASSUME FilesInv, Intact, FilesInv', [Next]_vars
    PROVE  [Store!Next]_(Store!vars)
<1> SUFFICES Store!Next \/ Stays
  BY StaysStutters
<1>0. db \in DbType
  BY InvParts
<1>1. CASE Opening
  BY <1>0, <1>1, ClosedStays DEF Opening
<1>2. CASE LogAndApply
  BY <1>0, <1>2, QuietStays, InstallMaps, OpenedMaps DEF LogAndApply
<1>3. CASE Background
  BY <1>3, FlushStays, FinishStays, MergeStartStays DEF Background
<1>4. CASE Application
  BY <1>0, <1>4, WriteMaps, SwitchStays, QuietStays DEF Application
<1>5. CASE Failures
  BY <1>0, <1>5, ClosedStays, FailureStays, QuietStays, EndMaps DEF Failures
<1>6. CASE UNCHANGED vars
  <2>1. Contents' = Contents
    BY <1>6 DEF Contents, vars, diskVars
  <2> QED BY <1>6, <2>1 DEF vars, history, promised, Stays
<1> QED BY <1>1, <1>2, <1>3, <1>4, <1>5, <1>6 DEF Next

LEMMA InitMaps == Init => Store!Init
BY DEF Init, NewIncarnation, Store!Init

\* Under the same assumptions, LevelDB keeps what it promises of its updates (DurableStore):
\* an acknowledged update is found again by every later open, after the process ended at any
\* point of a write, flush, compaction or recovery, and after a crash of the machine if its
\* write was synced; flushes, compactions and failures of background jobs never change what
\* reads find.
THEOREM PromisesKept ==
    ASSUME ~UnsyncedCrashes, ~TornAppends
    PROVE  Spec => KeepsPromises
<1>1. FilesInv /\ AtEnds /\ FilesInv' /\ [Next]_vars => [Store!Next]_(Store!vars)
  BY IntactFollows, StepMaps
<1> QED BY <1>1, InvHolds, InitMaps, PTL DEF Spec, KeepsPromises, Store!Spec
=============================================================================
