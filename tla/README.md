# A verification model of The Movie DB Viewer

The repository is an iOS app (`src/MovieDBApp/MovieDBApp/`, about 650 lines of
Swift) and the pods it is built with. The app lists popular movies from The Movie DB
page by page while the user scrolls, searches for movies, shows the details of one and
sends a star rating to a Firebase database. The pods with C and C++ source are
LevelDB, which Firebase keeps its data in, and nanopb, the protocol buffer codec of the
telemetry pods; they are by far the largest part of the code that is compiled from
here. The repository has no tests.

The project models the app's list and rating, the path of a rating through Firebase to
the server, LevelDB from its encodings to its threads and its recovery, and nanopb.

## Inventory

### The app

| Part | State | Operations | Talks to |
|---|---|---|---|
| `MovieService` | `fetchingMoviesTask` | `getMovies`, `search`, `getMoviePoster` | URLSession, which calls the handlers back on its serial delegate queue |
| `MoviesTableViewDataSource` | `movies`, `page`, weak `delegate` | `init`, `loadDataSource` with its two completion handlers, `movieAt`, row count, cells, prefetching | the service; the screen through `dataSourceChanged` |
| `Movie`, `Poster` | `poster`, the rest constant | `posters(completion:)` | the service for movies without a poster path |
| `MoviesViewController` | its data source, the table | `viewDidLoad`, `didSelectRowAt`, search button, `dataSourceChanged` | pushes details and search screens; reloads on the main queue |
| `DetailsViewController` | `movie`, the stars | `viewDidLoad`, `deinit` (rates) | `RatingSystem` |
| `RatingSystem` | none | `rate`, `getRating` (a stub) | Firebase: push identifier, multi-path update |
| Firebase write path (vendored) | outstanding puts, connection state, retry | send, answer, lost connection, reconnect, resend | the server |

Here the hard part is that the list is filled by completion handlers on URLSession's
delegate queue while the main thread reads and extends it without a lock: the main thread
may read `page`, pass the guard of `getMovies`, count rows or take a tap between any two
steps of a handler; the state of a task, the end of its transfer and the call of its handler
are three events; index paths are held across downloads, reloads and taps; a search screen is
popped under a running handler; requests fail and pages do not decode. Correct means: the rows
are in order and an index path keeps its meaning, the page counter agrees with the rows,
posters and taps go to the movie they are for, and what was loaded gets on the screen.
A rating must reach the server over a connection that fails in every phase.

### LevelDB (`Pods/leveldb-library`)

| Part | State | Hard behaviour | Correct means |
|---|---|---|---|
| tree and compactions (`version_set.cc`, `db_impl.cc`) | memtables, levels of tables, snapshots, manual compaction | flushes inside a compaction; dropping entries under snapshots; choices made from a version that has changed since | no read changes its answer; levels stay disjoint; compaction ends |
| files and recovery (`db_impl.cc`, `version_set.cc`, `builder.cc`) | logs, tables, MANIFEST, CURRENT | crashes of process or machine between any two file operations; failed writes; garbage collection | no needed file is deleted; the database opens; acknowledged updates are there |
| writers and background thread (`db_impl.cc`) | queue of writers, mutex, two kinds of condition variables | group commit without the mutex; waiting for room; errors and shutdown | batches are atomic; success means logged; every call returns |
| memtable (`skiplist.h`, `arena.cc`) | links, blocks | readers without locks | no key inserted before is missed; pieces do not overlap |
| caches (`cache.cc`, `table_cache.cc`) | hash table, two lists, charges | a miss and its insert are two critical sections | a table in use stays open; the structures agree |
| POSIX environment (`env_posix.cc`, `posix_logger.h`) | buffers, limits, lock table, work queue | partial writes, failing calls, `fcntl` locks of a process | bytes in order and durable; limits hold; one owner; work is done |
| log files (`log_reader.cc`, `log_writer.cc`) | position in a block | torn and damaged files | every complete record, and no spliced one |
| tables, blocks, filters (`table/`, `bloom.cc`) | builder and iterator positions | boundaries, damaged blocks | what was added is found or an error is reported |
| iterators (`db_iter.cc`, `merger.cc`) | position and direction | changes of direction while others write | the position agrees with the snapshot |
| encodings (`coding.cc`, `version_edit.cc`, `write_batch.cc`, `filename.cc`, `status.cc`, `crc32c.cc`, ...) | none | limits of widths and lengths, cut input | what is written is read back |
| repair (`repair.cc`) | the directory | failures and stops halfway, repeated runs | nothing readable is destroyed |

### nanopb (`Pods/nanopb`) and the telemetry messages

Encoder, decoder and release of messages described by tables of fields. Hard: two passes
(size, then write), input that ends or goes wrong anywhere, memory that runs out in
the middle of a nested message. Correct: round trips, no byte outside the buffers, every
block freed exactly once.

`PROJECT.json` lists the main hazards with the line where each bites and the properties
that would notice, or why none does; further ones that no property covers are under "Known limits" below.

## Modules

### The app

`MovieService` <- `MoviesTableViewDataSource` <- `MoviesViewController`, each
extending the one before; `MCMoviesViewController` defines the instances for TLC and
`MoviesViewControllerProofs` holds the theorems.

**MovieService.** `tasks` is every movie request so far; the last one is
`fetchingMoviesTask`. `GetMovies(p)` and `Search(p)` are the guard and the start of
a task; a refused call (`.alreadyActive`) changes nothing, since its caller only
prints it. `TransferEnds` puts the handler on `delegateQueue`, `TaskCompleted` sets
the task's state at some time after that; URLSession documents no order between the
state and the handler, so the model has none. `posterRequests` are the
unanswered calls of `getMoviePoster`; they need no place in the queue, because
nothing can tell a handler that waits for the queue from an answer that is late.
`Succeeds(t)` is the decoding: the constant `Undecodable` names the pages that have
a movie without a mandatory field.

**MoviesTableViewDataSource.** `movies` holds the rows. A row is the movie it stands for
and the movie whose image it carries, so that a misplaced poster is visible. A completion
handler is a sequence of steps, one per access to shared state, and `handler` is the one
that runs:

| Step | Code in `MoviesTableViewDataSource.swift` |
|---|---|
| `BeginMovies` | `moviesCompletion`, success or failure (49-53) |
| `AppendMovies`, `BumpPage` | 54, 55 and the loop's bounds in 57 |
| `LoopStep`, `LoopEnds` | one row of the loop and `Movie.posters` (57-61) |
| `BeginPosters` | `posterCompletion` for an answer of `getMoviePoster` (29-47) |
| `ImageFromURL` | the blocking download (33) |
| `StorePoster`, `NotifyDelegate` | 36, 37 |

`owner` says whether `[weak self]` is still there: the screen is open, popped but
held by a queued reload block, or released. After that a handler goes on, and each
of its `self?.` does nothing.

**MoviesViewController.** The main thread. `main.at` is where it is: before
`viewDidLoad`, idle in its run loop, or inside `loadDataSource` (`load`: before
reading `page`; `fetch`: before the guard of the service). `reloads` counts the
`reloadData` calls in the main queue, `shown` is the table as last reloaded, `details` the
details screen. The initial state is a data source just created, its first request
started and the view not loaded: in `viewDidLoad` for the home screen, in
`searchBarSearchButtonClicked` for a search screen (`SearchScreen`). A reload fills the
table at once; `CellForRow` refills a cell later, as scrolling does. `Trap` is the data
race: while a handler writes the array or replaces a poster, a read on the main thread
may have the old value, the new one, or end the app.

**Ratings.** `stars` is the value of the star view (-1 without a details screen);
`LeaveDetails` is `deinit`, `RatingSystem.rate`, the key of `FNextPushId` and the block on
Firebase's serial queue. `puts` are the `outstandingPuts` with their `sent` flag, `link` is the
connection: `connectionState`, `interruptReasons`, the scheduled attempt, the token, requests
and answers in flight and `requestCBHash`. The server and the network are external: requests
arrive in order, those of a lost connection (`orphans`) also later or never, a token may be
refused, a connection cut or killed. Keys have two characters of a base of two, and the clock
does not go back: with the server's offset it may, and then keys differ only by their random part.

### LevelDB

| Module | Code | State and steps |
|---|---|---|
| `InternalKey`, `Version` | `dbformat`, `version_set.cc` | operators: a version maps levels to sets of files, a file carries its entries; `Get`, overlaps, scores, the choice of compactions and their inputs, what a compaction drops |
| `DBTree` | `db_impl.cc` | memtables, levels, snapshots, one compaction under way. Actions: update, switch, flush (also in the middle of a compaction), pick, work, install, trivial move, manual compaction part by part, seek charges |
| `DBFiles` | `db_impl.cc`, `version_set.cc`, `builder.cc` | the disk (logs, tables, MANIFEST files with a synced part, CURRENT) and the open database; one action per file operation, failures (an append may stop inside a record), `ProcessEnds`, crashes of the machine, destroying |
| `DurableStore` | `options.h` | the abstract store: what `WriteOptions::sync` promises. `DBFiles` implements it (`INSTANCE ... WITH`, property `KeepsPromises`) |
| `DBWrite` | `db_impl.cc` | one program counter per writer, the background thread and the destructor; a step is what happens between two points where the mutex may be lost |
| `SkipList`, `Arena` | `skiplist.h`, `arena.cc` | one load or store of a link per step, `max_height_` may be stale; pieces of blocks |
| `LRUCache` | `cache.cc`, `table_cache.cc` | shards, hash table with collisions and growth, the two lists, threads between `Lookup` and `Insert` |
| `PosixFile`, `PosixEnv` | `env_posix.cc` | the buffered file and its readers; the limiter one atomic operation at a time; lock files; the queue of work |
| `LogFile` | `log_writer.cc`, `log_reader.cc` | a file of cells, cut or damaged anywhere, read from any offset |
| `Block`, `FilterBlock`, `Table` | `table/`, `bloom.cc`, `hash.cc` | builders, readers and iterators; any write may fail, any block be unreadable |
| `DBIter` | `db_iter.cc`, `merger.cc`, `version_set.cc` | the stack of iterators, moved by any calls while entries are inserted |
| `Coding`, `VersionEdit`, `WriteBatch`, `FileName`, `Crc32c`, `Formats`, `Status`, `PosixLogger` | the files of these names, `dbformat`, `format.cc`, `logging.cc` | operators, each function against its inverse or a reference |
| `Encodings` | the interfaces of the above | builds one value through the calls of its class and reads it back |
| `Repair` | `repair.cc` | a directory of logs and tables, one step per file operation, stops and repeated runs |

### nanopb

`Nanopb` has the encoder, the decoder and `pb_release` as operators over descriptions of fields,
`NanopbSchemas` the tables of `cct.nanopb.c` and `firebasecore.nanopb.c`, `MCCodecs` messages for
TLC. `Base64` is SocketRocket's conversion, which Firebase's web socket uses.

### Scaling

Widths are made small so that their limits are met; each module's head says how.

* `Nanopb`: three bits of payload in a byte, `uint32_t` of 8 and `uint64_t` of 16 bits, which keeps
  the partly used last groups of the real varints; tags up to 31.
* `Coding`, `VersionEdit`, `WriteBatch`, `Formats`, `Status`: bytes of four bits, groups of three.
* `Block`, `FilterBlock`: bytes of two bits in keys and hashes, so that 0xff is met when separators
  are computed.
* `LogFile`: blocks of 8 cells, headers of three; a checksum holds what it was computed from.
* `FileName`: the largest number has five digits, names are padded to three.
* `PosixLogger`: a stack buffer of 12 characters.
* `LRUCache`: hashes of three bits, two shards.
* `Crc32c` is not scaled; its tables are computed instead of listed (the byte table advances
  a byte, stride table k a byte and 12 + k more; compared with the listed constants of `crc32c.cc`).

## Runs

### The list

The bounds are `PageSize`, `TotalPages`, `MaxFetches` (requests in a behaviour) and
`MaxFailures` (failed transfers and downloads). `PrefetchMargin` stands for the 5 of
`prefetchRowsAt`; with 2 the last row of the table is the one that prefetches more,
whatever the page size. All instances have movies with and without a poster path
where it matters. Pages of one movie keep the instances small: lists
of up to four rows occur, with repeated and skipped pages, and the theorems below cover
every other page size. Four
requests are what it takes to have a late page overtake an earlier one when the
guard is missing (the mutant of `SortedByPage`). Deadlock is not checked: an app
whose user does nothing may stop.

| Run | Instance | Checks |
|---|---|---|
| `home_list` | 3 pages of 1, 4 requests, 1 failure, 2.2 million states | `TypeOK`; `SortedByPage`; `OneTransferAtATime`; `PosterBelongsToRow`; `TableIsPrefix`; `TapOpensShownMovie`; `IndexPathsStayValid` |
| `list_progress` | a search screen that can be popped, 3 pages of 1 with an undecodable third, 3 requests, 1 failure | `PageCountsLoads`, the relation that undecodable pages and a released data source endanger; under fairness `PostersReachTable`, `ArrivedPageIsCounted`; the invariants of `home_list` are theorems for this screen too |
| `duplicate_rows` | 2 pages, 3 requests, no failure | refutes `EachRowLessPopular` |
| `hidden_rows` | 1 movie without posters, no failure | refutes `LoadedRowsAreShown` |

The two refuted properties are what line 7 of the repository's `README.md` says of
the list:

* **duplicate_rows.** The page to ask for is read before the handler of the last
  request has counted its page, and the guard does not wait for that handler. The
  same page is requested and appended twice, and because it is counted twice the
  next page is never requested. Rows are therefore in page order (`SortedByPage`, which
  holds) but not each less popular than the one before.
* **hidden_rows.** Only a downloaded poster asks for a reload. A search that finds
  only movies without posters shows an empty screen.

Only rows prefetch, so if the first request fails the list stays empty; no line of the repository
promises otherwise, and no property does.

Fairness (`list_progress`, `hidden_rows`): every transfer ends, a timeout
being a failure (`WF` on `Network`); URLSession drains its delegate queue (`WF` on
`DelegateQueue`; a download that blocks it ends like any transfer); the run loop runs
what is pending (`WF` on `RunLoop`), and because the main queue is FIFO a reload in it
runs even if prefetching keeps the main thread busy (`SF` on `ReloadData`). Nothing is
assumed of the user: scrolling, tapping and leaving are never forced.

Each property of a passing run has a faulty variant of the code (a comment in the modules
says which definition it replaces; `PROJECT.json` pairs them) under which TLC finds the property violated.

### LevelDB, ratings and nanopb

| Run | Instance | Checks |
|---|---|---|
| `tree` | 2 keys, 4 updates, 3 levels with tables of one entry; a workload with a snapshot and deletions, one with seek charges by reads of the present and of a snapshot, one with a manual compaction | `ReadsAreRight`, `LevelsDisjoint`, `NewerAbove`, `SeekFileHasLevelBelow`, and under fairness `ManualCompactionEnds`, `TreeSettles` |
| `manual_overlap` | 3 keys, 5 updates, larger tables, one manual compaction | refutes `LevelsDisjoint` |
| `deleted_returns` | 2 keys, 4 updates, 2 levels with tables of two entries, a snapshot and deletions | refutes `ReadsAreRight` |
| `recovery` | up to 2 updates and 7 to 9 file numbers; two crashes; one update, two crashes and `reuse_logs`; an iterator that is held; one failing call and a crash | `NeededFilesExist`, `SequenceAhead`, `OpensAgain`, `KeepsPromises` (refinement of `DurableStore`) |
| `creation_crash` | a new database and one crash of the machine | refutes `OpensAgain` |
| `torn_append` | 2 updates, one failing call and one crash; appends may go behind an unfinished record (`TornAppends`) | refutes `SyncedIsHeld` |
| `concurrent` | one of nine parts in each behaviour: 3 threads in three mixes of batches, syncs and a forced flush; a skip list of 3 keys with a reader; an arena of 5 pieces; 2 users of 3 tables; a file of 4 bytes; 3 openers; 2 processes with 2 threads each; 3 items of work; 2 ratings with one fault | `BatchesAreAtomic`, `SuccessIsLogged`, `CallsReturn`; `SearchesMissNothing`; `PiecesAreApart`; `HeldTablesStay`, `CacheAgrees`; `FileHoldsBytes`; `LimitsHold`; `OneOwner`; `WorkIsDone`; `RatingsKept`, `RatingsArrive` |
| `codecs` | one of six parts in each behaviour: messages of all kinds with every buffer size, memory that runs out at any allocation, and one damaged byte; logs of 4 records; tables of 4 entries; 3 updates of 3 keys spread over a memtable and tables; every encoding; repairs with one failing call or read and two runs | `MessagesRoundTrip`, `NothingLeaks`; `RecordsSurvive`; `TableFindsAll`; `DBIterAgrees`; `EncodingsAgree`; `RepairKeepsData` |

The bounds are the smallest at which each hazard happens, which the faulty variants confirm: three
levels are what a compaction, its output level and its grandparents need; two entries per key make
a boundary between files fall inside a key; two crashes let a recovery itself be interrupted; three
threads are a leader, one that goes along and one that stays behind; a second rating is needed for
an order. `MaxFaults` 2 for the ratings was checked on its own as well.
The parts of `concurrent` and `codecs` share no state in the code either; a behaviour chooses one and the others
do not move.

Deadlock is not checked in any run: an application may stop calling, and bounds end every
behaviour. What must not get stuck is stated as liveness.

The four properties refuted here are what comments of LevelDB say:

* **manual_overlap.** `VersionSet::CompactRange` takes the files of a level inside the range with a
  gap between them; a memtable flushed into the gap while the compaction runs is placed in the
  output level, and the output that spans the gap is installed beside it. `version_set.cc:721`
  says "Make sure there is no overlap in levels > 0". In `tree` the same property holds: with
  tables of one entry no output spans a gap.
* **deleted_returns.** Updates of one user key may be split over two files of a level.
  `SetupOtherInputs` looks for such neighbours among the inputs of the compaction's own level
  (`AddBoundaryInputs`), not among those of the next one. A compaction that takes the file ending with a
  deletion, but not the next one, which begins with the update deleted, drops the deletion: `IsBaseLevelForKey`
  looks further down only, and `db_impl.cc:955` says of the levels compacted that their older data "will be
  dropped in the next few iterations of this loop". The key is read again. In `tree` compactions write tables of
  one entry: the tables of a deletion and of an older update then span the same key and are inputs together,
  so that `ReadsAreRight` shows what everything else does to reads.
* **creation_crash.** `NewDB` closes its MANIFEST without a sync. If the machine crashes before the
  first `LogAndApply`, CURRENT may name an empty file and the database never opens.
* **torn_append.** A failed append to the log is no background error (`db_impl.cc:1227` asks for a failed
  sync only), but part of the record may be in the file. The next write is appended behind it, synced and
  acknowledged; when the log is read again, the checksum of the unfinished record is wrong and what follows it in
  its block is dropped with it (`log_reader.cc:247`). `options.h:179` says that such a write has the semantics of
  `write()` and `fsync()`; here it does not even outlive the process.

The two findings about files belong to two constants of `DBFiles`, and `recovery` and the theorems set both to FALSE:

* `UnsyncedCrashes`: the machine may crash while the database rests on records of a MANIFEST that were read and
  never synced. The history variable `relied` counts these records (it is set when NewDB makes CURRENT and when a
  recovery takes the MANIFEST over). Besides `creation_crash` there is a second case: with `reuse_logs` the process
  may end between the append of an edit and its sync; the next one reads the edit, goes on with the same
  MANIFEST without a sync and removes the log that the edit made obsolete. A crash of the machine now loses the edit,
  and with it an update that was written with sync.
* `TornAppends`: a record may be appended behind an unfinished one. `torn` has the places where a record was begun
  and not finished: by a failing append (`WriteFails`, `LogAndApplyFails`), by a process that ends in the middle of one
  (`EndProcess`), or by a crash that cuts a file inside a record (`MachineCrash`). A place of a failed append counts even if
  no byte of it is in the file, since `log::Writer` advances its block offset all the same. `Reads` and
  `ManifestReads` say what is read of such a file. With FALSE no append goes behind such a place (`MayAppend`): all
  behaviours up to it are covered, and none that goes on there. With TRUE there are, besides `torn_append`, three more
  ways to lose something, each found by TLC within seconds: a log that ends inside a record and is reused
  (`db_impl.cc:458`; scenario `Reuse`, `SyncedIsHeld`); a MANIFEST that ends so and is reused (`version_set.cc:1031`;
  `Reuse`, `OpensAgain`: the database does not open again); and, with two errors, a flush inside a
  compaction that fails to append its edit, behind which the compaction, which does not look at the background error
  again, appends its own (`version_set.cc:849`; `Errors`, `OpensAgain`).

Fairness. `DBTree`: the environment runs what is scheduled, weak fairness of the background
thread, written with its guard `NeedsWork` and the steps only it takes so that TLC can check it,
and the waiting caller of a manual compaction is woken. `MCConcurrent`: every thread of `DBWrite`
and its background thread is scheduled and gets the mutex (weak fairness suffices: `Thread(t)`
stays enabled while the mutex is free, and who holds it gives it back); `PosixEnv`'s thread
is scheduled; Firebase's queue runs its blocks, a scheduled attempt is made, and a server whose connection
lasts answers. Nothing is assumed of applications, of users, or of faults beyond their bound.

The disk in `DBFiles` and `Repair`: creating, renaming and deleting last at once and in order; of
bytes that were not synced any prefix may survive a crash of the machine, also one that ends inside a record, and all of
them survive the end of the process. The directory `Repair` works on may hold anything.

### Known limits of the code that the properties leave out

* `TEST_CompactMemTable` (`db_impl.cc:1287`) behind another writer is absorbed into its group and forces nothing.
* A second `LockFile` in a process, or one during `UnlockFile`, closes a descriptor and so gives the
  `fcntl` lock away (`env_posix.cc:627`, `646`); `OneOwner` is stated for behaviours without such a collision.
* Records behind an unfinished one, and crashes on unsynced records of a MANIFEST: above, under `TornAppends` and
  `UnsyncedCrashes`. `LogFile` itself appends only to logs that end with a whole record (`log_writer.cc:105`), or starts a new one.
* Tables: changed bytes are noticed only where checksums are verified, that is, in data blocks with
  `ReadOptions::verify_checksums` (`format.cc:87`) and in the index, metaindex and filter with
  `Options::paranoid_checks` (`table.cc:59`, `92`, `123`). Both are off by default; `TableFindsAll` says nothing of a block
  that is read changed.
* nanopb: the size of an array on the heap is raised before `realloc` makes room for it (`pb_decode.c:643`). If memory
  runs out there, `pb_release` walks past the array. `Nanopb` models it (`PbGrow`, `wild`), `NothingLeaks` says that it
  happens in no other case, and leaves out what is released from then on. A static
  submessage of a oneof that comes twice loses the pointers of the first (`467`); the bit
  position of a varint wraps after 37 continuation bytes (`208`).
* `VersionEdit::Clear` keeps compaction pointers (`version_edit.cc:26`; every caller decodes into a fresh
  edit); option limits are compared after a cast to `int` (`db_impl.cc:94`).
* Repair (`repair.cc`): tables get numbers in directory order (132) and all go to level 0 (371); a table whose copy cannot be created is dropped (302). A table that could not be read when it was scanned, but
  can be when it is copied, is listed with the bounds and the largest sequence number of the first reading, or none
  (340): the model has these readings (`ReadTable`, `RepairTable`) and `RepairKeepsData` names such tables (`complete`) and
  asks nothing of their bounds. If a read in the loop of `RepairTable` fails and then `ArchiveFile` does, the copy
  that lacks entries takes the place of the table (336): with one failing call or read in a behaviour this does not happen. A
  comment promises checksums that are switched off (173).
* Firebase: a title with a reserved character throws in `deinit` (`RatingSystem.swift:22`); a rating is lost with
  the process, as persistence is off (`24`); the carry of twelve characters at their maximum would run off the
  array (`FNextPushId.m:52`), which the model's keys never do.
* The list requests the posters of all rows again with every page (`MoviesTableViewDataSource.swift:57`).

## Proofs

`MoviesViewControllerProofs` proves for every catalogue, page size, margin and bound, and
both kinds of screen, that `Spec` implies `TypeOK`, `SortedByPage`,
`OneTransferAtATime`, `PageCountsLoads`, `PosterBelongsToRow`, `TableIsPrefix` and
`TapOpensShownMovie` always, and the action property `IndexPathsStayValid`. The
assumptions are the named ones of the modules: a positive page size, natural bounds,
and posters of movies in the catalogue.

None of these is inductive as it stands; `IInv` is, and TLC agrees on the instances above. Its parts:

* `HandlerOK`: a handler that appends belongs to a task; a poster of the loop is one of its rows.
* `OrderInv`, for `SortedByPage`: all tasks but the last have ended their transfer, and
  their pages never fall (`TasksInOrder`), because a task is started with a page read
  from a counter no earlier page exceeds (`PagesRequested`); handlers queue in the order of their
  tasks, because only the last task can end (`QueueInOrder`); and every page under way,
  in transfer, in the queue or in the handler, is at least the page of every row
  (`RowsBehind`).
* `PostersOnTheirWay`: an open poster request and the poster in the handler are for rows
  that hold their movie; kept because `RowsKept` holds of every step.
* `ScreenInv`: `TableIsPrefix` and `TapOpensShownMovie` together.
* `CountInv`: between `append` and `page += 1` the rows are one page ahead.

The lemmas `StartTaskEffect`, `NetworkEffect`, `AppendEffect` and `StoreEffect` say once what
each kind of step does to the sequences; the step lemmas have one case per action.

### LevelDB's files: `DBFilesProofs`

Assuming `~UnsyncedCrashes` and `~TornAppends`, for every scenario (any number of updates, files, crashes, failures and
iterators, with and without `reuse_logs`): `NeededFilesExist`, `SequenceAhead`, `OpensAgain` and
`SyncedIsHeld` always hold, and `Spec` implements `DurableStore` (`KeepsPromises`). Neither assumption
can be dropped: `creation_crash` and `torn_append` are the counterexamples. Appends that fail halfway, processes that end in the
middle of an append and crashes that cut a file inside a record are in every behaviour the theorems speak of.

`FilesInv` is the inductive invariant. Its idea is that a crash may end CURRENT's MANIFEST at any of several
*points* (`Points`: at or after its synced part and what is relied on), and that an opening which reads up to any of
them must go well. `DiskOK` says so: at each point the edits so far have all numbers, the tables
they leave (`FilesAt`) are there and complete, and together with the logs from the edit's log
number on they hold what was promised: acknowledged updates in all of these logs, synced ones in their
synced parts. The other parts are what keeps this true while the database works:

* `NumbersOK`: `next_file` and `last_sequence` are ahead of every point, table, log and update;
  without it a new file could replace one that is needed.
* `EditOK`, `ManifestOK`: where `LogAndApply` is, which edit it writes and that the last
  point and the version in memory agree; a new MANIFEST is a snapshot of the version.
* `ReplayOK`: during recovery the promised updates are in the tables, the memtable or the logs not yet read.
* `OpenOK`: afterwards they are in the memtables and tables, the log of the memtable holds
  it, and no point is behind the version's log number, so that `DeleteObsoleteFiles` removes no log
  that a point needs.
* `JobsOK`: the output of a flush holds the old memtable and that of a compaction its inputs, both are protected from
  garbage collection and neither is named by a point before its edit is appended.

`StepKeeps` has one lemma per action. The refinement maps `phase = "open"` and `Contents` to
the abstract store; a step is a write, an opening, an end or crash, or stutters (`StepMaps`).
Closing that proof is what brought up the reused MANIFEST that is not synced: without `relied` the lemma for crashes of
the machine fails.

`FilesInv` speaks of files as if they were read to the end, and is kept only by behaviours in which they are. `AtEnds`
says so: a record that was begun and not finished is the last of its file, so that `Reads` and `ManifestReads` return all
whole records (`EndsKeep` and its lemmas, with one per action that appends, cuts or removes). The two
are inductive together (`InvHolds`): `AtEnds` needs `FilesInv` to know which file an append goes to, `FilesInv` needs
`AtEnds` for what a recovery reads.

### The writers: `DBWriteProofs`

For any threads and calls that `CallsAssumption` admits (a batch of size zero or more, or a flush of the memtable), `WriteSpec`
implies `BatchesAreAtomic` and `SuccessIsLogged`. The difficulty is that the group leader
writes the log and the memtable without the mutex, while others queue up, wait for room or
are shut down. `WriteInv` has four parts:

* `WritersOK`: who is in the queue is there once and waits, except for the one in front, which alone may be
  between unlock and lock; who has left it has its result. Without it two leaders could use the same numbers.
* `GroupOK`: the group is a prefix of the queue; its entries are those of its members, once each and in
  order; what is inserted of it is a prefix of its entries, beginning at the sequence number in the group.
* `StoredOK`: every stored entry is of a thread that is done or of the group, has a number of its own, and is visible
  exactly if the group it came with was published.
* `LogOK`: every record of the log has its place, the numbers of its entries follow from the place, and it is
  synced if a member that asked for a sync succeeded.

### The table cache: `LRUCacheProofs`

For any threads, tables, shards, capacities and hashes that `CacheAssumption` admits, `CacheSpec`
implies `HeldTablesStay` and `CacheAgrees`. `CacheInv` is inductive: for every shard there are references of users
(`HeldBy`) such that `ShardOK` holds.

* `RefsOK`: a handle has the references of its users and one of the cache. So the last `Release` of
  an evicted table frees it, and no earlier one.
* `ListsOK`: `lru_` and `in_use_` hold what is in the cache once each, by `refs = 1`.
* `TableOK`: every chain holds, once each, the cached handles whose file hashes to its bucket, and no two
  handles have a file in common. The lemmas `Removed`, `Inserted` and `Resized` show it of `HandleTable`, also
  while the table doubles; in the middle of `Insert` and `Erase` it holds of other handles than the cached ones (`HalfOK`).
* `Keeps`: a call leaves the file of every handle alone that somebody holds, which is what `HeldTablesStay` says of
  steps.

`SomeHandleFree` shows that the model never runs out of handles. The loops of `Insert`,
`Prune` and `Resize` are recursive functions over a bounded set of steps; `RecursSome` shows that they exist and
`Steps` is the induction over their steps.

### The tree: `DBTreeProofs`

For any number of levels from two on, any keys, triggers, sizes and workloads that the two assumptions
admit:

* `SeekFileHasLevelBelow` and `TypeOK` always hold.
* `LevelsDisjoint` and `NewerAbove` hold of every behaviour without manual compactions
  (`NoManualCompactions`, a condition on the workload, not on states). `manual_overlap` shows why the condition is
  there. Nothing in the repository but the C bindings calls `CompactRange`, so it is
  the tree as the app gets to see it.

`TreeInv` is inductive. It has a part for every behaviour, `Shape`, and one that needs the condition, `Order`.

* `Shape`: no two updates share a sequence number, no two files a number; the inputs of the
  compaction under way are still in the current version (`ChosenWell`), although memtables have been
  flushed since they were chosen, and so is the file chosen for its seeks.
* `Order`: levels are disjoint and updates of a key get older on the way down (`Ordered`), the
  memtables are newer than all files, and the compaction under way may be installed without
  disturbing this (`InOrderWith`).

`InOrderWith` is the strengthening that closes the proof: what the compaction leaves in its level is
newer than what it takes away (`Settled`), what it leaves in the next level lies before or after
everything its outputs may span, and the inputs leave no key between their ends uncovered
(`Covered`). The first is what `AddBoundaryInputs` and the widening loop of `GetOverlappingInputs`
are for (`BoundaryInputs`, `InputsAre`, `NextLevel`, `SetupIs`). It has to survive
`CompactMemTable`, which runs in the middle of the compaction and puts a table up to
`MaxMemCompactLevel` levels down (`GrownInOrder`): the table never reaches a level where it overlaps
a file there or above, hence it cannot fall between the inputs of a compaction whose range has no
gap (`MissedCovered`); that of a manual compaction may have one. `Flushed` and `Compacted` say what
a flush and an installation do to a version; `OutputsAre` that the tables `DoCompactionWork` writes
follow one another and hold entries of the inputs only.

`ReadsAreRight` is false in general (`deleted_returns`), so it stays with TLC.

### The other proofs

| Module | Theorems | Inductive invariant |
|---|---|---|
| `RatingsProofs` | `RatingsKept` for any number of ratings and faults, any base and length of keys that `RatingAssumption` admits | `RatingInv`: some index divides the ratings that were answered from the outstanding ones; the latter were sent one after the other, are answered so, and each has its callback (`Window`); the server has first seen a prefix of the ratings, and the puts of a lost connection start no later than behind that prefix (`OrphanOK`); keys grow by their time, then by their characters |
| `MemTableProofs` | `SearchesMissNothing` for any keys and height, `PiecesAreApart` for any block size and alignment | `SkipInv`: every level is a sorted list and a part of the one below; the node being linked is in the levels done and `prev` is where it belongs in the others; a search stands on a node of its level before its target, and started with keys that are still there. `ArenaInv`: pieces of the current block end before `alloc_ptr_` |
| `PosixProofs` | `LimitsHold`, `OneOwner`, `FileHoldsBytes`, and `WorkInOrder` of the background thread, for any number of threads and processes and any buffer size | `LimiterInv` counts threads by place; `LockInv`: the lock table keeps out threads, `fcntl` keeps out processes; `FileInv`: file and buffer together are the bytes given; `WorkInv`: done, running and queued items are consecutive |

The ghost state these need is in the models: `Arena`'s `handed` (bytes given out), `SkipList`'s keys
that were in when a search began, `DBFiles`' `acked`, `synced` and `relied`.

### What stays with TLC

Liveness (`PostersReachTable`, `ArrivedPageIsCounted`, `ManualCompactionEnds`, `TreeSettles`, `CallsReturn`, `WorkIsDone`,
`RatingsArrive`): fairness is out of the prover's reach. `Nanopb`, `LogFile`, `Table`, `DBIter`, `Encodings`, `Repair` and what they are
built from compute over sequences with recursive operators, which need induction the prover cannot
use. `ReadsAreRight` of `DBTree`, which the code does not keep for every size of tables.

## Not modelled

Contents of URLs, texts, layout, logging and images. The catalogue of movies is fixed while the app runs
and its pages are full; a server whose ranking moves between requests would add
duplicates of its own. Time, and so the limit of 40 requests in 10 seconds and the delays
between reconnects. Two list screens at once.

Of Firebase: reading, listening, transactions, persistence, validation, token changes while connected.
The other Objective-C pods, which the app never calls itself, and the prebuilt frameworks.

Of LevelDB: the C bindings, which forward; the dump tool; statistics, random numbers and test code;
Windows; option clipping; `DebugString`; the block cache; the reference counts of versions and
memtables (the versions in use are in `DBFiles`); Snappy and accelerated checksums, which are not built in;
blocks that pass their checksum and are malformed.

## Plan

1. The list, ratings, LevelDB and nanopb: modelled and checked (above).
2. Theorems about the list, LevelDB's files and their refinement of `DurableStore`, the memtable, the POSIX
   environment and the ratings: proved (above).
3. The writers, the table cache, and the order of the tree of tables: proved (above).
4. Open: which deletions may be dropped, that is, `ReadsAreRight` for the tree with `AddBoundaryInputs`
   applied to the next level as well.
