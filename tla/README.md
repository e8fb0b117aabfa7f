# AtlasDB: a TLA+ verification of MiniDB

The repository is a small relational engine, `src/MiniDB`: a page file, a buffer pool
with a hot/cold clock replacer, a B+ tree, a table heap, Volcano style executors, an SQL
parser, a lock manager with transactions, a deadlock detector, a log and a request server. This directory holds
TLA+ models of its state machines, the TLC configurations that check them, and TLAPS
proofs of the most important invariants for every value of the constants.

Paths below are relative to `src/MiniDB`; `README.txt` is the repository's own `src/README.txt`.

## 1. The system

| component | state | operations | interacts with |
|---|---|---|---|
| DiskManager (`src/storage/DiskManager.cpp`) | one `fstream`, `next_page_id` | OpenManager, ReadPage, WritePage, AllocPage, FlushPage (empty) | called by the pool, under the pool's latch |
| LayeredClock (`src/buffer/LayeredClock.cpp`) | use bits, candidates, hot bits, hand, `latch_` | Victim, Pin, Unpin, Size | called by the pool |
| Page (`src/buffer/Page.cpp`) | id, 4096 bytes, dirty flag, pin count | Pin, Unpin, SetDirty, Reset, GetData | owned by frames, written by clients without the pool's latch |
| BufferPoolManager (`src/buffer/BufferPoolManager.cpp`) | frames, page table, latch | FetchPage, NewPage, UnpinPage, FlushPage, FlushAllPages, DeletePage | heap, index, executors call it |
| BPlusTree (`src/index/BPlusTree.cpp`), IndexIterator | root and first leaf ids, latch, words of the pages; an iterator keeps a pinned page | GetValue, Insert, Remove, Begin, operator++ | pool; InsertExecutor, IndexScanExecutor |
| TableHeap, TableIterator (`src/storage/table_heap.cpp`) | first and last page id, `next_free`, `n_slots`, slot entries and rows of a page | InsertTuple, GetTuple, UpdateTuple, DeleteTuple, Begin, operator++ | pool; executors |
| LayerManager (`src/storage/LayerManager.cpp`) | hot page ids, rate limit, rows of this second, migration log | MarkPageHot/Cold, IsPageHot, SetMigrationRateLimit, RecordMigrationStart, CanMigrateMore, RecordMigrationRows, LogMigration | SeqScanExecutor asks it per row; it writes to WALManager |
| WALManager, LogBuffer (`src/log/`) | a file stream; records not flushed yet | WriteLog, FlushLogs; AppendLog, Flush | buffers and LayerManager share one log |
| SQLParser (`src/parser/SQLParser.cpp`) | tokens and position of one call | ParseQuery with Tokenize and one method per statement | none yet |
| QueryOptimizer (`src/optimizer/QueryOptimizer.cpp`) | hot threshold | InferTargetLayer | its answer is a SeqScanExecutor's layer |
| Executors (`src/executor/`) | cursors of the children | Init, Next | pull rows from each other |
| LockManager, Transaction, TransactionManager (`src/concurrency/`) | lock table, lock sets, states, next id | LockShared, LockExclusive, Unlock, Begin, Commit, Abort | called by client threads |
| DeadLockDetector (`src/concurrency/DeadLockDector.cpp`) | wait-for graph | AddEdge, RemoveEdge, RemoveTxn, HasDeadlock, DetectCycle, GetVictim | no caller yet |
| ServerManager (`src/concurrency/ServerManager.cpp`) | request queue, stop flag, worker threads, listening socket | StartServer, StopServer, EnqueueRequest, WorkerThreadLoop | condition variable and mutex |
| metrics, Clock, ClockPro, stubs | | | see section 8 |

Hard behaviours: clients sharing frames while pages are evicted under them; a stream whose
state depends on the calls before; a restart that rebuilds the allocator from the file length;
a self-deadlocking lock in the replacer; page layouts whose fields move as entries are added, or
share their room with the rows; a rate limit that is asked and fed in two calls; a log that may be
closed or emptied under its writers; a parser that can be cut off anywhere; scans over a table
that is inserted into, or whose pages change layer, between two rows; a
notification racing a worker that is about to sleep; a search whose visiting order is a hash
table's. `PROJECT.json` lists them one by one under "hazards", each at its line.

What makes each part correct:

* pool: the page table and the frames are inverse; exactly the unpinned pages can be evicted;
  a held page stays where it is; pins count holders; the last write of a page is in its frame
  or in the file;
* replacer: Victim ends, finds a candidate if there is one (part of the atomic replacer that the
  loops implement), and honours the second chance;
* disk: an allocated id is fresh; it is known which writes and which reads the stream drops;
* index: pins come back on every path, no entry is lost from the count, an operation returns;
* heap: rows have RIDs of their own and read back as they were inserted;
* executors: a query returns everything once and ends;
* migration and log: the rate stays near its limit and lets migration go on, the log keeps order
  and what was flushed;
* parser: tokens lose nothing, a statement means what was written, a cut one is noticed;
* locks: table and transactions agree, readers and writers exclude each other;
* detector: a cycle is reported exactly if there is one;
* server: a request has one owner and is served, sockets are closed, and a stop returns.

## 2. Modules

| module | models | notes |
|---|---|---|
| `DiskFile` | what each DiskManager call does to the file and the stream | operators over a record, so that the pool can chain calls; `std::fstream` is external and described in the module's header |
| `DiskManager`, `PoolPartsProofs` | a manager alone, with restarts; theorems | EXTENDS DiskFile |
| `LayeredClock` | the replacer, every method one step | what Victim computes, without its loops |
| `LayeredClockLoop`, `PoolPartsProofs` | Victim one loop iteration at a time; theorems | implements LayeredClock by a refinement mapping, checked and proved |
| `BufferPool` | the pool with replacer, disk, pages and clients; process restarts | INSTANCEs LayeredClock, EXTENDS DiskFile |
| `MCBufferPool` | symmetry of the clients and a VIEW, for TLC | |
| `BufferPoolProofs` | theorems about BufferPool | |
| `TransactionIds` | the ids that both of the next modules speak of | |
| `LockManager` | lock table and transactions | |
| `DeadLockDetector` | wait-for graph, depth-first search call by call | compared with a definition of deadlock that knows no search: to be in the least closed set with those one waits for, which is the transitive closure |
| `ConcurrencyProofs` | theorems about both | |
| `ServerManager`, `ServerManagerProofs` | queue, workers, listening socket, start and its failures, stop, destruction; theorems | one step per point where another thread can get in |
| `BPlusTree`, `BPlusTreeProofs` | tree, iterator, index scan on the words of the pages; theorems | one page per step under the latch |
| `TableHeap` | the words of a table's pages: slot entries, rows, and the four operations on them | the abstract table of TableScan (`HeapSpec`) |
| `TableScan` | that table under the layer marks, the optimizer's choice of a layer and executor trees | EXTENDS TableHeap and implements it |
| `MCTableScan` | a VIEW for TLC: words of pages are told apart between queries | |
| `TableScanProofs` | theorems about the table, and about the queries over it by refinement and by invariants of their own | |
| `Migration`, `MigrationProofs` | rate limit and migration log of LayerManager, LogBuffer and WALManager, with crashes; theorems | |
| `SQLParser`, `SQLParserProofs` | Tokenize per character, the parser per token or fixed run of tokens; theorem | |
| `MCSQLParser` | a grammar of the five statements, and all short texts, for TLC | |

Correspondence. A method that runs under a latch from entry to return is one action, with all
that it calls (FetchPage includes the eviction, the write-back, the read and the replacer's
Pin). Where the code gives other threads a chance, the method is split there: StopServer is
flag, notification, joins; a worker's `wait` is predicate, sleep, relock. `BPlusTree` methods
hold the latch to the end and are split per page only so that an endless descent shows as one.
Variables carry the names of the code's fields. History variables (`known`, `content`,
`unreliable`, `told`, `place`, `entries`, `present`, `newest`, `seen`, ...) record what happened
and no action of the code depends on them. Operators whose comment starts with "Mutant" are
faulty variants of the definition that follows them, kept to show that the property notices.

Undefined behaviour: `LayeredClock::Victim` locks `latch_` and calls Size, which locks it again
(`src/buffer/LayeredClock.cpp:20`). RelockOutcomes says what that does: with a real `std::mutex` the
thread hangs ("hangs"), where the mutex is a no-op it goes on ("works"). The file also defines
`Unpin(int)` (line 76), which its header does not declare; the model has the two-argument form.

## 3. Runs

| run | expect | instance | what it shows |
|---|---|---|---|
| `layered_clock_loop` | pass | 4 frames, priority 2, both lock outcomes | loops implement the atomic replacer (ImplementsLayeredClock); they end (VictimReturns) and give the second chance (SecondChance) |
| `disk_manager` | pass | 4 pages, int offset of 3 pages, 2 contents, restarts | OneWriteLost, AllocIsFresh; a manager that has written reads nothing any more (ReadsEndAtFirstWrite) |
| `buffer_pool` | pass | 2 frames, 2 page ids and -1, 2 clients, 2 contents, restarts, both lock outcomes | MappingExact, ReplacerExact, HeldPageStays, PinsAreHolders, IdsAllocated, LastWriteKept |
| `buffer_pool_dirty` | violation | as `buffer_pool` | FlushReachesDisk: the first flush of a process is lost |
| `lock_manager` | pass | 3 transactions, 2 records | HoldersAgree, HoldersShareMode |
| `deadlock_detector` | pass | all graphs over 3 transactions, all visiting orders | DetectsExactly, CycleIsReal, SearchEnds |
| `server_manager` | pass | pools of 2 workers, at most 2 at a time, 2 requests, 2 descriptors, any number of starts and stops | OneOwner, WorkImpliesAwake, SocketsOwned, RequestServed |
| `server_manager_stop` | violation | the same | StopReturns: a lost notification, StopServer joins for ever |
| `b_plus_tree` | pass | leaves of 2 keys, keys 1 to 3, 4 inserts, 4 pages of which the first may be a table's, one scan | PinsAreIterators, EntriesCounted; what a lookup in one ascending leaf finds (AscendingLookup); OperationReturns, up to a descent that comes to the table's page |
| `table_scan` | pass | 2 pages of 16 words and 3 slots, 5 rows of 1 or 5 words, a constructor with or without a page, queries over 3 or 4 days | RowReadsBack, RowsHaveOwnRid, RowsOnce, QueryComplete, QueryEnds |
| `migration` | pass | 2 migrating threads, 1 logging thread, limits from -1 to 1, batches of 2, a second of 2 ticks, any number of starts, a log or none, restarts | RateBound, LogExact, WindowLasts, MigrationGoesOn |
| `sql_parser` | pass | some hundred statements in upper and in lower case, spaced, compact, cut after every token and with any token missing; all texts of up to 4 of 8 symbols | TokensExact, RoundTrip, CutIsNoticed, ParseEnds |

Only the pool's run checks a type invariant (it names a wrong page or offset at once); elsewhere the
other properties fix the values that matter. The type invariants of the other proved modules are parts of the
inductive invariants of section 5.

Why the bounds are enough.

* Pool: three ids (0, 1 and the invalid -1, which callers pass when their NewPage failed) compete
  for two frames, so hits, misses, evictions of clean and dirty pages, a full pool and a pool with
  every frame pinned all occur; two clients can hold the same page or different ones. A restart forgets
  an id that was handed out and not written: `ids_in_file` is then false, and the run shows what is
  left (an entry still names its frame, the replacer is still exact).
* Replacer: four frames with priority 2 let a cold frame, two hot frames and a used one meet the
  hand in every order, and both rounds end in every way.
* Disk: four pages over an offset limit of three make the offset wrap inside the file.
* Locks: three transactions are the least in which two hold and a third asks; two records let a
  transaction hold both.
* Server: two workers are the least for one asleep and one awake; two requests the least for one
  queued while one is handled; four threads and two descriptors allow a second successful start on a
  running server, and then starts without a descriptor left.
* Tree: four inserts into leaves of two keys split the root leaf, insert into both halves after it and
  split again; removes empty a leaf below a root and drop a root; RIDs in the range of the keys make
  overlapping words indistinguishable from keys; the bound on pages makes both calls of NewPage in a
  split fail. The pool may refuse any fetch. Page 0 is the tree's first or, as in the repository's
  integration test, the page of a table created before.
* Heap: five rows over three slots and 13 words of room reach a new page both by slots and by room; rows
  of one word lie under the slot entries of later rows, rows of five words over their own, and both
  combine. The words are compared between queries; during a query no step reads them, which is what the
  VIEW of `MCTableScan` says. A copy over a table of two rows comes to the row that it inserted itself,
  which is then the last of a full first page, and puts the fourth and fifth on the second page before
  it ends; a fourth row would not have been enough. A table without a first page fills page -1, loses it
  with its frame, and moves on. Days at and above the threshold route a scan to either layer.
* Migration: two threads can both pass a limit that one batch exceeds; the logging thread's buffer of
  two records is flushed by AppendLog and by Flush; a crash falls between any two calls and keeps any
  prefix of the stream's buffer; a log opens for appending, emptied, or not at all, any write or flush
  on it may fail, and the layer manager and the buffer may have been given none. A thread that is
  refused may ask again, start again without a bound, or give up.
* Parser: the statements have up to two columns or values, all five types, with and without WHERE; their
  literals hold keywords, delimiters and doubled quotes. Texts of four symbols hold every pair of
  quotes, an unfinished literal, operators of two characters and every two tokens in a row.

Deadlock is checked for the detector, the lock manager and the disk manager. It is switched off
where stopping is legal: a blocked replacer, a destroyed server, a table or tree at its bounds, a parsed
statement.

## 4. Fairness

Fairness is stated only for threads inside a method. `LayeredClockLoop`: weak fairness of the steps of
Victim. `DeadLockDetector`: of the search. `BPlusTree`: of the operation that holds the latch.
`TableScan`: of the executor tree, because whoever drains it calls Next until it returns false.
`SQLParser`: of the one thread that runs ParseQuery. `Migration`: time passes, and a thread whose
migration has begun goes on asking and reporting; nobody has to begin one or to give one up, and which
of several waiting threads gets on is open. MigrationGoesOn has two more conditions, which are not
fairness but what the code needs: from some time on the limit is positive, and nobody calls
RecordMigrationStart any more. `ServerManager`: each worker's step, each notification, StopServer's
notification and joins are weakly fair, and taking `queue_mutex_` is strongly fair, since a thread that
keeps asking for a mutex gets it. Nobody has to call anything, start or stop the server, and spurious
wakeups may happen but are never relied on.

## 5. Proofs

Eight modules hold theorems that TLAPS checks, for all values of the constants that satisfy the named ASSUMEs.
Every safety property of a run is a theorem except RoundTrip and CutIsNoticed of the parser. Each inductive
invariant was checked by TLC on the run's instance before it was proved.

**Buffer pool** (`BufferPoolProofs`; any pool size above 0, any finite set of clients, any number of pages
whose offsets fit an int, any contents, both lock outcomes, any number of restarts):

* `PoolTypeCorrect`: `Spec => []TypeOK`
* `PoolMappingExact`: an entry of the page table names its frame; while no id was forgotten, table and
  frames are inverse to each other
* `ReplacerHoldsUnpinned`: candidates of the replacer are exactly the frames with an unpinned page
* `HeldPagesStay`: a held page stays in its frame under its id
* `PinsCountHolders`: the pin count of a page is the number of its holders
* `FreshIds`: the allocator is ahead of every id in use
* `LastWritesKept`: the last contents of a page are in its frame or in the file

They follow from `PoolInvariant`, in two layers. `PoolSound` (TypeOK, TableSound, ReplacerExact and that
a held frame is occupied) is inductive by itself and survives every restart. On top of it, as long as
`ids_in_file` holds, `PoolInv` adds TableComplete, HeldInPlace, PinsCount and IdsBelowNext. None of
these is inductive alone. An eviction keeps the table exact because the victim is unpinned
(ReplacerExact); it moves no client's page because an unpinned page has no holder (PinsCount); a
client's unpin finds its page because it has not moved (HeldInPlace); NewPage does not overwrite an
entry because its id is above every id in use (IdsBelowNext). `LastWritesKept` needs `DataInv` besides:
a frame that is neither dirty nor being written by its holder agrees with the file (so an eviction may
drop it), and the file is zero beyond its end (so a new page, which is not read, agrees too). The proof
has lemmas for the disk and replacer operators, and then one lemma per operation with a step per
conjunct. The assumptions are the named ASSUMEs of `DiskFile` and `BufferPool`; `OffsetsFit`, that the
file stays below 2 GB, is one the code needs.

**Replacer** (`PoolPartsProofs`; any number of frames above 0, any priority above 0, both lock outcomes):

* `LoopsImplementClock`: the loops of Victim implement LayeredClock. Every iteration is a step of the atomic
  replacer or unseen by it, and the iteration that returns is its Victim
* `UsedFramesGetSecondChance`: a used frame leaves only if no unused cold candidate was there at the call and
  fewer unused hot ones than the priority

`LoopInv` describes a round by the offset that the hand has reached from where it stood at the call: the use
bits are those of the call without the ones cleared on the way, the counter is the number of unused hot
frames before the offset, and no offset before it was one to return at. In the second round all
first-round offsets are known not to be, and there is a candidate somewhere, which is why coming round to
`start_hand` a second time, and returning false with candidates left, cannot happen. The hand runs modulo
the number of frames; `RoundVisitsAll` says that a round sees each frame once.

**Disk manager** (`PoolPartsProofs`; any number of pages, contents and width of the offset):

* `AtMostOneWriteLost`, `AllocatedIdsAreFresh`, `NoReadAfterWrite`

A manager has lost a write only if its stream is closed, and a closed stream loses none; that makes the
bound on the lost writes inductive. Once WritePage was called the stream is closed, and a read delivers
only from an open one, which gives the last.

**Locks** (`ConcurrencyProofs`; any number of transactions, any set of records):

* `LockTypeCorrect`: the lock table and the transactions keep their types
* `LockTableConsistent`: holders in the table and lock sets of the transactions agree
* `ReadersExcludeWriters`: all holders of a record came in under its current mode

They follow from `LockInv`, which adds TypeIffHeld: without it a grant to a free record could inherit a
stale mode.

**Deadlock detector** (`ConcurrencyProofs`; any number of transactions, every graph, every visiting order):

* `EveryDeadlockIsFound`: GetVictim names a victim exactly if some transaction waits for itself
* `ReportedCycleIsReal`: the cycle reported is a closed path without repetition, and its youngest
  transaction, the victim, is deadlocked

`PathInv` says that the calls of DFSCycle lie on a path of the graph, one call per transaction.
`ReturnedInv` says that a transaction whose call has returned waits only for others that have, so that
these form a closed set; a call that is about to return is outside that set and waits only for its
members, and is therefore not deadlocked. The sets of the outer loop forget nobody who waits. Deadlocked
is defined with closed sets and not with paths, so the direction from a reported cycle to a deadlock is
an induction along the cycle (`CycleDeadlocks`), done with the least index outside a closed set.

**Server** (`ServerManagerProofs`; any finite set of threads, any pool size above 0, any requests and
descriptors):

* `RequestsHaveOneOwner`: a request is in the queue once or with one worker, as its place says
* `NoLostWakeup`: while the server is up and the queue is not empty, a notification is to come or a worker is
  awake and will look at the queue again
* `SocketsAreOwned`: open descriptors are the server's socket and those that repeated starts overwrote

`NoLostWakeup` needs that a worker which is about to sleep found the queue empty under the mutex and
that the queue cannot have changed since (PredicateInv from MutexInv), and that a server which is up has
a started worker and none that has finished (OwnerInv). `WorkersAssumption`, that the threads are
finitely many, is there because a pool is chosen among them by its size.

**Tree** (`BPlusTreeProofs`; any leaf size above 1, any integers as keys and RIDs, any number of pages,
page 0 the tree's own or not):

* `TreeIsWellFormed`: `Spec => []BaseInv`
* `PinsAreReturned`: between operations the pins are those of the iterators
* `EntriesAreCounted`: the sizes of all leaves add up to the inserts minus the removes, none is over the maximum
* `LookupFindsEntries`: while keys come in ascending order and one leaf has them all, GetValue finds one entry
  for each key that is there and none for another; the RID inserted last comes back as it was given after one
  insert, and as (slot_num, 0) after more

`BaseInv` says what a page can be (a leaf of at most `leaf_max_size` keys with any words, the parent of
two leaves, the table's page, or unused), that a descent is always on a page of the database, and that
while the root is a leaf an operation is on the root. That the words of a leaf may be garbled does not
matter to it: `ChildIsPage` looks at the only inner pages there are, and the copying loops never write
words 0 and 1 (`MovedEntryData`). `PinInv` adds up the pins of the running operation and of the
iterators, and says that no page has fewer than those on it. `CountInv` follows each change of one
leaf's size, and a split, which shares the entries of one page between two, through the sum.
`AscendingInv` says that a root leaf which has all the entries has them in strict order, that they are
`present`, and, if nothing was removed, where the RID inserted last is (`NewestLast`): its slot_num is
the last word that is not zero, and that is where GetValue looks for a page_id. An insert above all of
them ends behind the last key, where nothing is moved; a remove closes the gap in the loop's order
(`RemovedFromData`); a split makes the root an inner page or, when its NewPage fails, leaves the root
with fewer entries than there are, for good.

Three kinds of recursive function stand behind this: the halving search, the copying loops, and the sum over
all pages. Each is a CHOOSE, so it is first shown that there is a function that satisfies the
equation (`SearchExists`, `ShiftExists`, `DropExists`, `TotalsExist`), and then what it computes. The induction
is over a set of numbers (`Induction`): the least number outside it contradicts the step. It is
derived from the well-foundedness of inclusion between finite sets, because the library's induction
theorems take a predicate, which the backends cannot instantiate. `SumChange` (a sum changes by what one
summand changes) needs that the order of the summands does not matter (`TotalsWithout`).

**Table** (`TableScanProofs`; any page size, slots, row sizes and number of pages that fit each other):

* `RowsReadBack`: a row reads back exactly if no slot entry from its own on reaches into it, no later
  row reaches into its entry, and UpdateTuple wrote below both
* `ScanImplementsHeap`: the table under executors and layer marks implements `HeapSpec`; this gives
  `ScannedRowsReadBack`
* `EveryRowHasItsRid`: every insert that returned the RID of a page has a slot of its own, and no other
  slot is in use
* `NoRowTwice`: a query returns no row and no pair of rows twice, unless a page changed its layer
* `ResultsAreComplete`: a query that ends returned all that was on the first page when it began, unless
  it was cut or a page changed its layer

`HeapInvariant` describes every word of a page by who wrote it last: rows lie one after the other up to
`next_free`, have distinct slots below `n_slots`, and a word of a row or of a slot entry is either what
was written there or something that a later row or entry put there. The direction "exactly" needs both
sides: that a clear row is intact, and that one that is not clear reads back as something else. `RidInv`
ties the slots in use to the number of inserts. `ScanInv` says for each kind of query which rows or
pairs it has returned, as a function of where its scans stand, and that a scan which ended without a
failed fetch stands behind all rows of the start.

**Migration and log** (`MigrationProofs`; any finite set of migrating threads, any loggers, batch, limit
and length of a second, any size of buffer):

* `RateIsBounded`: rows of a window < limit + batch * threads. Inductive is a stronger bound that counts the
  threads which have been admitted and not reported yet: rows + batch * movers < limit + batch * threads.
* `WindowsLast`: the rows go back to 0 only a second after the last time, or at a restart; the invariant is
  that the time since `last_migration_time_` is at most the time since the last reset.
* `LogIsExact`: the log has each thread's entries in order, none twice, and in the file every record
  that was flushed while the log was open. `LogInv` bounds the numbers of each author in the log by the
  last one it may have written (Highest), says that a LogBuffer holds its owner's last records one after
  the other, and that a running Flush has written the records before the one it is at.
  `ThreadsAssumption`, that migrating and logging threads are told apart, reflects that an entry names
  the migration or the buffer it comes from.

**Tokenizer** (`SQLParserProofs`; every text, whether it is of a grammar or not):

* `TokensAreExact`: once the tokenizer has ended, apart from spaces the tokens hold the symbols of the text in
  order; each is an operator, a word or a literal, and only the last literal may lack its closing quote

`LexInv` has three parts. ReadInv compares the tokens and the one that is begun with the part of the
text that has been read. ShapeInv says that outside quotes what is begun is a word, and that within
quotes it is a literal that begins with the open quote and that no quote in it ends. LexType is there
because the sequence lemmas need it. Whether a quote ends a literal is said by Closes with the parity of
the run of quotes before it; the tokenizer looks one symbol ahead instead. `OpenRunEven` connects the
two: the run at the end of an open literal is even, so a doubled quote leaves the literal open
(`OpenDoubled`) and a single one closes it (`LiteralClosed`). The steps of the parser leave text and
tokens alone. FlattenSeq of the community modules is a recursive function too, and is treated like those
of the tree (`FlattensExists`, `FlattensAgree`, `FlattenAppend`). The assumption is `TextsAssumption`:
texts and tokens are sequences of symbols.

Model-checked only:

* liveness (VictimReturns, SearchEnds, RequestServed, OperationReturns, QueryEnds, MigrationGoesOn, ParseEnds):
  outside the prover's reach;
* RoundTrip and CutIsNoticed of the parser: they compare with the statements of a grammar, which only
  `MCSQLParser` gives; for other Statements they do not hold.

## 6. Where the code disagrees with its documentation

Two are runs of their own, with their counterexamples:

* `buffer_pool_dirty`: OpenManager leaves the stream open and WritePage opens it again. The first open
  fails, the write goes nowhere, and FlushPage clears the dirty flag. README.txt:543 claims that dirty
  pages are flushed correctly.
* `server_manager_stop`: StopServer sets the flag and notifies without `queue_mutex_`. A worker that has
  tested the predicate and is not asleep yet misses it, and the join never returns.

Others can be read off the models and are stated here so that the passing properties are not
read as more than they say:

* after the first WritePage the stream is closed and ReadPage does not open it: every later read leaves
  its buffer unchanged. ReadsEndAtFirstWrite says so, against README.txt:539 ("pages are loaded
  correctly from disk into memory"), and `unreliable` in `BufferPool` excludes these pages from
  LastWriteKept;
* beyond 2 GB the int offset of ReadPage wraps and a read delivers another page; `DiskManager` has such
  files, `OffsetsFit` keeps them from the pool, and AllocIsFresh is stated below that length;
* ids handed out and not written are handed out again after a restart, so NewPage may map an id
  that the pool has already; `ids_in_file` says when that is possible, and only TableSound and
  ReplacerExact are claimed then;
* where locking `latch_` twice blocks, the first eviction hangs the pool;
* DeletePage forgets the Page object;
* the second round of Victim takes any candidate, hot or cold, although its comment says that it is
  there for hot ones;
* LockExclusive refuses only beside readers, so two writers can hold a record; an upgrade, which
  README.txt:372 promises and `test/lock_manager_test.cpp:26-27` asserts to succeed, returns true and leaves the
  lock shared (HoldersShareMode says that it does); commit and abort release no lock;
* requests still queued at a stop are never deleted; StartServer on a running server loses the listening
  socket (it stays open for good), starts a second pool, and if it fails leaves a server up without a socket;
* InsertIntoParent writes the children of a new root at words 3 and 4, FindLeafPage reads them from word
  4 on, so the second child reads as page 0. Where page 0 is a table's, as in
  `test/integration_test.cpp:151-152`, the descent of every key from the separator on stays there for
  ever with the latch held. OperationReturns names this one exception, and the run reaches it;
* an insert writes a RID behind the keys as many as there were before it, GetValue reads it behind the
  keys as many as there are afterwards, and the key itself overwrites the first RID. So also with keys
  in ascending order a leaf of two or more keys gives wrong RIDs, the last one as (slot_num, 0);
  AscendingLookup says this, against README.txt:549 ("B+ tree lookup is correct") and
  `test/integration_test.cpp:96-104`. Other orders move RIDs over keys as well. Which row an index leads
  to is therefore not modelled: InsertExecutor's insert into the index is an Insert of `BPlusTree`, and
  `TableScan` has the table alone;
* after a split, lookups in the tree find less: keys below the separator are sent to the right leaf,
  keys of a split leaf that is not the root are out of reach, and AscendingLookup is therefore
  stated for a tree of one leaf;
* an iterator at the end of a leaf starts the same leaf again, and its pin is never released;
* a scan sees only the first page of a table (QueryComplete says "on the first page"), it returns one row of
  an empty table, and a pool without a free frame ends it early (`cut`);
* a page that changes its layer between the two scans of a merge is returned twice or not at all (`migrated`);
* slot entries and rows of a table page start at the same word: the first row of a page overwrites its own
  entry, a row of eight bytes in every slot does, and the entries of later rows overwrite earlier
  rows. RowReadsBack says exactly which rows survive; GetTuple's answer for the others is left open;
* UpdateTuple ignores the slot and writes at byte 16 of the page; DeleteTuple leaves the row readable,
  although its comment says that it is marked as deleted;
* a TableHeap whose constructor gets no page has page ids of -1. FetchPage(-1) gives InsertTuple a page
  of zeros, so rows go to a page that GetTuple refuses and that is lost with its frame, while
  InsertTuple returns true; when page -1 is full the table goes on to real pages, but `first_page_id_`
  stays -1 and scans return nothing. RowsHaveOwnRid and QueryComplete leave the rows of page -1 out;
* TableHeap has no latch of its own, and its constructor always makes a new first page, so the rows of an
  earlier process are out of reach;
* a query over more days than the threshold is routed to the cold layer alone and misses the recent rows;
  the thresholds of LayerManager and QueryOptimizer are separate copies;
* the migration limit can be exceeded by a batch per thread less one row (RateBound is this bound);
  RecordMigrationStart restarts the second and not the rows, so frequent starts keep everyone waiting,
  and so does a limit of 0 or less, which SetMigrationRateLimit takes; MigrationGoesOn is conditional on
  both;
* a log that did not open, or on which a write failed, loses records while AppendLog and Flush look as
  if they worked; a buffer without a log keeps them for ever; a log that cannot be opened for appending
  is emptied; LogMigration does not flush; the order of entries of different threads may differ between
  the memory and the file;
* the parser does not look at what follows a statement: further rows of VALUES, AND, and in
  `UPDATE t SET a = 1, b = 2 WHERE ...` the rest with its WHERE; INSERT and CREATE TABLE do not ask for
  their closing parenthesis, VALUES is optional, an unknown type becomes a column, and lists are joined
  with commas, so that a literal with a comma cannot be told from two values.

## 7. What the models leave out

Words of a row are opaque, so that an entry or a row that was written over never happens to hold the
same words as before: the "exactly" of RowReadsBack is up to such coincidences of integers. Rows are
whole words; a row that is longer than a page, which InsertTuple cuts, is left out. Values of rows (sort
keys, aggregates, joined bytes) are left out of the executors. Contents of pages in the pool are model
values, zero among them. Access statistics, the page latch and the temperature of a page have no caller.
The tree's and the heap's pool is reduced to what they use of it: pins, a fetch or a new page that may
fail, and the page that FetchPage(-1) makes up. The server accepts no client, so its client table is
empty; handling requests and answering them are empty methods. Words of a statement are single symbols,
and error messages are left out. Log records are whole or absent, never torn; the order in which a
migrating thread calls the layer manager is taken from the methods' names, because no caller is in the
repository.

## 8. Not modelled

* `Clock`, `ClockPro`: alternatives to LayeredClock that nothing constructs.
* `QueryOptimizer`: the regular expressions that find the days in a text, and OptimizeQuery, which
  returns its argument.
* `MetricsManager`, `BenchmarkRunner`: counters for reports.
* `CheckpointManager`, `LockTable`, `QueryPlanCache`, `CatalogManager`, `config`: empty bodies, single map
  accesses, constants.

## 9. Plan

Done in this order: replacer, disk, pool (the core: everything else stores through it) with proofs;
locks with proofs; server; detector; tree; heap with executors; restarts in the pool and its proofs; table
pages with proofs and the refinement; migration and log with proofs; parser; sockets of the server.

Then proofs of what was left: contents of the pool, disk manager, server, queries, log, detector, the refinement
of the replacer, tree and tokenizer.

Next: an abstract pool (a map from ids to contents with holders) that BufferPool implements, with the
proof of the refinement from the invariants of section 5; and the table over the real pool instead of a
pool reduced to failures.
