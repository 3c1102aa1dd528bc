# MiniSQL: a verification project

TLA+ models, model-checking runs and machine-checked proofs about MiniSQL, a
relational database written in C++ with a Node.js bridge for sessions. All
paths below are relative to `src/outputs/minisql-backend/` unless they say
otherwise.

1. [Inventory](#1-inventory)
2. [Modules and plan](#2-modules-and-plan)
3. [The page file: model and code](#3-the-page-file-model-and-code)
4. [The session bridge: model and code](#4-the-session-bridge-model-and-code)
5. [Storage: pool, heap, trees](#5-storage-pool-heap-trees)
6. [Statements: transactions, tables, catalog](#6-statements-transactions-tables-catalog)
7. [Queries: plans, optimizer, sort, join](#7-queries-plans-optimizer-sort-join)
8. [Runs, bounds and what they show](#8-runs-bounds-and-what-they-show)
9. [Where the code and its documents disagree](#9-where-the-code-and-its-documents-disagree)
10. [Proofs](#10-proofs)
11. [Not modelled](#11-not-modelled)

## 1. Inventory

The call chain is: workbench (browser) -> `scripts/database-bridge.mjs` (HTTP,
sessions, turns) -> `scripts/session-process.mjs` (one child process) ->
`src/server/database_main.cpp` (a line protocol) -> `Database` -> planner,
optimizer, row streams; heap, index trees, catalog -> buffer pool -> page file
-> four files on disk.

| Component | State it keeps | Operations | Hard behaviour | What makes it correct |
| --- | --- | --- | --- | --- |
| Page file (`src/storage/page_file.cpp`) | main file, journal `.wal`, checkpoint record `.ckpt`, double-write buffer `.dwb`; allocation (count, active generations, owners, free list); write batch; pending group | open and recover, read, begin, write, allocate, release, savepoint, commit, roll back, group sync, checkpoint (fuzzy, truncating), close | crash between any two file operations, torn pages, failing fsync, group commit | commits are atomic and durable; reads see the newest commit; allocation agrees with pages; LSNs and page generations never come back; the file can always be opened |
| File primitives (`src/storage/file_io.cpp`) | lock handle | exclusive lock, fsync, publish by rename | power loss between rename and directory fsync | one process per file |
| Buffer pool (`src/storage/buffer_pool.cpp`) | frames, pins, dirty flags, replacement order, CLOCK ring and hand | get, allocate, release, flush, LRU/FIFO/CLOCK victim, batches, savepoints, change of policy | a pool full of pinned pages; a write-back that fails; frames dropped by a rollback, ring entries that outlive them | a page reads as it was last written; a pinned frame stays; the search for a victim ends |
| Slotted pages, heap (`page.cpp`, `heap.cpp`) | slot directory, records, owner of a page | insert, erase, replace, read, scan | page full, compaction, slots and pages used again | a row reference reads its row until the row is erased, and nothing afterwards |
| B+ trees (`bplus_tree.cpp`, `page_bplus_tree.cpp`) | nodes, leaf links, root | insert, erase with split, borrow, merge, rebuild; range scan; dump and restore | underflow up to the root; duplicates that span leaves | both trees hold exactly their entries, sorted, balanced, linked |
| Catalog (`src/catalog/`) | tables, columns, indexes, constraints, next ids | DDL, snapshots, reading back at start | DDL that fails half-way or in a transaction that rolls back; tables created before those they reference | the file can be read back, and says what the process works with |
| Access catalog (`src/security/access_catalog.cpp`) | users, roles, grants, a version | replace, bind | a version that is not newer; a failing batch | the stored version is one that was written as a whole |
| Database (`src/execution/database.cpp`) | transaction state, savepoints, result and count caches, checkpoint counters, background checkpoint thread, `unavailable_` | statements, BEGIN/COMMIT/ROLLBACK/SAVEPOINT, INSERT/UPDATE/DELETE, CREATE/DROP INDEX, checkpoint | a failing commit, rollback or checkpoint; an error answer for what was committed; several rows of one statement under keys and references | an answer says what the file holds; a statement happens or not; constraints hold between statements |
| Executor, row streams (`database.cpp`, `executor.cpp`, `external_sort.hpp`) | buffers, runs on disk, hash tables and partitions, memory and disk budgets | sort, distinct, group, limit, join | spilling at the budget; failing in the middle; closing early | the budgets decide how rows are computed and never which; everything taken is given back |
| SQL front end (`src/sql/`) | none | lex, parse, bind, plan | - | plans keep the meaning of the text |
| Optimizer (`src/optimizer/optimizer.cpp`) | passes seen, iteration count | rewrite rules to a fixpoint | rules that meet; NULL, overflow, division by zero; slots that move | every rewriting keeps the answer, and the loop ends |
| Servers (`src/server/`) | none | line protocol | - | - |
| Session bridge (`scripts/database-bridge.mjs`) | sessions, transaction owner, queue of waiters with timers | acquire and release a turn, apply a transaction result, expire a session | timeouts racing a granted turn; the owner disconnecting | one operation at a time; only the owner operates while a transaction is open; every waiter is answered once |
| Session process (`scripts/session-process.mjs`) | child process, the request in flight | send, time out, close, terminate | a late answer after a timeout | an answer goes to the request it belongs to |
| Bridge authorization (`authorizer.mjs`, `access-*.mjs`) | token hashes, bindings, atomic store | authorize, bind | concurrent writes of the store | - |
| Workbench (`src/outputs/minisql-workbench`) | user interface | - | - | - |

`PROJECT.json` lists the same components with their status, and under `hazards`
each hazard at its line with the properties that cover it.

**Threads.** `Database::mu_` is taken for every statement; the background
checkpoint thread takes it as well and gives up while a transaction is active.
Below the mutex nothing is concurrent: what interleaves with a handler is the
crash of the process or of the machine, and failing I/O. That is why the page
file has one program counter and a `Crash` action at every point of it, why the
pool, the heap and the trees are sequential, and why a call of `Transactions` is
begun and ended by actions of its own with the scheduler between calls. The
bridge is concurrent, and is modelled from one `await` to the next.

## 2. Modules and plan

| Module | Question |
| --- | --- |
| `DurableStore`, `PageFile`, `PageFileRefinement`, `PageFileInvariant`, `MCPageFile`; proofs in `PageFileProofs`, `PageFilePromises` | Is the page file an atomic, durable store? |
| `SessionBridge`, `MCSessionBridge`, `SessionBridgeProofs` | Does each request get its answer, with the turn and the transaction ownership it needs? Is every waiter served? |
| `BufferPool`; proofs in `StorageProofs` | Does a page read as it was last written, whatever is evicted, fails or is rolled back? |
| `Heap`, `HeapProofs` | Does a row reference mean one row for ever, though slots and pages are used again? |
| `MemoryTree`, `IndexTrees` | Do both B+ trees answer like the plain set of their entries? |
| `Transactions`; proofs in `StatementsProofs` | Does each answer say what the file holds? |
| `Tables`, `TablesProofs` | Do statements of several rows keep keys, references and indexes? |
| `Catalog`, `CatalogProofs` | Can the definitions always be read back as the process has them? |
| `SortStream`, `JoinStream` | Do spilling, merging, hashing and partitioning keep the answer and the budgets? |
| `Plans`, `Optimizer`, `MCPlans` | Does every rewriting keep the answer, and does rewriting end? |
| `MCPages` and `MCStorage`, `MCStatements`, `MCQueries` | small instances of one layer each |

The layers are composed where they meet. `PageFileRefinement` shows that the page
file implements `DurableStore`: a committed table of pages, an open batch over it
and a commit that may fall either way only while it is being decided. The layers
above use that abstraction, not the page file: the pool keeps a table of pages, a
snapshot of the batch and one savepoint; `Transactions` keeps the pair of what a
reopened file holds (`disk`) and what the open batch shows (`work`), as does
`Catalog`. `IndexTrees` runs the page tree and the tree in memory side by side on
the same entries. `Plans` gives the answers the two streams have to compute:
there a join is the nested loop and a sort is stable.

`MCStorage`, `MCStatements` and `MCQueries` instantiate the modules of one layer,
which share no variable; the variable `subject` says which part a behaviour is
of, the other parts rest in their initial states, and each property reads
"when `subject` is this part, ...". One run asks all the questions of a layer.
Tables, catalog and heap are instances of `TablesProofs`, `CatalogProofs` and
`HeapProofs`, which extend the models, so that `StatementsProofs` and `StorageProofs`
can cite their theorems for the instances; `MCPages` is the part of the storage
instance that needs no recursive operator.

Left for later: a run that composes the pool with the page file itself, in place
of its abstraction; the reference closure of the rights in the access catalog;
backups. Of the proofs: the budgets of the two streams; the page tree.

## 3. The page file: model and code

`PageFile.tla` models `PageFile` of `src/storage/page_file.cpp`. Its steps end
where a crash leaves a different disk: a step is the code between two writes or
fsyncs whose order recovery depends on, `pc` names the place.

### State

| Variable | Code |
| --- | --- |
| `main`, `mainSynced` | the main file: what the operating system shows, what the medium holds |
| `wal`, `walSynced` | the journal in page-sized blocks, and how many of them are on the medium |
| `ckpt`, `ck` | the `.ckpt` file, and `checkpointRecord_` |
| `dwb` | the slots in use of the double-write buffer `.dwb`, as the last fsync left them; a slot is `whole` when its checksum is right |
| `mode` | `groupCommit_`, `doubleWrite_`, read from the environment at open |
| `count`, `active`, `free` | `count_`, `active_` with `owners_` (the generation of the pages in use), `free_` |
| `batch`, `snapshot` | `batch_` (`WriteBatchState`), a `PageFileSavepoint` held by a caller |
| `seq`, `nextLsn` | `committedSequence_`, `nextLsn_` |
| `pending`, `queue` | `pendingExtents_`; the extents `applyExtent` has left |
| `off`, `applied` | the offset and `lastAppliedSeq` of `recoverJournal` |
| `refused` | the constructor threw |
| `history`, `usedLsn`, `crashes` | ghosts: the committed images (the last is the newest, the first is fsynced), the highest LSN of a finished extent, the number of crashes |

A page is a record of its kind (header, data, free, absent, torn), a number
(page count of a header, generation of the others) and an abstract value. The
journal keeps its block structure, since recovery finds its way by offsets: an
extent is one `redo` block, two `body` blocks for each page and, later, a
`mark`; an abort is an `abort` block and a mark with sequence 0.

### Actions

| Actions | Code |
| --- | --- |
| `Create`, `Open`, `OpenRefused` | constructor, `loadCheckpointRecord`, the copying loop of `recoverDoubleWrite` |
| `SlotsRefused` | the refusals of `recoverDoubleWrite`: a buffer that is cut short (1037), a bad header (1044), a slot with a wrong checksum (1053), found when the slots before it are copied |
| `RecoverDoubleWrite`, `ClearRestored` | the fsync of the restored pages; `clearDoubleWrite` |
| `RedoAbort`, `RedoExtent`, `RedoSync`, `RedoRefuse`, `RedoFinish` | one round of the loop of `recoverJournal`, its refusals, its end |
| `RedoCkpt`, `RedoTruncate` | `writeCheckpointRecord` and the cut of the journal after recovery |
| `Rebuild` | the scan of the pages that rebuilds allocation, `validateHeader` |
| `Begin`, `Write`, `AllocateReused`, `AllocateAppended`, `Release` | `beginWriteBatch`, `write`, `allocate`, `release` |
| `TakeSavepoint`, `RestoreSavepoint`, `Rollback`, `SyncAbort` | `savepoint`, `restoreSavepoint`, `rollbackWriteBatch`, `appendAbortTx` |
| `CommitEmpty`, `CommitAppend`, `CommitPrepared`, `CommitMark`, `CommitPublish` | `commitWriteBatch`: nothing staged; header staged and records written; first fsync; marker; second fsync and publication |
| `GroupSync`, `ApplyStage`, `ApplyPages`, `ApplySync`, `ApplyClear` | `syncJournalGroup`; `applyExtent`: `stageDoubleWrite` until its fsync (with double-write only), the pages, their fsync, `clearDoubleWrite` |
| `Checkpoint`, `CheckpointFuzzy`, `CheckpointRecycle`, `RecycleSync`, `CheckpointRecycled`, `CheckpointWrite` | `checkpoint`, `recycleJournal`, `writeCheckpointRecord` |
| `Close`, `Closing` | the destructor |
| `FaultCommit`, `FaultFatal`, `FaultGroupSync`, `FaultApplyGroup`, `FaultCheckpoint` | exceptions of `syncFile`, of stream writes and of `resize_file`, with what each caller does then |
| `Crash` | the process or the machine stops |

A caller whose operation throws rolls its batch back (`Database::rollbackBatch`);
`batch.doomed` records that it has to.

### Crashes

A process that dies leaves what it gave to the operating system: every
completed write, and of the write in progress a prefix of its blocks, the last
one possibly cut short (`TornBlock`), or any subset of its pages. A machine that
dies leaves what was fsynced and, beyond it, any prefix of the journal and, for
each page, the old image, the new one or a torn one.

The double-write buffer is written in place: slots, header, one fsync. What a
crash leaves of that is `SlotOutcomes`. At `"stage"` the header may still be the old
one (`Unheaded`: a slot it has in use may hold a page of the new extent), or already
the new one (`HalfStaged`: a slot it names may hold its page, a torn one, or what an
earlier extent left there, `OldImages`), or the buffer may be cut short or have no
valid header (`TornSlots`). While slots are cleared, at `"clear"` and `"restored"`, the
header is the old one, the new one or torn. A write that throws leaves the same
choices but the torn ones of a power loss (`FaultSlots`).

### Assumptions of the model

- A truncation of the journal is durable when it is made.
- The first staging of the buffer, which makes the file, is not told apart from
  the later ones, so a crash of the process may find the buffer cut short at any of
  them. `OldImages` is any page an earlier extent may have left, also where that
  slot was never used. Both only add outcomes.
- Pages that `recoverDoubleWrite` copies before it refuses a slot count as fsynced.
- `clearDoubleWrite` returns without a word when the buffer cannot be opened or
  its magic number is wrong (1112-1115): not modelled, since `recoverDoubleWrite` or
  `stageDoubleWrite` has just read the same header.
- A checksum tells a torn page or record from a whole one.
- I/O faults during recovery are not separate actions: the constructor throws,
  which leaves the disk as a crash at that point does.
- `Create` is one step: the code writes page 0 and fsyncs it before it goes on.
- All writes happen in a batch: `Database` makes none outside one.
- LSN chains (`prevLsn`, `pageLsn_`), transaction ids, statistics, catalog
  versions and the dirty watermark are left out: nothing in the modelled code
  branches on them.

## 4. The session bridge: model and code

`SessionBridge.tla` models what `scripts/database-bridge.mjs` does between an
HTTP request and the engine process, with what it relies on of
`scripts/session-process.mjs`. A step is the code from one `await` to the next:
the bridge has one thread, so what can go wrong is what another handler, a
timer or a process does while one is suspended. Promises that a step resolves
are continued before the event loop takes the next event (`Settled`), in the
order in which they were resolved (`woken`).

### State

| Variable | Code |
| --- | --- |
| `life` | a session before, in (`open`) and after `sessions`; `opening` while `POST /sessions` awaits the engine, `reaped` if the idle timer closed it |
| `inTransaction`, `waiting`, `activeRequest`, `cancelRequested` | the fields of a session; `transactionState` as far as it is `IDLE` or not |
| `at` | where a request stands: waiting, woken, queued, awaiting the start of the engine, running, done |
| `transactionOwner`, `turnOwner`, `transactionWaiters`, `turnWaiters` | the variables of these names |
| `queue` | the chain of promises of `enqueue`, its head the operation at work; its length is `queued` |
| `quarantined`, `engine` | `quarantined`; `engine`, `engineOpening` and `engine.closing` |
| `transaction`, `failed` | ghosts: the session whose statement opened the transaction of the engine; whether something failed that leaves a commit uncertain |

A request is `<<session, number>>`; number 0 is the `ROLLBACK` with which
`closeSession` ends a transaction. Statements are abstract: an answer says
whether a transaction is open afterwards.

### Actions

| Actions | Code |
| --- | --- |
| `OpenSession`, `EngineReady`, `EngineRefused` | `POST /sessions`, `ensureEngine`, `startEngine`, `openSession` |
| `SendRequest`, `Resume` | `runSessionOperation`: one round of `acquireTurn` (`Refused`, `WaitForTransaction`, `WaitForTurn`, `TakeTurn`), and `enqueue` once the turn is taken |
| `Submit`, `SubmitToClosing`, `Skip` | the queue reaches the operation: `ensureEngine`, an engine that is closing, a client that has left, a quarantined bridge |
| `Answer` | the answer, `applyTransactionResult`, `releaseTurn`; an uncertain answer quarantines |
| `CloseRequest`, `IdleTimeout` | `closeSession`, from its route and from the timer of `touchSession` |
| `WaitTimeout`, `Cancel` | the timer of `waitForTurn`, the cancel route |
| `EngineClosed`, `EngineDies` | `worker.closed` after `closeEngineIfIdle`, or without it; `clearAllSessions` |
| `SendScript`, `StartScript`, `ScriptLocks`, `ScriptRefused`, `ScriptDone`, `ScriptFails` | `POST /execute` without a session: `callDatabase`, a process of its own that locks the file |
| `SendBackup` | the online backup, `runSnapshotOperation` |

`Habits` says what clients do beyond sending one request at a time: send the
next before the answer (`pipeline`), close a session with a request in flight
(`closeBusy`), open one while the engine shuts down (`openClosing`), `cancel`,
leave before execution (`disconnect`). All of it is possible over HTTP. The
runs differ in it, because some properties hold for well-behaved clients only,
and section 9 says what the others meet.

### Assumptions of the model

- A session's name is used once (`randomUUID`).
- Authorization succeeds. A closing `ROLLBACK` that the engine refuses, because
  the password has changed meanwhile, is not modelled.
- A client that leaves while its statement runs makes the engine cancel it, and
  the engine answers: one more `Answer`. A cancel token that cannot be written
  ends in `EngineDies`.
- A client that leaves while its session is being created closes it at once:
  one more `CloseRequest`.
- The file lock is taken by the engine when it becomes ready.

## 5. Storage: pool, heap, trees

### `BufferPool`

| Variable | Code |
| --- | --- |
| `file`, `base`, `mark` | what `PageFile` shows (staged pages included), the state at the begin of the batch, the state at the savepoint |
| `frames` | `frames_`: generation, content, `dirty`, `pins`, `referenced` |
| `ages` | the order of `accessed` (LRU) or `loaded` (FIFO) |
| `ring`, `hand`, `policy` | `clockOrder_`, `clockHand_`, `policy_` |
| `pc`, `want` | a call that is making room, and the page it is for |
| `faults`, `truth` | the failures so far; ghost: what the callers last wrote, or what a rollback gave back |

| Actions | Code |
| --- | --- |
| `Hit`, `Miss`, `Load`, `LoadFails` | `get` |
| `Allocate`, `AllocateFails`, `Release`, `Flush` | `allocate`, `release`, `flush` |
| `EvictOldest`, `Exhausted`, `EvictFails` | `makeRoom` under LRU and FIFO |
| `SweepMissing`, `SweepPinned`, `SweepSecondChance`, `SweepEvict`, `SweepEmpty` | one turn of the loop of `clockEvict` |
| `Edit`, `Unpin` | `PageGuard::page`, `~PageGuard` |
| `BeginWriteBatch`, `CommitWriteBatch`, `RollbackWriteBatch`, `TakeSavepoint`, `RestoreSavepoint`, `FlushAllFails` | the batch of a statement or transaction |
| `SetPolicy`, `ResetStats` | of these names |

The pool does not look at a page: a content is a member of a small set, `Changing`
are the pages a run writes. A savepoint is taken by a statement that has
flushed, so it finds no dirty frame. Statistics and the eviction log are left out.

### `Heap`

A page is a directory of slots and cells that name the row they are part of;
`lower` is the end of the free space. `Insert` is `HeapStore::insert`: the pages of
the table in the order the store tries them, `SlottedPage::insert` with reuse of a
vacant slot and compaction (`Compacted`), else a new page; `failed` is set when
the page that was chosen does not take the row after all (PAGE_FULL). `Erase` gives the page back when no slot is in use;
`Replace` inserts before it erases. Generations of slots and pages are bounded by
`LastGen` and `MaxPageGen`, where they stop being reused, as at 2^64-1 in the code.
`rows` and `stale` are ghosts: what each reference was given for, and the
references that must read nothing.

### `MemoryTree` and `IndexTrees`

`MemoryTree` has the operators of `BPlusTree`: insertion with splits (`Cut`),
erasing by building the tree again, ranges, `Dump` and `Restore` of the numbered
list of nodes kept on pages, and `validate`. `IndexTrees` has the page tree: `Insert`
(`InsertInto`, `SplitLeaf`, `SplitInner`, `NewRoot`), `Erase` (`EraseInto`,
`BorrowLeft`, `BorrowRight`, `Merge`, `Collapsed`), `Reload` (the tree in memory
through dump and restore), and ranges along the chain of leaves (`Walk`). A node is
a page; `Fresh` takes any page not in use, so released pages come back at once.
Keys are numbers, rows are members of a set; the encoding of keys and the limit of
a page in bytes are left out: `MaxKeys` is the only limit.

## 6. Statements: transactions, tables, catalog

### `Transactions`

The database is the set of the write statements it holds. `disk` is what a
reopened file has, `work` what the process shows. `txn`, `saves`, `written`,
`pending`, `deferred`, `unavailable`, `cache` are the fields of `Database`; `sick` is
a page file that refuses every call (calls over one are left out, but for what is
answered on the way); `GroupCommit` is `groupCommit_` of the page file; `call` and `results` are the call under way
and the labels (`commitState`) of its statements so far; `reply` is the answer.
Ghosts: the writes `issued`, those an answer `acked` or `denied`, and those a
ROLLBACK TO has `undone`.

| Actions | Code |
| --- | --- |
| `Start`, `Finish` | `execute` and `executeScript`, the end of a script that leaves a transaction open |
| `StatementFails`, `WriteRefused` | an error caught by `executionFailure`, with `rollbackBatch` (`Failed`) |
| `Begin`, `Commit`, `Rollback`, `Savepoint`, `ReleaseSavepoint`, `RollbackTo` | `runStatement` |
| `WriteInTransaction`, `WriteAutocommitted`, `Select` | a statement that changes or reads, the result cache |
| `CommitFails`, `AutocommitFails` | a commit that fails before or after its point of no return, or, with group commit, after its batch is over (`CommitBreaks`) |
| `CommitCheckpointFails`, `AutocommitCheckpointFails`, `Checkpoint` | the automatic checkpoint, which fails and may take the file out of service, and the explicit one |
| `SchedulerDefers`, `SchedulerCheckpoints`, `SchedulerDies` | the background thread; an exception in it ends the process |
| `Reopen` | the process ends and the file is opened again |

### `Tables`

One statement at a time: the checks of `runNode` come first, over the table as it
will be (`UniqueAmong`, `ParentsExist`, `SelfReferences`, `Restricted`,
`FreshInIndexes`), then one row a step with its entries in every index
(`InsertRow`, `DeleteRow`, `ReplaceRow`), `Done` or `Rollback` after any of them.
`CreateIndex`, `DropIndex`, `IndexRebuild` build or drop an index as a whole. A key
of several columns is one column; the value of a CHECK is the operator `Checked`.

### `Catalog`

`disk` and `work` are stores: the rows of the system table of definitions in the
order of the heap, the tables whose column rows are present, the schema version,
the version of the access catalog, the indexes that own pages. `mem` is the
`PersistentCatalog` in memory: the view, the stored tables, `nextId_`. `Open` reads
the store and creates the tables in `CreationOrder`; `OpenRefused` is a schema
version of a later build. `place`, which calls itself for the parents of a row, is
a walk with its stack written out: `Visit` enters a row that is not marked or leaves
the row entered last, `2 * Len(rows)` times in all, and of several unmarked parents it
takes the first in the heap, where the code takes the order of the foreign keys. `CreateTable`, `CreateIndex`, `DropIndex` change the
store, the memory and the index runtimes; `StatementFails` may come after any part
of them and undoes all. `Begin`, `Commit`, `Rollback`, `Savepoint`, `RollbackTo` and
`Crash` are those of the transaction around them. `SynchronizeAccess` replaces
the access catalog in a batch. `Qualified` says that DROP INDEX names its table
when two tables have the index: section 9 says what happens when it does not.

## 7. Queries: plans, optimizer, sort, join

### `Plans` and `Optimizer`

A plan is a tree of the nodes of `planner.cpp`: scans, Filter, Project, NestedLoopJoin,
HashJoin, Sort, Limit, Distinct. `Plans` says what the
row streams answer to it on small tables, errors (overflow, division by zero)
included; Distinct sorts its rows, as `openRowStream` does (`database.cpp:3539`). `Optimizer` has the rules: folding of expressions as far as the
evaluator would go, flattening and simplifying of AND, OR and NOT, filters below
joins, the choice of a hash join by estimated rows, TOP N, an index in place of a
sort, pruning of columns of a scan. `Iterate` is one pass; a pass that
changes nothing ends the loop, one seen before is a cycle, and `GiveUp` is the
limit of `MaxIterations`. Counts of rows wrap at `CountWidth`, 2^64 in the code.

An ORDER BY leaves rows with equal keys in any order (`docs/sort-progress.md:11`), and
a LIMIT above it may cut between them: `Answers` is the set of answers a query
allows, and `AllowedAnswers`, which the run `Queries` checks as a part of
`OptimizerAnswersAlike`, asks for one of them after every pass. The indexed columns of
the tables hold a value twice. `optimizer.cpp:983` promises more, the same rows in the
same order: that is `SameAnswers`, which three rules break (section 9).

### `SortStream`

The phases of the external sort and of what reads it: rows are pulled
(`Hold`, `Spill`, `KeepBetter`, `Discard`), the last run is written or the rows are
sorted in memory, runs are merged in groups of `FanIn` (`Group`, `MergeGroup`), the
final merge serves them (`Take`), and the consumer - rows, DISTINCT, GROUP BY, a
total, LIMIT with OFFSET - makes its answer. `Fails` is an error, a refused budget
or a cancelled query at any step; `Close` is the destructor at any time. `mem`,
`disk`, `files` are what `QueryResourceManager` has counted. A row is its key, its
place in the input and its size.

### `JoinStream`

The right side is read first and held (`HoldRow`) or spilled (`StartSpill`,
`SpillRow`) when it outgrows its budget; then the left rows are matched by a
nested loop over memory or over the spilled file (`Loop`), a hash table in memory
(`BuildHash`, given up when it does not fit) or hash partitions of the spilled
file, one in memory at a time (`Partition`, `Loaded`). A key is a value and the text
that is hashed. `LeftJoin` gives unmatched rows with NULL.

## 8. Runs, bounds and what they show

| Run | Instance | Shows |
| --- | --- | --- |
| `PageFileCommit` | 3 pages, 2 extents of up to 2 pages, double-write, failing I/O, 1 crash anywhere, no group (1.8 million states) | `ReadsCommitted`, `AllocationMatchesPages`, `GenerationsAdvance`: with torn pages, journals and slots, a reopened file shows the published commits and the allocation that goes with them. `ImplementsStore`: every step is a step of `DurableStore` or invisible |
| `PageFileGroup` | 3 pages, 2 extents, group commit, 1 crash anywhere, no double-write, no failing I/O (2.9 million states) | `ReadsCommitted`, `JournalCutWhenApplied`: pending commits are read, and survive in order |
| `PageFileCheckpoints` | 2 pages, 3 extents, both checkpoints, double-write, savepoints, 2 crashes | `Durability`, the inductive invariant of the proofs (section 10): between any two steps recovery finds what it needs, so no checkpoint loses a commit. `BatchReadsPromised`, `LsnFresh`, `NeverRefused`: a batch reads what it wrote, no LSN comes back, the file opens again. Crash points leave out those at which an extent, an abort, the checkpoint record or the double-write buffer is half written, or the journal is cut and its record still to come (`WholePoints`): section 9 says what happens there |
| `PageFileFaults` | group on and off, both checkpoints, double-write, failing I/O | `IInv` (the inductive invariant), `RollbackKeepsJournal`, `HandlersReturn` |
| `BridgeTurns` | 3 sessions with 3 requests each, at most 2 opened while 2 are registered, clients that send one request at a time, cancel and leave, an engine that dies | `TransactionExclusive`, `LockMatchesEngine`, `LockHolderCanRelease`, `WorkKeepsSession`, `LockIsReleased`, `TypeOK` |
| `BridgeAnswers` | 2 sessions with 2 requests each, a script, a backup, all habits, an engine that dies, room for 3 in the queue | `TurnIsReleased`, `Answered` |
| `Storage` | pools of 2 frames and of 1 for 3 pages (1 changing, 2 only read), 1 failure, a ring of up to 3 entries, each policy; heap of 2 tables on 2 pages of 4 cells with rows of 1 and 2 cells; trees of up to 15 entries with nodes of 2 to 4 keys | `PoolKeepsWrites`, `GuardKeepsFrame`, `RefusedOnlyWhenPinned`, `SweepEnds`; `HeapServes`; `TreesServe` |
| `Statements` | 2 writes of 2 literals and a third that differs from one in its case only, no group commit, 2 savepoint names, checkpoint after 2 writes, 1 failure; a parent and a child table with two foreign keys (one to itself), 3 references, statements of up to 2 rows; 2 definitions, one referring to itself and to the other, 1 index name | `CommittedStays`, `DeniedNeverShows`, `IdleShowsDisk`, `CacheCurrent`, `DueCheckpointRuns`; `ConstraintsHold`, `IndexesMatchHeap`; `CatalogSurvives` |
| `Queries` | all of `SoundQueries` over tables of 2 to 4 rows; sorts of 0, 1, 3 or 6 rows with room for 2; joins of up to 2 by 4 rows with room for 3, on keys whose text says their value | `OptimizerAnswersAlike`; `ServesTheQuery`, `StreamEnds`; `JoinsLikeTheLoop`; `NothingLeaks` |

**Page file.** `MCPageFile` has two interchangeable page values (symmetry).
`MaxPages` is the pages of the file, `MaxLsn` the journal extents, `MaxGen` the last
page generation. Three pages are the header, a page to reuse and a page to
append; two extents are a commit and one that overtakes, undoes or follows it;
three let a checkpoint stand between commits; two crashes are a crash and a crash
of the recovery. `MaxBatchPages = 2` lets the batch limit strike between the
data page and the header of one allocation.

**Bridge.** Three sessions are one that holds the lock and two that wait for it, so
that a wakeup has to choose; three requests are the two ends of a transaction and
a statement between them. The queue is shorter than the number of tasks in
`BridgeAnswers`, so that it overflows (64 in the code).

**Storage.** Two frames for three pages make every miss choose a victim, with one
frame pinned or both (`SweepEnds` is about a pool with a frame unpinned,
`EndlessSweep` of section 9 about the rest). A ring of three entries is what two
frames need and one that a rollback or a release left stale, which the sweep passes
over (`SweepMissing`). In the pool of one frame (`Small`) all entries may be stale, and
after a failing eviction there is none, so that the ring runs empty (`SweepEmpty`).
One generation, one pin on each page and one failure let a page be allocated and
released in a batch, be held, and fail to be written once.
Rows of one and two cells on a page of four leave holes that only compaction
joins; two pages and two generations make a page change its owner. Nodes of up to
four keys split at the fifth: fifteen entries are three levels, and removing
them from the first, the last or the middle end goes through borrowing on both
sides, merging and the collapse of the root twice. Four keys that stand four
times each (not unique) reach over several leaves.

**Statements.** Two writes are one that is kept and one that is undone; a
threshold of two puts the checkpoint behind the second or behind their
transaction. Two names let a savepoint be restored that is older than another.
Three references and rows of two tables let a statement of two rows refer to
its own rows, to older ones and to the other table. The number of tables of the
catalog is the least at which the order of creation matters.

**Queries.** `CountWidth` is out of reach but in `LimitWrap`. Values are NULL and small integers up to `MCMaxInt`, so that 3 + 3
overflows and `1/(a - 2)` divides by zero on one row only. Six rows of which two
fit make three runs and more than one pass over them; memory of three and disk of
fourteen are reached by some inputs and not by others, in the pull, in the
merge and in the group. A right side of four rows outgrows the budget, and two
partitions are read in turn. `MaxIterations` is that of the code.

The bounds named `Max...` are the only ones in guards. Deadlock is checked in the
runs of the page file and the bridge: a file can always be closed and opened, and
the bridge stops only when nothing is in flight and no session can be opened
(`Finished`). It is not in `Storage`, `Statements` and `Queries`: there a behaviour
ends when its inputs - writes, generations, rows, plans - are used up.

**Fairness.** `HandlersReturn` is checked under weak fairness of the handlers in
progress (recovery, commit, group sync, checkpoint, closing): a handler runs
on its caller's thread with `Database::mu_` held and nothing else to wait for;
nothing makes callers begin one, and no fairness is assumed of them. For the
same reason `SweepEnds` assumes it of `MakeRoom`, and `StreamEnds` of the steps of a
query and of the destructor that follows its end. `DueCheckpointRuns` assumes it
of `SchedulerCheckpoints`, since the timer of the thread keeps waking it; it asks
for the checkpoint only once the clients leave the database idle. The bridge's
`Answered` and `LockIsReleased` assume `Fairness`: the event loop runs what is ready
(`Bridge`); a lock wait and an idle session have a timer each (`WaitTimeout`,
`IdleTimeout`); a process at work answers, becomes ready or exits (`Processes`),
since each of its requests has a timer that kills it. Nothing is assumed of
clients, and the engine need not die.

In `PageFileCommit` the abstract store may decide a commit either way only while
it is being decided. `View` is what readers get: `Database::mu_` keeps them out
while a handler runs. Group commit is not part of it: it publishes before it is
durable, which `DurableStore` does not allow. A power loss may take back the newest
published commits of the group (`LostCommits`): any number of them, since each
extent was handed to the operating system on its own, where
`docs/wal-recovery-progress.md:47` has recovery drop the group as a whole.

Each property of a passing run has a mutant in `PROJECT.json`: a dropped fsync, an
off-by-one in a loop, a reset left out, a reference bit that survives, rows
inserted before they are checked. TLC finds each of them.

## 9. Where the code and its documents disagree

Each of these is a configuration with one property that TLC finds violated. The
three in bold are runs, whose `findings` in `PROJECT.json` quote the documents; the
others are kept beside their modules and checked by hand, e.g.
`tlc -config TornSlots.cfg MCPageFile`.

| Configuration | Module | Property | What happens | Document |
| --- | --- | --- | --- | --- |
| **`StaleCutoff`** | `MCPageFile` | `ReadsCommitted` | fuzzy checkpoint, truncating checkpoint, crash after the journal is cut and before `.ckpt` is rewritten: the old cutoff points into the new journal, and the next recovery skips a published commit (`page_file.cpp:697`). The LSN watermark is lost in the same window | `docs/wal-recovery-progress.md:60`: the cutoff is safe for recovery |
| `AppendedCrash` | `MCPageFile` | `NeverRefused` | a process dies while it appends the records of an unpublished extent, whose header counts more records than there are: the file no longer opens, `redo truncated` (`page_file.cpp:948`) | `docs/journal-progress.md:9`: an exit before publication keeps the old database |
| `TornSlots` | `MCPageFile` | `ValidSlotsRepair` | a power loss while slots are staged leaves a valid slot and a torn one under a valid header: the file no longer opens with double-write (`page_file.cpp:1053`; a short buffer or a torn header, 1037 and 1044, are refused as well) | `docs/wal-recovery-progress.md:72`: the slots that are still valid repair the pages |
| `GroupApply` | `MCPageFile` | `ReadsCommitted` | `syncJournalGroup` clears the pending pages before it applies them; applying fails, the file stays in service, and answered commits are not read (`page_file.cpp:628`) | `docs/journal-progress.md:10`: after the commit point an exception makes the instance refuse to go on |
| `PendingReads` | `MCPageFile` | `BatchReadsPromised` | a batch reads the main file and not the pages of pending commits (`page_file.cpp:193`) | `docs/wal-recovery-progress.md:45`: pending pages cover reads |
| `TwoTurns` | `MCSessionBridge` | `TransactionExclusive` | requests 2 and 3 of a session that pipelines are woken together and both take the turn, since `activeRequest` is set only when a request leaves the queue; later another session's statement runs in the transaction of request 3 (`database-bridge.mjs:722`) | `docs/concurrency-progress.md:5`: other sessions wait for the end of the transaction |
| `CloseBusy` | `MCSessionBridge` | `LockHolderCanRelease` | a session closed while its `BEGIN` runs is given the lock after it has left (`database-bridge.mjs:885`) | `docs/concurrency-progress.md:15`: closing a session releases the lock |
| `EndlessSweep` | `BufferPool` | `SearchEnds` | under CLOCK, with every frame pinned, the search for a victim goes round for ever (`buffer_pool.cpp:115`) | `docs/buffer-progress.md:11`: `BUFFER_EXHAUSTED` |
| **`GroupAnswers`** | `MCStatements` | `DeniedNeverShows` | the fsync of a group fails after the batch that filled it is over (`page_file.cpp:610`): there is no batch to roll back (`database.cpp:4807`), the statement is reported rolled back (6139-6141), its rows stay visible and reach the disk | `docs/journal-progress.md:10`: an exception restores the pages, or is answered with an unknown state |
| `CachedCase` | `MCStatements` | `CacheOnAsOff` | `queryResultCacheKey` lowers the whole text (`database.cpp:2456`): `'A'` is answered with the rows of `'a'` | `tests/query-result-cache-smoke.mjs:47`, `:71`: the cache changes no result |
| `UndoneLabels` | `MCStatements` | `CommittedLabelsStay` | the statements ROLLBACK TO undoes keep their labels, which COMMIT turns into committed (`database.cpp:4926`) | `docs/transaction-progress.md:21`: committed results are those not undone |
| `HashJoin` | `MCQueries` | `JoinsLikeTheLoop` | rows are hashed by the text of their keys: 1 and 1.00 of columns of different types are equal and do not meet (`executor.cpp:577`) | `src/outputs/V3当前实现状态.md:25`: a HashJoin answers as the NestedLoopJoin |
| **`IndexOrder`** | `MCQueries` | `SameAnswers` | `useIndexOrderForSort` finds the sort key by its slot in the output of the scan, which a pass before has shortened to the columns in use: `SELECT b, c FROM w ORDER BY b` comes in the order of the index of `c` (`optimizer.cpp:730`) | `optimizer.cpp:983`: same rows in the same order |
| `TieOrder` | `MCQueries` | `SameAnswers` | the ordered scan that replaces a descending sort is reversed as a whole, rows with equal keys included (`database.cpp:3391`); under a LIMIT other rows come | `optimizer.cpp:983` |
| `HiddenKey` | `MCQueries` | `SameAnswers` | a sort key that is not selected stays in the answer when the index replaces the sort (`optimizer.cpp:759`) | `docs/sort-progress.md:9`: Sort removes it |
| `LimitWrap` | `MCQueries` | `SameAnswers` | LIMIT + OFFSET wraps and the sort keeps too few rows (`optimizer.cpp:674`; at 8 in the configuration, at 2^64 in the code) | `optimizer.cpp:985`: same first limit + offset rows |

`TieOrder` contradicts the postcondition of the rule only: SQL leaves the order of
equal keys open, and so does `docs/sort-progress.md:11`. That is why the passing run
asks for `AllowedAnswers`. `IndexOrder`, `HiddenKey` and `LimitWrap` give answers the
query does not allow; `SoundQueries` has none of their shapes.

Seen with the same modules by changing a constant or a property, and not kept as
configurations:

- `MCPageFile`, `NeverRefused` with a crash at `"redoCkpt"`: `writeCheckpointRecord`
  truncates `.ckpt` before it writes it, and a crash in between leaves a record every
  later open refuses. With a crash at `"stage"`, `"clear"` or `"restored"`: the refusals
  of `TornSlots`, also where every slot was whole before. With group commit and
  `"power"` in `Crashes`: a power loss before the group is fsynced keeps a part of the
  last extent, which `recoverJournal` refuses as in `AppendedCrash`
  (`docs/wal-recovery-progress.md:47`: a crash before the sync of the group can only
  drop the whole group).
- `MCPageFile`, `ReadsCommitted` with double-write switched on and off: slots left by a
  crash are later copied over newer pages (`docs/wal-recovery-progress.md:72`). With
  fuzzy checkpoints and failing I/O: the window of `StaleCutoff` without a crash in
  it; the write of the record fails after the journal is cut, and the process goes on.
- `MCSessionBridge`, `LockHolderCanRelease` for serial clients with as many backups as
  the queue has places: a session is closed while the queue is full, its ROLLBACK is
  refused (`database-bridge.mjs:1013`), and the lock stays with a session that is gone
  while another one is open.
- A script queued before a session is opened finds the file locked by the
  engine (`database-bridge.mjs:989`); its error counts as an uncertain commit and
  quarantines the bridge, although nothing was executed. After a lock wait has timed
  out `session.waiting` stays set, and `touchSession` spares a session whose client
  has gone. The session limit is tested before the engine is awaited.
- `Transactions`: ROLLBACK TO keeps savepoints taken after the one restored
  (`docs/transaction-progress.md:17`). A checkpoint that fails after a commit answers
  an error of unknown outcome for what is committed
  (`docs/auto-checkpoint-progress.md:25`). An exception in the background checkpoint
  ends the process (`database.cpp:1739`): `SchedulerDies`.
- `BufferPool` under CLOCK: a victim whose write-back fails leaves the ring and is
  never chosen again. `SweepEnds` and `RefusedOnlyWhenPinned` are stated for the rest.
- `Tables`: exchanging the keys of two rows in one UPDATE under a unique index, and
  deleting several rows that refer to each other, are refused although the
  table would be sound (`docs/unique-progress.md:10`,
  `docs/self-foreign-key-progress.md:14`).
- `Catalog`, `CatalogSurvives` with `Qualified = FALSE`: DROP INDEX without ON, with
  one name on two tables, takes one table from the view and another from the
  stored ones (`persistent_catalog.cpp:727`, `:737`).
- `IndexTrees` with an odd `MaxKeys`: two inner nodes at the minimum and their
  separator are one key too many for a merge. `Database` gives its trees 64.

Read in the code and not modelled: -0.0 and 0.0 are equal and hash differently;
row-count and statistics caches survive a ROLLBACK; a run of the external sort
whose metadata cannot be written is left behind (`external_sort.hpp:174`); an index
rebuilt in a transaction is not flushed before a later SAVEPOINT; the rebuild of
an index in the constructor runs outside a write batch (`database.cpp:1953`); the
first version of the access catalog, written without a batch, would not survive
a crash half-way (`database.cpp:675`).

## 10. Proofs

Checked by the TLA+ proof system for every value of the constants that satisfies
the assumption of each module. No bound is used: where a bound stands in a guard,
the theorems hold for each of its values.

| Module | Theorem | States |
| --- | --- | --- |
| `PageFileProofs` | `Invariant` | `Spec => []IInv` |
| | `TypeCorrect` | `Spec => []TypeOK` |
| | `JournalCut` | `Spec => []JournalCutWhenApplied` |
| | `RollbackCut` | `Spec => RollbackKeepsJournal` |
| `PageFilePromises` | `DurabilityInvariant` | `SoundSettings` implies `Spec => []Durability` |
| | `RecoverableAlways` | `SoundSettings` implies `Spec => []Recoverable` |
| | `CommitsRead` | `SoundSettings` implies `Spec => []ReadsCommitted` |
| | `BatchReads` | `SoundSettings`, no group commit imply `Spec => []BatchReadsPromised` |
| | `AllocationHolds` | `SoundSettings` implies `Spec => []AllocationMatchesPages` |
| | `GenerationsHold` | `SoundSettings` implies `Spec => []Generations` |
| | `GenerationsNeverBack` | `SoundSettings` implies `Spec => GenerationsAdvance` |
| | `PageFileIsStore` | `SoundSettings`, no group commit imply `Spec => ImplementsStore` |
| | `LsnNeverAgain` | `SoundSettings`, `CutsRecorded` imply `Spec => []LsnFresh` |
| | `NoOpenRefused` | `SoundSettings`, `WholeWrites` imply `Spec => []NeverRefused` |
| `SessionBridgeProofs` | `TurnReleased` | `Spec => []TurnIsReleased` |
| | `TypeCorrect` | `Spec => []TypeOK` |
| | `Locks` | `Serial` implies `Spec => []LocksInv` |
| | `Exclusive` | `Serial` implies `Spec => []TransactionExclusive` |
| | `Agreement` | `Serial` implies `Spec => []LockMatchesEngine` |
| | `WorkKept` | `Serial` implies `Spec => []WorkKeepsSession` |
| | `HolderReleases` | `Serial`, `QueueRoom` imply `Spec => []LockHolderCanRelease` |
| `StorageProofs` | `Invariant` | `Spec => []IInv` |
| | `PoolHolds` | `Spec => []PoolKeepsWrites` |
| | `GuardsHold` | `Spec => GuardKeepsFrame` |
| | `CapacityKept` | `Spec => [](Cardinality(Resident) <= Capacity)` |
| | `PoolRefuses` | `Spec => RefusedOnlyWhenPinned` |
| | `HeapKept` | `Heaps!Spec => []HeapServes`, of the instance |
| `StatementsProofs` | `Invariant`, `TypeCorrect` | no group commit implies `Spec => []IInv`; `Spec => []TypeOK` |
| | `CommittedKept` | no group commit implies `Spec => []CommittedStays` |
| | `DeniedGone` | no group commit implies `Spec => []DeniedNeverShows` |
| | `IdleFaithful` | no group commit implies `Spec => []IdleShowsDisk` |
| | `CacheFresh` | no group commit implies `Spec => []CacheCurrent` |
| | `ConstraintsKept`, `IndexesFollow`, `CatalogKept` | `MCSpec => []ConstraintsHold`, `[]IndexesMatchHeap`, `[]CatalogSurvives`, of the instances |
| `TablesProofs` | `Invariant`, `TypeCorrect` | `Spec => []IInv`, `Spec => []TypeOK` |
| | `IndexesHold` | `Spec => [](IndexesMatchHeap /\ UniqueIndexesHold)` |
| | `KeysKept`, `ForeignKeysKept` | `Spec => []KeysHold`, `Spec => []ForeignKeysHold`: the parts of `ConstraintsHold` |
| `HeapProofs` | `HeapInvariant` | `Spec => []Inv` |
| | `ReferencesAlwaysHold` | `Spec => []ReferencesHold` |
| | `PagesStaySound` | `Spec => []PagesSound` |
| | `HeapAlwaysServes` | `Spec => []HeapServes` |
| `CatalogProofs` | `CatalogInvariantHolds` | `Qualified` implies `Spec => []CatalogInvariant` |
| | `CatalogTypes` | `Qualified` implies `Spec => []TypeOK` |
| | `CatalogAlwaysSurvives` | `Qualified` implies `Spec => []CatalogSurvives` |
| | `IndexesAlwaysServed` | `Qualified` implies `Spec => []IndexesServed` |

**Page file.** `PageFileAssumption` and `NoneAssumption` ask for two pages or more,
positive limits, a `None` that is no batch, no page value and no slot, and unused slots
with whole pages (`OldImagesAssumption`). `IInv` has three
parts. `TypeOK` alone is not inductive: `GroupSync` hands `pending` to `applyExtent`,
which takes the first extent, so a group sync must never start with nothing
pending. `Control` supplies this, and what checkpoints and recovery rely on:
nothing is queued outside `applyExtent`, nothing is pending and no batch is open
while the journal is cut or recovered, and outside a write of the main file all
of it is fsynced. `JournalCutWhenApplied` follows. `OwnBlocks` says what the journal
behind the start of an open batch holds: the blocks of that batch, no marker until
it is complete, nothing at all before its commit. `RollbackKeepsJournal` follows
for the only step that closes a batch on the way to an abort marker (`AbortOnly`).
The module goes from facts on finite sets of integers (an element of every rank, a
largest element: what `SlotPages`, `FreeList` and `SlotImages` choose), to the types
of the helpers, to one lemma for each group of actions and each part of the
invariant with one step per action. One definition of the model changed for the
proof: the arms of `WalFloor` overlapped - a power loss at one of the named program
points - and TLC took the first, where the prover may take any.

**Page file: durability.** The theorems of `PageFilePromises` need `SoundSettings`, and
each of its conditions stands for a counterexample: double-write is not switched
on or off between openings (slots left behind are copied over newer pages); nothing
fails while commits are grouped (the pending pages are cleared before they are
applied) or while fuzzy checkpoints leave a part of the journal; with fuzzy
checkpoints no crash falls between the cut of the journal and the record of it
(`StaleCutoff`). Where neither group commit nor fuzzy checkpoints are in use, any
fsync and any write may fail; crashes and power losses may come at any other
point, tear what was not fsynced, and be repeated during recovery.

The inductive invariant `Durability` is defined in `PageFileInvariant` and checked by
the run `PageFileCheckpoints`. It is `IInv` with three more parts:

- `Recoverable`: the journal is a sequence of whole extents, with at most the extent
  of the open batch, or what a crash left of it, behind them (`Layout`). A crash may
  cut it anywhere between `Floor`, up to which it is fsynced, and its end. For every
  such place, replaying the extents before it agrees with the image of the commits
  that survive the cut (`Kept`), and each page that differs from this image, in
  the main file as it is and as it was last fsynced, is written by an extent behind
  the recorded start of recovery (`Safe`). So nothing is said of one crash: all places
  are quantified over, and a crash is the step that picks one. `Cutoffs` puts the
  recorded start at the end of an extent no crash takes away; `SlotsBacked` says that
  the journal still has what a double-write slot would restore; `Quiet`, `Applies`
  and `Replays` say what the main file lacks while nothing is applied, while
  extents are applied and while they are replayed; `Stages` says at which program
  points a batch is open and how much of its extent is written.
- `Allocated`: page count, generations and free list describe the image that is
  shown, the one a rollback goes back to and the one a savepoint goes back to. It is
  needed for `Recoverable`: an extent must write only pages of the file it leaves,
  or recovery would resize them away (`Fitting`).
- `Asked`: no fuzzy checkpoint is under way where none is ever asked for.

`ReadsCommitted`, `BatchReadsPromised` and `AllocationMatchesPages` follow from it. What
relates two states needs more. `GenerationsAdvance` needs `Generations`: each committed
image goes on in all later ones (`Chain`), in what the batch shows and in what a
savepoint goes back to, since a power loss may uncover any of the images a group
has made. `ImplementsStore` needs `Single`: without group commit one image is
committed. The initial state maps to an initial state of `DurableStore`, and each
step to one of its actions or a stutter (`Seen` says what `View` is in a state).
`LsnFresh` needs `Numbered`: the last LSN of a finished extent is at or below the one
in the checkpoint record, or in an extent recovery will read (`Remembers`); its
hypothesis `CutsRecorded` excludes the window in which the journal is cut and the
record not yet written, where section 9 shows the watermark lost.
`NeverRefused` needs `Openable`: nothing was refused so far, the main file has a header
page that no extent and no slot takes away (`Headed`), no slot in use is torn
(`~BadSlots`), and what a crash leaves of the journal is whole extents and at most one
that lacks its marker (`Readable`). `SlotsRefused` is then never enabled, nor the other
refusals. Its hypothesis `WholeWrites` is about program points and not about what a
crash finds there. It excludes any crash while an extent, an abort or the record is
written and, with double-write, while slots are staged; a power loss while slots are
cleared or those found by recovery are, and one while commits are grouped; and
failing I/O, which leaves the same. Section 9 shows that files are refused there. What
is left is every other point of commit, apply, rollback, checkpoint and recovery.

The second half of `PageFileProofs` has the lemmas about journals: what the operators of the invariant
keep when a journal grows, is cut at the end (a crash, a rollback), is cut at the front
(a checkpoint) or is replaced, and then one lemma for each action and
`Recoverable`. `PageFilePromises` has `Allocated` and the theorems.

**Bridge.** For any number of sessions, requests, scripts and backups, all habits
and any faults. `TurnInv` adds to `TurnIsReleased` that only tasks of sessions wait,
are woken and hold the turn: a script or a backup leaves the queue without a word
about the turn, so it must never have been given it. Then the only steps that
matter are those in which the head leaves the queue (`LeaveTurn`), in which a task
joins it (`AcquireTurnKeeps`) and in which all sessions are cleared.

`TypeOK` says of each list that it holds the tasks that are at its place. For a
list from which one entry is taken that needs `Lists`: each task is there once. The
file begins with what `Append`, concatenation, `Tail` and `RemoveAt` do to such
lists. `Fresh` says that the ROLLBACK of a session not yet closed is still to come.

The locks need `Serial`: clients wait for their answers, close no busy session and
open none while the engine shuts down; section 9 shows that the first is needed.
`Matched` holds always: only the head of the queue is at work, an engine that is not
there has no transaction, one told to close has no sessions, and lock and engine
agree. Agreement after an answer needs exclusion before it, and exclusion when a
statement is submitted needs to know that the lock let it into the queue and that
no one got the lock since. `Orderly` says so: what is queued is allowed by the lock
(`LockAllows`), and no request that could still begin a transaction has another
session's task behind it (`Behind`). The latter rests on the turn: a queued request has it
(`TurnWithRequest`), so nobody else joins. That a session has one task in flight,
that its requests keep it registered and that its waiters are marked closes the
circle: the idle timer spares it (`SparedIdle`), so no one clears its turn. `Orderly`
is lost when the engine dies, which clears the sessions of requests that are still
woken; but then the bridge is quarantined and submits nothing (`Fine`).

`LockHolderCanRelease` follows from `Releasable`. A session that is closed while its
transaction is open sends a ROLLBACK; what has to be shown is that the lock and the
turn let it into the queue and that there is room. A session in the queue, and one
whose transaction is open, neither waits nor is to be cancelled (`QueuedCalm`,
`HolderCalm`), it is marked as active only while the engine works for it
(`RunningMarked`), and while it has the lock nobody else has a request in the
queue, which therefore holds scripts and backups only. `QueueRoom` asks for fewer of
these than the queue has places: without it the ROLLBACK is refused (section 9).

**Buffer pool.** `PoolKeepsWrites` is not inductive: an eviction of a clean frame
uncovers the file, and a rollback uncovers the snapshot. `CleanAgree` says that a
clean frame shows what the file has, `SnapshotsAgree` that the snapshots show what
had been written when they were taken (`AllStored`: a flush has come first), and
`StillMissing` that the page a call waits for is not in the pool yet, so that
`Load` replaces no frame. Each step is then one of four kinds: it touches neither
frames nor file (`Untouched`), pins or marks frames (`Alike`), writes some back
(`FlushStep`) or drops all (`DropStep`); eviction, loading, allocating, editing and
releasing have lemmas of their own. `GuardKeepsFrame` needs the invariant for
`Load` only. `RefusedOnlyWhenPinned` needs `Ringed`: the pool is within its capacity,
and under CLOCK, unless a write-back has failed, each resident page has an entry on
the ring. CLOCK gives up when its ring has run empty, and then the pool is empty. It rests on lemmas about what `RemoveAt`, `Append` and the
rings built from `SetToSeqs` hold.

**Transactions.** Everything that may still become visible - the open batch and
each savepoint - grows out of the file by writes that no answer has called
committed or denied (`Showable`); so a commit of any of them keeps what was
promised, and a rollback loses nothing that was. `Promised` says the same of the
labels given and of those the call under way will give. `CommittedKept`,
`DeniedGone` and `IdleFaithful` follow. All of it is about a page file without group
commit: with it a batch that is over may fail to be fsynced, which
`DeniedNeverShows` does not survive (`GroupAnswers`, section 9), and what is answered is
durable only with the group, which `PageFile` models. `CacheFresh` has an invariant
of its own (`Cached`): in a transaction that has changed something the cache is empty,
and what it holds is what some query with that key `Finds`. Which queries share a key is
left to `queryResultCacheKey`, so nothing is assumed of `Lower`; that a query may get
the result of another one is `CachedCase`.

**Tables.** While a statement runs, the tables are on the way to a destination that
was checked before the first row (`After`). Each step of a row leaves the destination
where it was, so the last one arrives there; a failing row undoes, and `Return` - where
the undo log leads - is sound as well. What a statement has to find out before it
starts is `StartStep`: that rows replaced by others leave the tables sound
(`SoundWith`), references of a table to itself included. Indexes follow row by row
(`RowStep`, `IndexedOver`, `IndexedCut`). The types need what a statement has still
to write and what its undo log goes back to (`TypeInv`).

**Heap.** For any tables, rows, page sizes and numbers of pages; `HeapAssumption` asks
for rows of at least one cell that fit a page with their slot (the code refuses the
others: ROW_TOO_LARGE), and a last generation of at least 1. `Used`, the room the
records take, is a function defined by recursion: `Induction`, from the library's
theorem that the order of the naturals is well-founded, gives its rule (`UsedRule`), that it
grows with the directory (`UsedGrows`) and what one changed slot does to it
(`UsedChanges`). From these, three lemmas about pages: `CompactedPacked` (records packed
anew lie behind one another, so none is overwritten by one that moved before it, and
each cell holds what it held), `InsertedTakes` (a record that `Fits` lands below them,
clear of the directory with the slot it may add) and `ErasedDrops`. `Inv` is about the
heap: every page is `Packed`, and has an owner exactly as long as it has rows; every
reference in `rows` names a page, a generation, a live slot and its generation, and
the slot `Holds` the row; every live slot is named by one; every reference in `stale` is
`Gone`: page or slot have a later generation, or are empty. A page that was released
keeps its generation until it is allocated again, so `Gone` has to say both.
`HeapInserts` and `HeapErases` are about the three values, so that `Replace` is the one
after the other. `HeapKept` says it of the instance that `MCStorage` checks.

**Catalog.** For any tables, references between them (to themselves and around cycles
included: a table of a cycle can never be created), index names and versions; the
heap may put a rewritten row anywhere. `CatalogInvariant` has three parts: the committed
store is `Sound`; while the process is up, so is the store of the batch, `mem` `Follows`
it and the runtimes are those the view asks for; and so is what a savepoint kept.
`Sound` says that a table has one row, with an identity of its own and its columns
present, that what a row references is itself or has a smaller identity (`Settled`),
and that pages are owned by the indexes of the rows. `Follows` says that view and
stored tables are those of the rows, in whatever order, and `nextId_` is above all
identities: the one given next is why `Settled` survives `CreateTable`.
What has to be shown of a restart is that `CreationOrder` puts parents first, in
every heap order. `After` is the invariant of the walk: no row is entered or placed
twice, so it has come to an end after twice as many visits as there are rows; the
rows it is inside of have descending identities, so that the parents of the row it
leaves are not among them and must have been placed (`Leaves`). `Loaded` then says that
what is read follows the store, `Agrees` that two catalogs that follow the same store
differ in the order of their tables only, and `Readable` that a sound store is not
`Corrupt`. A statement has to preserve `Sound` and `Follows` of the two sides it changes
(`TableCreated`, `IndexesRewritten`). The hypothesis `Qualified` is needed in
`DropIndexKeeps`: without it the view and the stored tables part (section 9). TLC checked the
invariant on this instance and on one of three tables before it was proved.

**Instances.** The properties `ConstraintsHold`, `IndexesMatchHeap`, `CatalogSurvives` and
`HeapServes` of the runs say of an instance what the theorems of `TablesProofs`,
`CatalogProofs` and `HeapProofs` say in general. Each behaviour of `MCStatements` is one of its
tables and one of its catalog (`TablesRun`, `CatalogRuns`); the assumptions on their
constants are `StatementsAssumption` and `HeapsAssumption`, which TLC evaluates.

**Only model-checked.** Liveness (`HandlersReturn`, `Answered`, `LockIsReleased`,
`SweepEnds`, `StreamEnds`, `DueCheckpointRuns`), which needs fairness and ENABLED. Of
the safety of the page file, the bridge, the pool, the heap, the transactions, the tables
and the catalog nothing is left to TLC but what the hypotheses named above leave out
(a DROP INDEX that `Qualified` excludes breaks `CatalogSurvives`). That a behaviour of `MCStorage` is
one of its heap is not proved, as `MCStorage` reaches recursive operators.

Nothing is proved about `SortStream` and `JoinStream` (`ServesTheQuery`,
`JoinsLikeTheLoop`, `NothingLeaks`), whose answers are folds and sums over runs and
partitions: the induction theorems for folds take an operator as a parameter. Nor
about `MemoryTree` and `IndexTrees` (`TreesServe`), `Plans` and `Optimizer`
(`OptimizerAnswersAlike`): their operators are declared RECURSIVE, with which the
prover gives up its SMT backend. `Heap` and `Catalog` show what it takes to leave this
list: recursion written as a function over numbers (the length of a directory, the
visits of a walk), and induction over a set of numbers.

## 11. Not modelled

- Page file: `copyTo`, the upgrade of version 1 files, the version 1 journal,
  archiving of the recycled journal, statistics and inspection, writes outside a
  batch. The exclusive lock and `publishFile`: one process has the file.
- Pool: counters, the eviction log. Heap: encoding of rows. Trees: encoding of
  keys, the limit of a node in bytes, torn node pages.
- Database: ANALYZE, backups, workload statistics, index advice, cancelling, the
  file locks of index snapshots, the count cache.
- Catalog: columns, keys, checks and their validation, migrations between schema
  versions; of the access catalog, users, roles and grants.
- Queries: lexing, parsing and binding (sequential transformations of a text,
  with no state of their own), subqueries and their decorrelation, grouping beyond
  what reads a sorted stream, the limits of `checkBudget`, disabled rules, pruning
  of inner projections, cost estimates beyond the choice of a hash join.
- Bridge: authorization, the offline backup and restore routes, the audit log,
  metrics, limits on sizes, frames of streamed results, the index and plan routes.
  Authorization is a pure function of a request and the access catalog.
- Servers and command line: a line protocol around `Database`.
- The workbench: a user interface.
