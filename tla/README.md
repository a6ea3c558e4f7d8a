# Verification of hyrise and the benchmarks of pmem-olap

This directory holds TLA+ models of the parts of the repository whose logic can be
checked: the transaction processing, scheduler, server, plan caches, optimizer,
read-only operators, encoded segments and table files of Hyrise, the hand-crafted star
schema benchmark, and the bandwidth microbenchmarks; the TLC instances that check them;
and TLAPS proofs about the commit protocol, the row versions, the MVCC delete plugin, the
scheduler, the operators of a transaction, the sessions of the server, the plan caches, three
of the join operators, the loop thread and both benchmarks. Paths below are relative to `src/ssb/hyrise-dram/src/lib` unless they start
with `src/` or `plugins/` (`src/ssb/hyrise-dram/src/plugins`).

    tlc -workers 2 -config MCMvccTable.cfg MCMvccTable     # check an instance
    tlc -workers 2 -config MCMvccDelete.cfg MvccDelete     # one without a module of its own
    tlapm TransactionManagerProofs.tla                     # check the proofs

## 1. Inventory

The repository contains two copies of the column store Hyrise (`hyrise-dram`,
`hyrise-pmem`), a hand-crafted star schema benchmark, bandwidth microbenchmarks and
plot scripts. The two Hyrise copies differ in where segments and hash tables are
allocated; of the files modelled here only `storage/chunk.cpp` (one assignment of an
allocator) and `storage/table.hpp` differ, so what is said of one holds for the other.
Hard to test are Hyrise's transaction processing, its scheduler, the background thread
that reorganises tables, and the sessions of its server, because they interleave; its
operators, because a join alone has seven modes, six conditions and five implementations,
and because NULLs, encodings, sort orders and indexes each open a path of their own; its
optimizer, because each rule relies on what the others leave; the
benchmarks, because they split work by integer division over threads and sockets.

| Component | State | Operations | Talks to | Hard behaviour | What makes it correct |
|---|---|---|---|---|---|
| TransactionManager, CommitContext (`concurrency/`) | `_last_commit_id` (the commit horizon), `_last_commit_context`, the linked list of contexts, the multiset of active snapshots | new transaction, register, deregister, new commit context, advance the horizon | called by TransactionContext; a committing thread runs the callbacks of other transactions | lock-free, every atomic access interleaves; who publishes a commit is decided by a race | commit ids dense and unique; the horizon covers whole transactions in order; every ready commit is published; acknowledgement after publication |
| TransactionContext | phase, snapshot, commit context, read/write operators, count of active operators | begin, commit, rollback, destructor; operator started/finished | operators, TransactionManager | a rollback must wait for operators in parallel tasks | complete rollback; no operator runs meanwhile; the wait ends |
| MvccData; Insert, Delete, Update, Validate (`operators/`, `storage/`) | tid, begin and end commit id of each row; invalid row count of each chunk | append and lock rows, stamp them on commit, undo on rollback, test visibility | tables, transaction context | fields are read and written one at a time, without a lock | Validate returns the snapshot; first deleter wins; rollback unlocks all rows |
| MVCC delete plugin (`plugins/`), GetTable | cleanup commit id of each chunk, queue of chunks to remove | logical delete (reinsert the live rows of a chunk), physical delete | storage manager, transaction manager, Update | the plugin moves and removes data under running scans | scans return their snapshot; a cleaned chunk holds nothing valid; removal waits for old readers and happens in the end |
| PausableLoopThread (`utils/`) | three atomic flags, a mutex and a condition variable | pause, resume, destruct; the loop | the plugin's two loops, load generators | flags change without the mutex | pause, resume and destruct do what they say and return |
| Scheduler (`scheduler/`) | per task: pending predecessors, scheduled/enqueued/started/done; queues; a worker's next task; counters | schedule, execute, pull, steal, wait, finish | operators spawn jobs and wait inside a task | several threads may enqueue the same task; nested waits; counters read while they move | each task once, after its predecessors; none forgotten; `wait_for_all_tasks` exact; no deadlock |
| OperatorTask, AbstractOperator | output, read/write operator state | execute, roll back, clear outputs | scheduler, transaction context | tasks of an aborted transaction; consumers that share an input | inputs available; rollback complete |
| Session, server (`server/`) | transaction of the session, portals, the flag of a failed message; prepared plans and the count of running sessions, which all sessions share | one handler per PostgreSQL message; accept; shutdown | SQL pipeline, storage manager | errors between messages, implicit commits, sessions next to the shutdown | an answer says what happened to the transaction; no auto-commit transaction survives its statement; a named plan is final once those who found its name free have stored theirs; shutdown waits and returns |
| SQL pipeline (`sql/`) | per statement: plans, tasks, transaction, result | translate, optimise, execute, commit | caches, scheduler | statements after a failed one; plan and table looked up at different times | the plan that is executed fits the statement, and no other statement executes the same object |
| Plan caches (`cache/`) | map and heap, inflation, capacity | get, set, evict, resize, clear | SQL pipeline | eviction at the capacity; DDL by other sessions | map and heap agree; what is not used goes in the end |
| Read-only operators (`operators/`) | data | scans, joins, aggregates, sort, limit, set operations | each other, through tables that carry guarantees (single chunk, sorted, clustered) | NULLs, empty sides, value ids at the end of a dictionary, runs of equal values, guarantees lost or kept | each returns what a definition on whole tables says; the guarantees are true |
| Segments, encodings, indexes (`storage/`) | compressed vectors, runs, frames, blocks; the block that a decompressor has unpacked last; dictionaries, group-key index | encode, exchange for another encoding, iterate, read by position or through an accessor; bounds, lookup | scans, joins, the task that encodes a chunk | caches that are kept from one read to the next, shared by accessors; widths chosen from the values; NULLs that are flags, value ids or offsets; bounds behind the last value | whatever the encoding and the order of reads, a read returns what was stored |
| Storage manager, other registries | concurrent maps | add, drop, get | all | state that changes between a check and its use | covered where sessions and caches use it |
| Star schema benchmark (`src/ssb/handcrafted/ssb.cpp`) | a queue of queries; per query an intermediate buffer, hash tables | take a query, scan, group, collect | Dash hash tables (external) | an unprotected queue; work split by division; shares of a buffer | results of a sequential evaluation; each query once |
| Bandwidth microbenchmarks (`src/microbenchmarks/benchmark/`) | mapped memory, a ring of addresses | shuffle, fill, run a kernel | pthreads | a barrier, shares by division | one ring through all nodes; threads keep to the mapped memory and to their own share, and leave nothing of it out; kernels end |
| Optimizer, LQP, expressions (`optimizer/`, `logical_query_plan/`, `expression/`) | the plan of a query: a graph of nodes that may share inputs | sixteen rules, each applied once, in a fixed order | SQL pipeline; statistics, for estimates and for chunks that cannot match | each rule relies on what the others leave; predicates move past outer joins, NULLs and shared subplans | the plan returns what the query asks for, after every rule and whatever the estimates say |
| Statistics (`statistics/`) | range and min-max filters of encoded chunks; histograms | build, prune, estimate | optimizer | bounds, gaps, NULLs | a pruned chunk has no row that matches; estimates promise nothing |
| SQL translator | syntax trees | translate | SQL parser (external) | none: no state, no concurrency | not modelled: a function on syntax trees |
| Import and export (`import_export/`) | files | write a table, read it back in place of the stored one | COPY, operators Export and Import, encoded segments, MVCC data of chunks | nothing in a binary file says what an item is; quotes, separators and NULLs in CSV; references; a segment that is refused half-way | a file holds the table that was exported, or is not taken for one |
| Memory resources, benchmark library, scripts | - | - | external allocators, files | - | not modelled: external code, drivers |

`PROJECT.json` lists every component with its status, and under `hazards` the places
where each hard behaviour bites.

## 2. Modules

| Module | Models | State and steps |
|---|---|---|
| `CommitOrder` | what the commit protocol promises, abstractly | a counter of tickets, the set of ready transactions, one horizon; the horizon advances over ready tickets in order, and only then is a commit acknowledged |
| `TransactionManager` | `transaction_manager.cpp`, `commit_context.cpp`, the commit side of `transaction_context.cpp` | one program counter per transaction's thread, one action per atomic access; `inc[t]` is the context whose callback t's thread runs, which may belong to another transaction |
| `MvccTable` | `mvcc_data.cpp`, `insert.cpp`, `delete.cpp`, `update.cpp`, `validate.cpp`, `abstract_read_write_operator.cpp` | rows with tid/begin/end; every field access is a step. The order of commits comes from `CommitOrder` (INSTANCE), which `TransactionManager` implements |
| `MvccDelete` | `plugins/mvcc_delete_plugin.cpp`, `get_table.cpp`, chunk append and removal | two plugin threads and client transactions; row operators are atomic here, since `MvccTable` looks inside them |
| `PausableLoopThread` | `utils/pausable_loop_thread.cpp` | the loop thread and an owner, with the window between a wait's predicate and the wait |
| `TaskGraph` | what the scheduler promises, abstractly | started and completed tasks, and whether the scheduler is closed |
| `TaskScheduler` | `scheduler/` | a client thread and workers with a stack of tasks, queues with two priorities, next task, stolen task |
| `TransactionOperators` | `operator_task.cpp`, `abstract_operator.cpp`, the operator side of `transaction_context.cpp` | one program counter per operator's task; the plan is chosen in the initial state |
| `Session` | `server/server.cpp`, `session.cpp`, `query_handler.cpp`, the statement life cycle of `sql_pipeline.cpp` and `sql_pipeline_statement.cpp` | one thread per session, one action per handler or per stretch of a handler between two looks at shared state; transaction contexts are objects, held by index |
| `GDFSCache` | `cache/gdfs_cache.hpp` | operators from a cache to a cache, since every method holds the mutex from end to end |
| `PlanCache` | `get_physical_plan`, `get_optimized_logical_plan` of `sql_pipeline_statement.cpp` and the storage manager's tables | threads that run statements, one action per access to a cache or a table; two instances of the cache |
| `Tables`, `Joins`, `JoinOperators` | `join_nested_loop.cpp`, `join_hash.cpp` with its steps, `join_sort_merge.cpp`, `join_index.cpp`, `join_verification.cpp` | pure operators on tables of chunks of rows; a join executes once |
| `Scans`, `SortsAndUnions`, `Aggregates`, `QueryPipeline` | `table_scan*`, `index_scan.cpp`, `sort.cpp`, `limit.cpp`, `union_*.cpp`, `difference.cpp`, `aggregate_*.cpp`, dictionary and reference segments, group-key index | pure operators on chunks of positions with their guarantees; a pipeline applies them one after the other |
| `LogicalPlans` | expressions, nodes and plan edits of `logical_query_plan/`, `expression_utils.cpp`, `expression_evaluator.cpp` | a plan is a function from node ids to nodes; `PlanResult` is what it returns |
| `PredicateRules`, `PlanRules` | eleven rules of `optimizer/strategy/`, `join_ordering/`, the filters of `statistics/` | operators from a plan to a plan, or to the plans that estimates may lead to |
| `Optimizer` | `optimizer.cpp` | the plan and the next rule; one action per rule |
| `VectorCompression` | `storage/vector_compression/` | pure operators: compressors, packing, and a decompressor as a record that `Locate` moves to a block |
| `Segments` | the encoders of `storage/*_segment/`, `segment_positions.hpp` | a segment is a record; an encoder maps positions to one |
| `SegmentReaders` | iterators, position list iterators and accessors of the six encodings, `chunk_encoder.cpp` | a column, its segment, the segment's decompressor, and a reader per thread |
| `BinaryFiles` | `import_export/binary/` | a file is a sequence of items with widths; pure operators write and parse it |
| `TableFiles` | `import_export/csv/`, `export.cpp`, `import.cpp`, the output of `validate.cpp` | the stored table and the last file; actions encode a column, export (directly or validated) and import |
| `ReadOnlyOperators` | all of the above from `Tables` on | the optimizer on the plan of a query, a join, a pipeline, the readers of a column, or the files of a table |
| `StarSchema` | `src/ssb/handcrafted/ssb.cpp` | workers; per query the steps scan, group, collect of threads and sockets; the queue's check, decrement, read and advance are steps of their own |
| `Microbenchmark` | `bw_benchmark.c`, `pmem_mapping.c`, `read_bw_benchmark.c`, `write_bw_benchmark.c`, `parsing.c` | one operation: swaps of the shuffle, writes of the ring, threads, barrier |

`<Module>Proofs` holds the theorems about a module: of `TransactionManager`, `MvccTable`,
`MvccDelete` (with those about `PausableLoopThread`, on whose threads the plugin's loops run),
`TaskScheduler`, `Session` and `PlanCache`. `OperatorProofs` holds those about
`TransactionOperators` and `JoinOperators`, `BenchmarkProofs` those about `Microbenchmark` and
`StarSchema` (section 5). Modules that a module of proofs extends side by side name their
specifications apart: `JoinSpec`, `LoopSpec`, `StarSpec`.

`MC<Module>` instantiates a module for TLC; where a configuration gives every constant its
value itself (`TransactionManager`, `MvccDelete`, `PausableLoopThread`), TLC runs the module.
Composition: `MvccTable` uses `CommitOrder`,
`TransactionManager` refines it; `TaskScheduler` refines `TaskGraph`, whose promise
(a task begins when the tasks of its inputs have returned) is the guard of `BeginTask`
in `TransactionOperators`; `MvccDelete` uses the promises of `MvccTable` (a scan returns
its snapshot, a delete fails on a locked row) as atomic steps, and its two loops run on
the threads of `PausableLoopThread`. `Session` uses of a transaction its phase and whether
it wrote, and takes the plan that `PlanCache` finds as given; that jobs of an operator run
in any order is the business of `TaskScheduler`, so the operators of `Joins` and `Scans`
are functions. `RowsOf` of `LogicalPlans` states what each operator returns for a table, which
is what `JoinOperators` and `QueryPipeline` show of the operators themselves.

Abstractions that all modules share: SQL, names and log messages are left out, and so are
the values of rows where nothing depends on them (the operators work on small integers and
NULL); a step of a thread is one access to shared state, under sequential consistency
(the code uses the default memory order, and where it does not, as in `set_tid`, each
access is to a single atomic). Fields that are not atomic (`_begin_cids`, `_end_cids`)
are read and written as a whole.

Abstractions of single modules. In `Session` whether a write runs into a conflict is left open. The
two checks and the two assignments of `add_prepared_plan` and `drop_prepared_plan` are steps
of their own, since no lock joins them; a session that assigns a plan's `shared_ptr` while
another is at the same entry may bring the process down (`Races`), in the place of whatever
else becomes of a pointer that is released twice or copied half. In `PlanCache` an
exception ends the statement (on a worker's thread nobody catches it), the heap may put
any of several equal entries on top, and a plan is its text, its MVCC mode, the layout of
the table it was made for and the thread that created it. In `StarSchema` the columns that
group are one key and the columns that aggregate one sum; the Dash tables are external
maps. In `Microbenchmark` an address is a cache line, and `Block` is the number of lines that
the macros of 8192 bytes span (128). Each kernel touches what its assembler touches, not what its
access distance says: the distances of 64 to 65536 bytes have kernels of their own
(`Unrolled`), the rest share one per function, whose steps `WrittenBlocks`, `ReadAt` and
`WrittenAt` follow. Where `read_nt_random` may or may not go on from the next address,
because the compiler may give the output `next_addr` the register of the input `addr`, both are
allowed (`Ahead`). In `LogicalPlans` a string is its first two
characters, COUNT(*) is the only aggregate and a correlated subquery the set of values for
which it returns rows; a row carries the positions of its base rows, which stand for the
references that UnionPositions compares. In `PlanRules` join ordering gives every plan that
the enumeration can choose among, whatever it costs; in `Optimizer` so do the estimates of
cardinality in PredicatePlacement, PredicateReordering and SemiJoinReduction. In
`VectorCompression` a number has `WordBits` = 4 bits (32 in the code), one lane stands for
the four of a 128-bit block, so a block has 4 numbers (128), and a meta block has
`MetaBlocks` = 2 blocks (16); numbers are packed into words bit by bit, and the signed
subtraction of a frame's minimum wraps, as the conversion to `uint32_t` does. In `Segments`
a frame has 2 values (2048) and an LZ4 block 3 cells (16 384 bytes); what LZ4 does inside a
block is external. In `SegmentReaders` an access through an accessor is two steps, since
threads share the decompressor: it is brought to the block, then the number is read, and if
the block has moved in between the number may be any; a step updates a cache as a whole.
In `BinaryFiles` an item that is read with another width than it was written with fails, in
the place of misread bytes and of the end of the file. In `TableFiles` a character is a
number, an integer and the word null are one character each, all options of the CSV format
are the defaults, and the columns that the JSON file beside a CSV file describes are a field
of the file. Import drops and adds the table in one step, since nothing else uses it; an
import that throws leaves the stored table.

## 3. Runs

| Run | Instance | Distinct states | Shows |
|---|---|---|---|
| `MCTransactionManager` | 3 transactions of 1 record | 208 228 | `CommitIdsUniqueAndDense`, `NoPartialCommitVisible`, `AcknowledgedIsVisible`, `ActiveSnapshotsExact`, `SnapshotStable`; refinement of `CommitOrder` (`ImplementsCommitOrder`); every `commit()` returns, and the abstract order with its fairness is implemented (`CommitReturns`) |
| `MCMvccTable` | 2 transactions of up to 2 operators, chunks of 2 rows, 4 rows | 697 260 | `ValidateReturnsSnapshot`, `NoLostUpdate`, `RollbackReleasesLocks`; `RowsConsistent`: types and exact counts of invalid rows; all at field granularity |
| `MCMvccDelete` | 2 clients, chunks of 3, 3 chunks | 34 667 | `PromptSnapshotIntact`: scans of promptly registered transactions return their snapshot while rows are moved and chunks removed; `TableConsistent`: types, no scan returns a row twice; `OnlyNewRowsLeftBehind`; `CleanedChunkIsRemoved` |
| `MCPausableLoopThread` | 5 calls and the destructor | 708 | `LoopConsistent`: types, the first pause holds; `PauseReturns` |
| `MCTaskScheduler` | a diamond of 4 tasks with 2 jobs in nested waits, one task not to be stolen, 2 nodes | 228 006 | `TasksConsistent`: types, each task once and in order, none lost; `NothingLeftAfterWait`: `wait_for_all_tasks` exact; refinement of `TaskGraph`; `FinishReturns`, which takes the execution of every task |
| `MCTransactionOperators` | an UPDATE plan of 5 operators, and one whose writer runs in parallel | 7 862 | `InputsAvailable`; `RollbackConsistent`: types, complete rollback, and in the UPDATE plan no operator runs during it; `StatementConflictIsRolledBack` |
| `MCSession` | a client with 12 kinds of messages (3 of them), one with 2 (1), the shutdown | 634 168 | `AnswersTruthful`: what a query or a Sync is answered is what happened to its transactions; `SessionsConsistent`: no auto-commit transaction is carried over, counted sessions end before the server; `NamedPlansStay`: a named plan is final once no Parse of the name is between check and assignment; `ShutdownReturns` |
| `MCSessionContext` (violation) | one client, 5 messages | - | a session keeps a rolled back transaction (`ContextIsActive`) |
| `MCPlanCache` | 2 threads with 4 and 1 statements of 5 kinds, capacity 2, one `clear` or `resize` | 2 748 175 | `CachesConsistent`: map and heap agree, the capacity holds, what is not used goes, meta queries stay out; `PlansOwnAndFitting`: no two statements execute one plan object, and each plan is of the statement's text and MVCC mode |
| `MCReadOnlyOperators` | all joins on pairs of tables of up to 3 rows; pipelines of up to 4 operators on 7 base tables; 23 queries through 12 kinds of rule steps; 8 columns through any two encodings; 5 tables through any 4 of encodings, exports and imports | 421 566 | `JoinsExact`: each join returns what the verification join does; `OutputsExact`: types, scans, index scans, sort, limit, set operations, both aggregations, and what an output claims of its chunks (single chunk, sorted, clustered) is true; `PlanKeepsResult`: after each rule of the optimizer the plan is well formed and returns what the query asks for; `SegmentsExact`: each read of a column, by iterators forwards, backwards and in jumps, by position and through accessors, returns the stored value or NULL (`ReadsAreExact`), what a decompressor keeps is what the vector has there (`CachesCurrent`), and the stored table and the last file have the columns and rows of the first table, with claims of order that are true (`FilesExact`) |
| `MCStarSchema` | 6 command lines: leftovers, small shares, two sockets, two workers | 73 352 | `ResultsTrue`: no group is invented, and where the shares divide the result is that of a sequential evaluation; `EachQueryOnce`; `WorkersReturn` |
| `MCMicrobenchmark` | 176 operations: every kernel, sizes that divide and that do not, distances with and without a kernel of their own, rings of none to 5 nodes | 28 698 | `RingIntact`: list and memory are one ring through all nodes; `SharesKept`: no thread leaves the memory, threads apart and nothing left out, where the kernel keeps to its accesses; `BarrierKernelsFinish` |

`TypeOK` of each module is part of the named conjunction that speaks of consistency.

### Bounds, and why they are enough

- **Transactions.** The handover of the horizon involves the thread that publishes, the
  owner of the next context and a third thread that links behind it: three. Rows and
  operators have pairwise conflicts only: two.
- **Records.** What a transaction writes matters only as "complete or not"; one record
  has both states. The proofs hold for any number.
- **Rows and chunks.** `MCMvccTable` has a loaded chunk (with the shortcut of Validate) and
  a mutable one, each with two rows, so that a rollback can stop between two rows and an
  insert can lie before or after a deleted row. `MCMvccDelete` needs the chunk that is
  cleaned, the one its rows move to, and one more for clients.
- **Hotness** (`DELETE_THRESHOLD_LAST_COMMIT`) is 0, the smallest distance, which lets the
  plugin work on chunks that were written just now.
- **Tasks.** Join of two predecessors, two successors of one task (one becomes the
  worker's next task, the other is pushed), a chain of grouped jobs, two workers in nested
  waits on different nodes.
- **Calls = 5** of `pause`/`resume` let a pause follow a resume that the loop thread has
  not acted on, twice.
- **Messages.** A Parse, a Bind and an Execute are three; a second client defines the same
  named statement or drops the unnamed one while the first looks at it. The one-client
  instance has five messages: a whole extended query and one after it.
- **Statements and the caches.** Four statements of one thread over a cache of two
  entries let an entry be evicted, come back, and be held against a younger one; the other
  thread's one statement falls between any two steps of theirs. `clear` and
  `resize` (to 1) happen once.
- **Tables.** The joins see all tables of up to two rows over NULL, 0, 1, 2 and some of
  three: empty sides, NULL against the value it is materialized as, runs of equal values,
  a chunk of more than one row, several chunks. `BloomSize` is 2, so that values share a
  slot (2^20 slots in the code); radix bits 0 and 1 give one partition and two. Base
  tables are chosen to have each property once: dictionaries, NULLs, indexes on some or all
  chunks, sorted ascending and descending, clustered. `OutputChunkSize` is 3 (65 535 in the
  code) so that sorting fills more than one chunk. Four steps are a scan, a sort, a
  second branch and its union, or two and an aggregation.
- **Queries.** Each makes a rule act in a way of its own: cross products that become joins,
  predicates above and below outer, anti and semi joins, HAVING, disjunctions that restrict
  one or both inputs of a join, ranges and prefixes, short and long lists, diamonds that are
  nested, overlap or lie directly over a table, correlated subqueries, a limit over a sort. The three
  tables have a NULL, a row that is not visible, keys that are unique among visible rows
  only, and a chunk without statistics. Thresholds are scaled to them: `MinJoin` is 4 (20 in
  the code), `MinUnionCount` 2 (4), `MaxRanges` 2 (10), `MaxCharacter` 9 (127);
  `MaxDisjunction` is 3 as in the code. `MaxReductions = 2` semi join reductions are taken
  at once.
- **Columns.** NULLs next to the value that stands for them, a full and an incomplete
  block, more values than the narrow width can number, both ends of the range, three meta
  blocks, a frame of NULLs only, strings that begin, end and span blocks, empty strings,
  nothing at all. Two encodings in turn, because an encoder reads through the iterator of
  the encoding before. Any offset may follow any other, which includes jumps back, over a
  meta block, and within a run.
- **Files.** Five tables: both types, nullable and not, NULLs next to the values that stand
  for them, texts made of quotes, separators and line breaks, the word null, a claim of order
  on some chunks, chunks of one row, no rows. `MaxFileSteps = 4` lets a column be encoded,
  exported, imported and exported again, or encoded twice before. `ExportAnything = FALSE`
  leaves out what the writers are known to lose (section 4). `ChunkSizes` are 1 and 3.
- **Command lines.** Each of the six makes one case of the collection happen: a tuple left
  over by the division, a share that is too small, two sockets, a second query that reuses
  the buffers, two workers at the queue.
- **Operations.** `Block = 2`, hence kernels of their own for 1, 2, 4, 8 and 16 lines and blocks of
  `write_nt` of 32. Small distances in memories of 1 to 17 lines, one to three threads:
  divisible and not, a ring of two nodes, in which both neighbours are the same node, and
  rings of none and one, which `linked_list_create` writes beyond (`pmem_mapping.c:221-241`: phase
  "crash"). Without a kernel of its own: `write_nt` at less than a block, one block, a block and
  a remainder, two and three blocks, in memories that end between the blocks and behind them;
  `read_nt_random` at less than a block, one and two loops; `write_nt_random` at none, one and two
  loops.
- `MaxRows`, `MaxOps`, `MaxChunks`, `Calls`, `MaxEncodings`, `MaxFileSteps`, `MaxMessages`, `MaxStatements`, `MaxServices` and
  `MaxSteps` are bounds of the models only; the actions that would pass them are guarded.

### Fairness

Weak fairness of each thread (`Proceed(t)`, `LoopThread`, `Worker(w)`, `Task(o)`, `Run(s)`,
`Work(w)`, `Main`, `Kernel`, the two plugin loops): the operating system schedules every
runnable thread. In
`TransactionManager` a client need not begin, commit or roll back, but a call it has made
proceeds. In `MvccDelete` a transaction that has begun goes on and ends (a client that
keeps its transaction open for ever holds back the physical delete, as it should). In
`Session` a client ends at last, but need not connect, and nobody need call shutdown; the
caller of shutdown keeps looking (`WF_vars(Stop)`; with finitely many clients the count
stays at zero in the end). In `TaskScheduler` there is strong fairness of `Pull(w)`: a
worker that finds nothing it may take sleeps (worker.cpp:79) and so cannot keep taking a
task that may not be stolen out of the queue and pushing it back at the very moments at
which its owner looks; without it that worker and the owner could go on like this for
ever. Spurious wakeups, stealing of one particular task and the
owner's next call are not forced. `PlanCache` and
`ReadOnlyOperators` state no liveness and need no fairness.
`CHECK_DEADLOCK FALSE` is set where the system may stop: all clients have left or the
process has crashed (`MCSession`), the query has been evaluated (`MCReadOnlyOperators`), a
kernel waits at a barrier for ever (`MCMicrobenchmark`), the owner of a loop thread calls
nothing more, or a plan has been executed; the modules that end have an explicit final
stutter instead.

`MvccDelete` keeps three history variables. `content` is the table as of each commit id,
the reference that scans are compared with. The code lets clients race with the plugin in
ways that break what its comments promise, and `prompt` (transactions that were registered
while their snapshot was still current) and `moved` (the snapshot whose rows the plugin has
moved out of a chunk) say for whom the promise holds all the same: the passing run checks
that; the promise as it is stated is violated (section 4). `touched` and `early` in
`Session` are the contexts used since the last answer, and the sessions counted when
shutdown was called.

## 4. What the runs found

The run `MCSessionContext` shows, and `PROJECT.json` lists under `findings`: a prepared
write that runs into a conflict in Execute leaves its session with a transaction that is
rolled back. `_handle_execute` does not look at the phase and answers CommandComplete; the
next Sync calls `commit()` on that transaction, which throws, and again at each Sync after
it; the next query starts a pipeline whose constructor asserts that its transaction is
active.

The properties below say what a comment or a name in the code promises, and TLC finds each
violated. To see one, put it in the place of the properties of the instance named
(`INVARIANT`, or `PROPERTY` where marked with *). Three need other constants as well, given
beside the instance's name, and the first of them no symmetry. For the optimizer the property is
`PlanKeepsResult` and the instance needs the query as one more member of `MCQueries`, which
holds none of these. For columns it needs other constants, `MaxEncodings = 1` and (a) two
`Threads`, `StoredColumns <- MCShared`, `Specs <- MCSimd`; (b) `EncodeWhileAccessed = TRUE`,
`MCShared`, `MCLz4`; (c) `MCFullBlocks`, `MCLz4`. For files it is `SegmentsExact` with
`ExportAnything = TRUE` and (d) `FileTables <- MCNullFirst`, (e) `MCStringsOnly`, (f) `MCIntsOnly`.

| Instance | Property | Where | What happens |
|---|---|---|---|
| `MCMvccTable`, `AnyOrder = TRUE` | `RollbackReleasesLocks` | `operators/delete.cpp:128` | a rollback stops at the first row it does not hold; a row that the transaction itself inserted has lost its tid, so with an input in any order later rows can stay locked for ever |
| `MCMvccDelete` | `SnapshotIntact` | `concurrency/transaction_manager.cpp:31` | a snapshot is read before it is registered, so the physical delete removes a chunk under a transaction that has just begun |
| `MCMvccDelete` | `GetTableFindsChunk` | `operators/get_table.cpp` | a chunk is removed between the two loops, and the second dereferences it |
| `MCMvccDelete`, `Live = 0` | `CleanedChunkFullyInvalidated` | `plugins/mvcc_delete_plugin.cpp:170` | the cleanup commit id is set although rows that were not in the plugin's snapshot are still in the chunk; they go with it |
| `MCPausableLoopThread` | `DestructorReturns`* | `utils/pausable_loop_thread.cpp` | the destructor notifies without the mutex; the notification can be lost, and `join` waits for ever |
| `MCPausableLoopThread` | `StartsPaused` | `utils/pausable_loop_thread.hpp:14` | the loop runs at once |
| `MCPausableLoopThread` | `PausedMeansPaused` | `utils/pausable_loop_thread.cpp:44` | a second `pause()` returns on a stale flag |
| `MCPausableLoopThread` | `ResumeIsSafe` | `utils/pausable_loop_thread.cpp` | pause, resume, pause: the loop waits on and unlocks a lock it does not own |
| `MCTransactionOperators` | `ConflictIsRolledBack`* | `concurrency/transaction_context.cpp:194` | the wait lasts until operators *are* active: with a writer that runs in parallel it never ends |
| `MCTransactionOperators` | `TemporaryTablesAreCleared` | `scheduler/operator_task.cpp:113` | two consumers that end together leave their input uncleared |
| `MCTransactionOperators`, `Ops` and `RW <- Writers`, `Plans <- WriterPlans` | `SkippedOperatorIsNoop` | `operators/abstract_operator.cpp:47` | skipping a second writer fails an assertion |
| `MCSession` | `NamedPlansNeverRedefined`* | `storage/storage_manager.cpp:158` | two sessions that parse one name both find it free, and the second to assign redefines the plan, although "Named prepared statements must be explicitly closed before they can be redefined" (`query_handler.cpp:48`); the map promises thread safety for different names only (`storage_manager.hpp:50`) |
| `MCTaskScheduler` | `StartsAfterPredecessorsAreDone` | `scheduler/abstract_task.cpp:103` | a task may start before its predecessors are `is_done()` (they have returned) |
| `MCPlanCache` | `PlansCurrent` | `sql/sql_pipeline_statement.cpp:178` | a statement executes a cached plan that was made for a table dropped and created again since |
| `MCPlanCache` | `CheckedTablesChange` | `sql/sql_pipeline_statement.cpp:214` | the check that a table exists is made before the tasks are, and does not hold when they run |
| `MCReadOnlyOperators` | `AggregateSortCountExact` | `operators/aggregate_sort.cpp:121` | COUNT(*) of a group behind a chunk without rows of it is one too high |
| `MCReadOnlyOperators` | `SortMergeOuterExact` | `operators/join_sort_merge.cpp:590` | a non-equi outer join loses rows without a partner when none of the table lies in the range that may have one, and fails when the other side has NULLs only |
| `MCReadOnlyOperators` | `IndexAntiExact` | `operators/join_index.cpp:366` | AntiNullAsTrue with the index on the returned side: one NULL takes its whole chunk out of the result |
| `MCReadOnlyOperators` | `PlanKeepsResult` | `optimizer/strategy/expression_reduction_rule.cpp:113` | `(a AND b) OR b` becomes `b AND a`: a disjunct that consists of the common part alone is dropped instead of absorbing the others |
| `MCReadOnlyOperators` | `PlanKeepsResult` | `optimizer/strategy/in_expression_rewrite_rule.cpp:36` | `NOT IN` a list with a NULL that is long enough to become a join: the NULL is left out of the table, so rows are returned for which the predicate is NULL |
| `MCReadOnlyOperators` | `PlanKeepsResult` | `optimizer/strategy/predicate_placement_rule.cpp:283` | a predicate with a correlated subquery is pulled up out of the right input of a semi or anti join, whose columns do not exist above it |
| `MCReadOnlyOperators` | `PlanKeepsResult` | `optimizer/strategy/predicate_placement_rule.cpp:84` | an expensive predicate as a join's right input: the recursion goes on at its right instead of its left input, and the predicates collected above are lost |
| `MCReadOnlyOperators` | `PlanKeepsResult` | `optimizer/strategy/semi_join_reduction_rule.cpp:126` | the right input of AntiNullAsTrue is reduced by a semi join, which drops the NULL that empties the result |
| `MCReadOnlyOperators` | `PlanKeepsResult` | `optimizer/strategy/chunk_pruning_rule.cpp:72` | a diamond directly over a table: an empty set of chunks to exclude counts as none computed yet, so the chunks that the other branch excludes are skipped for both |
| `MCReadOnlyOperators` | `PlanKeepsResult` | `logical_query_plan/union_node.cpp:45` | an Assert fails in ColumnPruning for a mutually exclusive disjunction below a join that only tests for existence: of a nested diamond one branch has unique columns and the other, a UnionAll, has none |
| `MCReadOnlyOperators`, (a) | `AccessorPerThreadSuffices` | `storage/dictionary_segment.hpp:37` | an accessor goes to the one decompressor of its segment, and `get()` of the SIMD-BP128 decompressor (not the default) moves the block that it has cached, without a lock: two threads with an accessor each, which `segment_accessor.hpp:41` asks for, read one another's blocks |
| `MCReadOnlyOperators`, (b) | `ExchangedSegmentStaysValid` | `storage/reference_segment/reference_segment_iterable.hpp:233` | an accessor refers to a segment without holding it; `ChunkCompressionTask`, whose comment (`tasks/chunk_compression_task.hpp:16-20`) relies on shared pointers, may exchange the segment meanwhile. Only tests schedule that task |
| `MCReadOnlyOperators`, (c) | `LastStringEndsWithData` | `storage/lz4_segment.cpp:321` | where the characters of a segment fill its last LZ4 block, the block of the end of the last string does not exist; although no character of it is needed, reading the string by position throws (whole-segment iterators do not) |
| `MCReadOnlyOperators`, (d) | `SegmentsExact` | `import_export/csv/csv_parser.cpp:41` | a file whose first line is a lone NULL begins with a line break; the parser takes it for an empty file and the rows are lost |
| `MCReadOnlyOperators`, (e) | `SegmentsExact` | `import_export/binary/binary_writer.cpp:174` | the lengths of strings behind references follow as many zeros, which the parser takes for the lengths. COPY always exports references (`sql/sql_translator.cpp:1395`); NULLs behind them become values |
| `MCReadOnlyOperators`, (f) | `SegmentsExact` | `import_export/binary/binary_writer.cpp:153` | a column that is not nullable and has been encoded as Unencoded has NULL flags (`storage/chunk_encoder.cpp:75`), which are written although nothing announces them |
| `MCStarSchema` | `ResultComplete` | `src/ssb/handcrafted/ssb.cpp:908` | the tuples of a socket's threads are counted by thread: groups behind that count are lost |
| `MCMicrobenchmark` | `OperationFinishes`* | `src/microbenchmarks/benchmark/bw_benchmark.c:83` | the main thread waits at a barrier that kernels other than `nt` never reach |
| `MCMicrobenchmark` | `EveryLineTouched` | `src/microbenchmarks/benchmark/write_bw_benchmark.c:306`, `read_bw_benchmark.c:307` | `src/microbenchmarks/README.md:26` calls the access distance "the number of bytes each thread reads during a cycle", and `scripts/microbenchmarks/all_benchmarks.sh` runs distances up to 33554432. From 262144 bytes on `write_nt` skips every other 128 KiB, because its address goes on in the assembler and again behind it; below 131072 bytes and without a kernel of its own it writes nothing. `read_nt_random` beyond 65536 bytes reads one block of 8 KiB over and over, because the address is only an input of its assembler, and from 131072 bytes on another at the next node |
| `MCMicrobenchmark` | `WritersApart` | `src/microbenchmarks/benchmark/write_bw_benchmark.c:307` | the same two steps make `write_nt` run into the access of the next thread from 262144 bytes on, at the log pattern |

`TablesAssumption` of `JoinOperators` (a table that has chunks has rows) hides a corner of the
hash join that no plan reaches. Without radix partitions, a build side of chunks that have no
rows leaves `build` with an empty hash table (`join_hash_steps.hpp:384-399`) where a build side
without chunks leaves none. An anti join that treats NULL as true then takes the branch at line
733, which drops the NULLs of the probe side, although the comment at lines 804-806 has them
emitted if the build table is empty. All operators leave out chunks without rows
(`get_table.cpp:116`, `aggregate_hash.cpp:655`), and a stored table has an empty chunk only
before its first insert, whose chunk `GetTable` leaves out.

Reading `server/` for `Session` showed more that the model has and no property states:

- After such a conflict a further write, COMMIT or ROLLBACK of the same session throws in a
  task, on a worker's thread, where nobody catches it (`server = "crashed"`).
- A session that ends, or that drops its transaction after an error, abandons the
  transaction; the rows it has locked stay locked.
- The flag `_sync_send_after_error` is not cleared by Execute, and a Parse and a Bind that
  both fail send two ReadyForQuery.
- The unnamed prepared statement is one for all sessions (as in `_prepared_plans`), so one
  session's simple query takes it from another between its Parse and its Bind.
- Sessions that assign one entry of `_prepared_plans` at a time, or copy and assign it, race on
  a `shared_ptr` (`Races`).
- A session is counted by its own thread; shutdown can read 0 between accept and that
  moment, and `_establish_connection` runs outside the `try` of the session.

## 5. Proofs

All theorems are about `Spec` (`JoinSpec`, `LoopSpec`, `StarSpec`), for every value of the constants that the assumptions of the
module allow. None of the invariants of the runs is inductive, so each module of proofs
states an inductive invariant `IInv`, shows `Spec => []IInv` (`Invariance`) with one lemma
per part or per action, and derives the properties from it. Each `IInv` was also checked by
TLC, on the instances of section 3.

### The commit protocol (`TransactionManagerProofs`)

For every set of transactions and every positive number of records, with no other assumption
than that `Root` and `None` are no transactions (`ContextAssumption`, `RecordsAssumption`):

- `UniqueCommitIds`, `HorizonCoversWholeCommits`, `AcknowledgedCommitsVisible`: the
  invariants of the run;
- `TypeCorrect`, `AssertionsHold`: types, and that no `Assert` of the code fails; being
  proved, they are not repeated in the run;
- `SnapshotsAreStable`: the action property;
- `Implementation`: `TransactionManager` implements `CommitOrder`;
- `NoCommitIsLost`: a commit that is next in line has a thread that will publish it, the
  fact on which the liveness of `commit()` rests;
- `SnapshotsCounted`: the multiset of active snapshots counts the registered transactions
  (`ActiveSnapshotsExact`). It has an invariant of its own beside `IInv`, `SnapshotCount`,
  proved with one lemma for each of the two actions that touch the multiset and one for all
  others.

That the horizon covers whole transactions needs to
know that the thread which raises it holds the context with exactly the next id; that
needs the ids in the list to be distinct and consecutive; and that needs to know that the
list ends at `_last_commit_context` or one behind it, while the thread that linked the
last context is about to swing the pointer. `IInv` states all of this:

    TypeOK       types
    ListShape    a context's predecessor is the one its thread linked it to; ids are consecutive
    IdsDistinct  no id occurs twice in the list
    ListEnd      the list ends at lastContext, or one after it
    Search       a thread looking for the end of the list holds a member of it
    Stamping     records are stamped while, and only after, the context is linked
    Horizon      every context up to the horizon is ready
    Publication  threads in the loop that raises the horizon hold ready contexts, each of which
                 is fired once, after the horizon has reached it
    PhaseOf      the phase fits the thread's position

`Invariance` proves it, one lemma per action (`...Step`); steps that touch neither the
list nor a thread's membership share the `Frame...` lemmas. The refinement uses the
mapping `Issued`, `Ticket`, `ReadySet`, `Acked`; `NewIdsAboveHorizon` (a context is linked
with an id that the horizon has not reached) gives stable snapshots.

### Row versions (`MvccTableProofs`)

For every finite set of transactions, any sizes of chunks and of the table and any number of
operators: `SnapshotReads` (`ValidateReturnsSnapshot`), `UpdatesKept` (`NoLostUpdate`),
`RowsStayConsistent` (`RowsConsistent`), and, if rows reach Delete in table order (`~AnyOrder`),
`RollbacksRelease` (`RollbackReleasesLocks`); section 4 shows what happens in another order.

What a row's three fields say depends on how far its writers are. A *slot* is a pair of an
operator of a transaction and a position in its list of rows; `Passed(t, s)` says that the
thread is behind slot `s`. `IInv` gives every field as a function of slots:

    Ranges        types
    Positions     where a thread is among its slots; phase, commit id and operator states fit that
    CommitIds     commit ids are distinct and issued in order; the horizon covers ready ones
    InsertsApart  a row has one inserting slot, allocated behind all rows the transaction can see
    DeletesApart  a transaction deletes a row once, after its own insert or from its snapshot;
                  of two that delete one row neither is in the other's snapshot
    Locks         a row's tid is t exactly if a slot of t has locked it and none has let it go
    RollbackLocks a rollback in table order finds its locks before the first row it does not hold
    Versions      begin and end hold the commit id of the slot that wrote them
    Reads         what a scan has read of a row's fields still decides what the fields now decide
    Scan          a scan has found the rows of its snapshot below its position, and no others
    Counts        the invalid row count of a chunk, up to the row that a commit is about to count

A lost update is impossible because the tid of a deleted row stays with the transaction that
commits the deletion (`Locks`), so that a second one fails at any later time. That Validate may read a
row's fields in the middle of a commit or a rollback (`Reads`) is harmless because a commit id
above the horizon is in no snapshot and the own tid changes by own steps only.

### The MVCC delete plugin (`MvccDeleteProofs`)

For every finite set of clients and any number and sizes of chunks, assuming that no client is
also the key of a loaded row: `PromptScans` (`PromptSnapshotIntact`), `OldRowsMoved`
(`OnlyNewRowsLeftBehind`) and `NothingStray` (`TableConsistent`). With `Snap(s)`, the rows that
are valid as of commit id `s` (`begin <= s < end`), `IInv` says

    PcRanges, Ranges,     types
    RowRanges
    Bounds        no row, cleaned chunk or snapshot is younger than the last commit id
    CommitIds     each commit id was used up by a client that has ended or a chunk cleaned up
    RowStates     a row that is not yet committed has an owner and no end
    Locks         who may hold a row, and in which position
    Fresh         the key of a client is in the table only once it has written
    Contents      the keys of Snap(s) are the table as of s, each once, for every s so far
    Unclean       the chunk that the plugin works on is not cleaned up yet
    Course        what the plugin has found, locked and inserted at each step of a logical delete
    Leftovers     rows of a cleaned chunk that were in the plugin's snapshot have ended
    Queues        removed and queued chunks are cleaned up, each once, and those removed are
                  beneath the snapshots of prompt transactions
    Scans         a chunk that a scan has left out is removed, or cleaned up before its snapshot

No step changes `Snap(s)` for an `s` that has been reached (lemma `SnapKept`): a commit writes an
id above it, and neither a lock, a rollback nor the move of a chunk is seen by it. The commit of
a logical delete ends each row it moves and begins a copy of it with one and the same id, so the
next snapshot has every key once (`CommitSnap`). A chunk that a scan leaves out holds nothing of
its snapshot: what the plugin has moved has ended by then (`Leftovers`), and there is
nothing left behind by hypothesis of the property. `CommitIds` is why no commit id reaches
`MAX_COMMIT_ID`, which in the code is a bound of the type.

The proof found an error of the model: the plugin runs a transaction per chunk under one
name, and `content` was computed from all rows that bear its name, among them those which an
earlier logical delete had ended. `CommitRows` now takes the rows without an end.

### The scheduler (`TaskSchedulerProofs`)

For every finite set of tasks and workers, any nodes, dependencies (a cycle would only never
be ready) and batches: `TasksStayConsistent`, `NothingIsLeft` (`NothingLeftAfterWait`) and
`SchedulerImplementsTaskGraph`. Assumed is that a task is a job of one task at most and that
no job spawns the task it is a job of, directly or through others (`JobAssumption`): a job is
made by the task that waits for it.

    Types, Shape  what the label of each frame of a worker's stack says of the task's marks
    Places        an enqueued task is in exactly one queue, next task, theft or stack until it is counted
    Readiness     the pending count is the number of predecessors not counted off; a task that is
                  ready and marked, but not enqueued, has a thread that will enqueue it
    Scheduling    what is still to be scheduled is not marked; the task counter is the number of
                  marked tasks that their threads have counted
    Course        how far the client is, and that all tasks are counted once it leaves the sum
    Counting      there are disjoint sets of tasks, one per worker and of the size of its counter,
                  and a set of the size of the client's sum, taken from the workers already read

`Readiness` is the argument against the lost wake-up: `schedule()` marks and then looks at the
count, the last predecessor counts and then looks at the mark, so one of them enqueues.
`Counting` is why a sum of counters that move is exact: when it reaches the task counter it
stands for all tasks, so there is none left that could move anything.

### Operators of a transaction (`OperatorProofs`)

For every finite acyclic plan whose inputs are read-only operators (`PlanAssumption`):
`InputsStayAvailable` (`InputsAvailable`). For those with at most one read/write operator
(`OneWriter`), `RollbacksComplete` (`RollbackConsistent`). The SQL translator makes one writer
per statement. With two (`Writers`, `WriterPlans`) the property fails: a writer may register, or
record that it has been executed, after another's conflict has rolled the transaction back. `IInv`
says that an operator's inputs have returned when it begins and that an output is cleared
only after its last consumer has returned; `WriterCourse` adds how far the one writer is when the
transaction is active, conflicted and rolled back.

### Sessions (`SessionProofs`)

For any number of clients with any messages of the form that the handlers parse:
`ClientsKnow` (`AnswersTruthful`), `SessionsStayConsistent` (`SessionsConsistent`) and
`NamedPlansAreFinal` (`NamedPlansStay`). `IInv` is `Types`, `Counts` (the number of running
sessions is that of the sessions between startup and end, and shutdown's are among them) and,
per session, `Kind` and `Arguments` (a handler runs for a message of its kind), `References` (what a
session or a pipeline keeps is no auto-commit transaction), `Course` (which transactions
that the current message has used may be undecided) and `Truthful`. `NamedPlansStay` is a
stability: a session stores a plan under a name only after it has found the name free
(`OneMoves`, `PlansKept`: no other step brings anybody to the assignment, or changes a plan),
so once a plan is there and nobody is between check and assignment, nobody gets there again.

### Plan caches (`PlanCacheProofs`)

For any clients, kinds of statements and positive capacity, and any calls of `clear()` and
`resize()`: `CachesStayConsistent` (`CachesConsistent`) and `PlansFit` (`PlansOwnAndFitting`). The
lemmas `UsedKeeps`, `SetKeeps`, `ResizeKeeps` and `ClearKeeps` say of each method of
`GDFSCache`, for any keys and values, that map and heap go on to agree, what entries it leaves,
and how it ages them. `IInv` is

    Types     types of statements and of the table
    Caches    both caches are in order, lead to plans of their own kind and text, and `Aging`
    Fitting   the plan that a statement works on is its own object, of its text and mode

That an unused entry goes at last is not inductive: `NothingStaysUnused` bounds its age by its
frequency, but evictions at one level of the inflation may be many. `Aging` counts them:
since an entry was used, the inflation has risen from `priority - frequency` to where it is, and
at each level one cache full of other entries at most has gone; those at the present level
are still in the heap (`Peers`), or are among the evictions that `age` has counted.

### The loop thread (in `MvccDeleteProofs`)

`FirstPause` (`LoopConsistent`): types, and after the first `pause()` the function does not run
until `resume()`, for any number of calls. The thread enters its wait only with
`_pause_requested` set, and before the first `resume()` only a shutdown lets it out.

### Joins (`OperatorProofs`)

For any tables (any numbers of chunks and rows, any integers and NULLs), bloom filters of any
positive size (`BloomAssumption`), any numbers of radix bits, and all modes and conditions that the
operators support, with or without a secondary predicate: `NestedLoopExact`, `HashExact` and
`IndexExact`. Whenever the nested loop join, the hash join or the index join has executed,
its output has the rows of the verification join, each as often. They are the parts of
`JoinsExact` that speak of these three; the index join is left out where the property leaves it
out (an anti join that treats NULL as true and is indexed on the left). Assumed are that tables with
chunks have rows (`TablesAssumption`, section 4) and that the powers of two are positive
(`RadixAssumption`: the provers know nothing of exponentiation).

The argument relates each join to a set. `Lists(xs, S)` says that the sequence `xs` holds every
member of the set `S` once and nothing else; the verification join lists `Verified`. What an
operator emits is a concatenation of lists, one per chunk, partition or row, so the lemmas are
about lists that are appended, filtered and mapped, and about `FlattenSeq`, which
`FlattenIs` unfolds. Induction goes through the least number at which a claim fails, since the
induction theorems of the library take an operator.

    Nested loop   per row of one side, the list of partners or the NULL row (`OuterLists`); joins that
                  run with their sides exchanged list the mirrored pairs (`MirroredSets`)
    Hash join     every materialised row is in one partition, that of its value (`Splits`); a side that drops
                  NULLs, and one that the other's bloom filter thins out, keeps each row with
                  a partner (`Kept`); the hash table of a partition holds the positions of each
                  value in it (`TableHolds`); so equal values meet, in one partition
    Index join    the index is the table's rows by rank; its bounds are numbers of rows, hence the ranges
                  that a condition asks for are prefixes and suffixes (`BoundsAre`, `RangesAre`) that
                  hold the partners (`HitsAre`)

### The benchmarks (`BenchmarkProofs`)

For any set of operations of the microbenchmarks, of any size, access distance and number of threads
(`OperationsAssumption`), and blocks of any size (`BlockAssumption`), and any command lines and queues of the star schema
benchmark (`ConfigAssumption`): `RingStaysIntact` (`RingIntact`), `SharesStayKept` (`SharesKept`)
and `QueriesTakenOnce` (`EachQueryOnce`).

- **The ring.** A swap of the shuffle exchanges two nodes in all pointers at once, whether they
  are neighbours or apart (`NeighboursExchanged`, `ApartExchanged`); an exchange is a bijection of the
  nodes, and carries a cycle through all nodes to one. `Walk`, the node that is reached after
  n steps, is a recursive function; `LeastElement` and `Induction` prove what it computes.
  Memory is the ring of the list moved by the jumps that have been written (`RingInv`: `RingTypes`,
  `ListInv`, `MemoryInv`), which is why what is filled in last is one ring in memory.
- **The shares.** `SharesInv` adds to it the types of the threads (`ThreadTypes`), which have been created
  (`CreatedInOrder`), where one starts on the ring (`StartsOnRing`), and what one has touched after
  its accesses (`ThreadInv`: `TurnsTaken`, `RingFollowed`). A line then has one owner (`Owner`),
  computed from its number by division, so no two threads touch it; and the lines that are not touched
  are counted by an injection into the remainder of the division (`CountLeft`). What a turn touches is
  `Accessed`: inside the memory always (`AccessFits`), inside the access unless `write_nt` has two
  blocks or more to write (`WrittenFits`, hence the premise `~Overruns` of `ThreadsApart`), and all
  of the access for `WholeAccesses` (`AccessWhole`). Of random reads without a kernel of their own
  only `LastLine` is claimed: with a distance below 8 KiB they read behind the memory at the last
  node (`ReadFits`).
- **The queue.** `SSBInv` says, while no two workers have met at the queue (`together`), that at
  most one is at it, and gives `queries_left`, `query_queue_index` and the executions so far as
  functions of how far that worker is (`QueueInv`: `Free`, `Place`, `Taken`).

The proofs found two assumptions that the instances had met by accident. `SharesKept` needs the mask of
the random writes to span the memory: it is made of `DEVDAX_FILE_SIZE` (`common.h:25`,
`write_bw_benchmark.c:367-389`), and the memory has that size (`pmem_mapping.c:25,103,140`); this is
`MaskAssumption`. And threads are apart only
if the accesses of a turn divide a thread's share, the access distance is a multiple of the
chunk, and the kernel reads at no other node and overruns none of its accesses, which are
premises of `ThreadsApart`.

### Model-checked only

- All liveness (`CommitReturns`, which includes the refinement of `CommitOrder` with its
  fairness, `FinishReturns`, `ShutdownReturns`, ...), which is beyond the prover.
- `JoinsExact` as a whole. Its parts about the nested loop, hash and index joins are proved;
  that about the sort-merge join is not: it rests on the order of clusters, on runs of equal values in
  sorted sequences and on the split values, each defined by a fold or a sort.
- `OutputsExact` (scans, sorts, aggregates), `SegmentsExact` (encodings, compression, files) and
  `ResultsTrue` (grouping in the star schema benchmark): results of folds and recursive functions
  over sequences. Induction over data is possible here only by hand, as for `FlattenSeq` and
  `Walk`. `ReadOnlyOperators`, which states the first two, also extends modules that declare
  RECURSIVE operators.
- `PlanKeepsResult`: the optimizer's modules are recursive.

These rest on the bounded inputs of the runs.

## 6. Plan

Built in this order: commit protocol and its proofs; rows; plugin; loop thread; scheduler;
operators of a transaction; sessions, statements and the shutdown; plan caches; joins,
scans and the other read-only operators; the two benchmarks; the optimizer; encoded segments; files. Only the
modules of the optimizer, `TableFiles`, and `ReadOnlyOperators` that extends them, declare
RECURSIVE operators; all others can be proved about. Next, by weight:

1. **Proofs.** The sort-merge join, so that all of `JoinsExact` is proved; then the operators
   of `Scans` and `SortsAndUnions`, which are filters and concatenations as the joins are.
2. **Task groups** (`_group_tasks`) and `ImmediateExecutionScheduler` as a second
   implementation of `TaskGraph`.
3. **Read and write buffers** of the server as rings (`server/read_buffer.cpp`,
   `write_buffer.cpp`).
4. **The other indexes** (`storage/index/`: ART, B-tree, composite group-key).
5. **The other rules of the optimizer** (section 7); **index join on reference tables**, and
   `LIKE` and expression scans.

## 7. Not modelled

- Move assignment of the TransactionManager (used by `Hyrise::reset` between tests).
- Weak memory orders and torn reads of non-atomic commit ids.
- Exceptions thrown by an operator's computation, except in `Session` and `PlanCache`;
  out-of-memory.
- Two read/write operators of one transaction that register at once
  (`transaction_context.hpp:126` appends to a `std::vector` without a lock; SQL plans have
  one such operator per statement), and the map that jobs of the sort-merge join fill
  together (`join_sort_merge.cpp:359`): undefined behaviour of a container, for which there
  is no outcome to enumerate.
- `_group_tasks` (`node_queue_scheduler.cpp:135`), which stops at the first task with a
  predecessor or successor; `MCTaskScheduler` takes the dependencies as given.
- The ring buffers of the server, the bytes of its protocol, and `ImmediateExecutionScheduler`
  (sequential), see the plan.
- Of the optimizer: DependentGroupByReduction, SubqueryToJoin, JoinPredicateOrdering,
  StoredTableColumnAlignment and IndexScan; the replacement of AVG, duplicate aggregates and
  constant folding in the rules that are modelled; the greedy ordering of nine or more
  vertices (`greedy_operator_ordering.cpp`); queries that use subqueries other than as a
  predicate that is expensive. Of expressions: arithmetic, functions, CASE and casts, and
  comparisons of different types.
- Of Validate: tables of references (`validate.cpp:170-248`), which arise when a plan filters
  before it validates, and the split of the chunks over jobs; `MvccTable` validates stored chunks.
- Copies of scans: `TableScan` and `IndexScan` do not hand `excluded_chunk_ids` and
  `included_chunk_ids` to a deep copy (`table_scan.cpp:75-79`, `index_scan.cpp:67-72`), so the
  copy of a plan that splits a scan between the two (`lqp_translator.cpp:246-247`) has both scan all chunks.
  `OutputsExact` speaks of the first execution of a plan, by the operators as translated.
- The SQL translator, a function on syntax trees, and the estimators of cost and cardinality,
  which compute with floating-point numbers: neither has a second definition in the code to
  compare with. They and the generators of benchmark data are the larger part of the lines
  that no module covers.
- The adaptive radix tree, the B-tree (a wrapper of an external one) and the composite
  group-key index; estimates of memory use and access counters of segments; the compression
  inside a block of LZ4 and its training of dictionaries.
- Of files: `.tbl` files, options of the CSV format other than the defaults, the digits of
  floating-point numbers, the JSON file beside a CSV file. Meta tables, console, benchmark
  drivers and table generators: input, output and constant data.
- The loading of the star schema tables and the pinning of threads; writes past the
  end of the intermediate buffer (`ssb.cpp:1089`, nothing looks for it), which are undefined
  behaviour (those past a thread's share, into its neighbour's, are modelled); the comparison functions that return a difference of 64-bit sums as
  an `int` (`ssb.cpp:709`), on which only the order of printed results depends; the
  calculation of bandwidths.
- The sleep times of the loop threads; the NUMA topology, which is a constant.
- `hyrise-pmem`: the same code but for allocation, see section 1. The map names the lines
  of `hyrise-dram` only.
- Everything else listed `not_modelled` in `PROJECT.json`, each with its reason.
