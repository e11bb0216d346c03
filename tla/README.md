# BaseMaster in TLA+

BaseMaster is a desktop database client: a React window over a Tauri (Rust) core that
holds connections to MySQL, PostgreSQL and SQLite, and copies, imports, dumps and backs
up their data. This directory holds its verification project: TLA+ modules translated
from the source, TLC configurations that check them on small instances, and TLAPS proofs
of what holds for every instance.

    tlc -config MCDataTransfer.cfg MCDataTransfer      # model-check an instance
    tlapm DataTransferProofs.tla                       # check the proofs

Paths below are relative to the repository; `data_transfer.rs` and its neighbours are in
`src-tauri/src/`, the backup crate in `crates/backup/src/`, the stores in `src/state/`.

## 1. Inventory

The components, what each keeps, what it does, with whom it interacts, what is hard about
it and what makes it correct. *Modelled* components are described again in section 3.

| Component | State | Operations | Interaction | Hard behaviour | Correct when |
|---|---|---|---|---|---|
| **Transfer control** (`data_transfer.rs` 39-76) | flags `stop`, `paused`; a `Notify` | `pause`, `resume`, `request_stop`, `check`, `reset` | every worker of a transfer, import, dump or export calls `check` between two pieces of work; window and MCP server call the commands | `check` reads, then subscribes; `notify_waiters` keeps no permit | a task sleeps only while paused; after a stop only work already let through is done |
| **Data transfer** (`data_transfer.rs`) | table queue, `RunTotals`, the target's tables and indexes | `run_transfer`, `run_transfer_multi`, `run_sequential`, `run_parallel`, `transfer_one` | calls drivers and row copy; emits `transfer:*` events | workers drain one queue; errors with and without `continue_on_error`; stop and pause anywhere; several jobs | each table once; totals agree with events and errors surface; a job drains before the next; indexes come back |
| **Row copy** (`data_transfer.rs` 1311-1961) | keyset position, page, ranges, counts | `run_table_copy`, `run_table_copy_ranges`, `split_pk_ranges`, `copy_pk_range` | pooled SELECTs and INSERTs while other clients write | page borders, range borders, small and negative key spaces, bounds read before the copy | no row twice, no stable row missed, exact count |
| **SQL import** (`sql_import.rs`) | bounded parser channel, batch, region, worker channel, `Prog`, `abort`, `first_err` | parser, coordinator, `flush_batch` with retry and replay, workers | reads what the SQL dump writes; executes on a driver | three parties block on each other; barrier; retries after a lost answer; stop | source order where it matters; at most once; complete or an error; ends |
| **SQL dump** (`sql_dump.rs`) | work queue, artifacts, temp files, reorder buffer, totals, deferred indexes | `run_serial_dump`, `run_parallel_dump`, `dump_table_to_temp`, `merge_stream` | reads a driver, writes the file the import reads | tables end in any order; tables, shards and the output fail; stop leaves gaps | tables in order; totals tell what is in the output; indexes follow the data |
| **Run registry, shared control** (`commands.rs` 1421-1609, `state.rs`) | `transfer_runs`, one process-wide `TransferControl` | register, `control_for`, start import / dump / export, pause, resume, stop | transfers of window and MCP server have a control each, the others share one and each start calls `reset` | a start erases another run's stop; an early or late command falls back to the shared control; a tab runs again before its last run has removed its entry | a stop of a run that is registered and running reaches it |
| **Connections and tunnels** (`commands.rs` 152-489, `mcp_server.rs` 738-1076) | maps `active`, `tunnels`, a lock each | open, close, delete of the window; open, close of the MCP server | both sides open and close the same connection | check before several awaits, insertion after them; two maps, two locks; a tool call may be dropped at any await | a driver and its tunnel come and go together; none is lost |
| **SSH host keys** (`ssh_tunnel.rs` 98-176, `ssh_known_hosts.rs`, `ssh-host-key-dialog.tsx`) | pending prompts, dialog queue, in-memory map, file | verify, prompt with timeout, respond, add, remove, load | tunnel waits for the window's answer; scheduled runs are processes with a memory of their own over the same file | timeout against answer, append against rewrite, two processes on one file, failed writes, restart | only what was consented to is trusted; the file says what the window knows and what scheduled runs have added |
| **MCP server and jobs** (`mcp_server.rs`) | job history, abort handles, waiters; handle, port, shutdown of the server | `run_as_job`, supervisor, `wait_for_job`, status, cancel, evict; start, stop | jobs run queries and transfers; a transfer registers its control | cancel, end, supervisor and eviction meet on one entry; a client may drop its call anywhere | a job can be found until it has finished, and its waiter is answered |
| **Query execution** (`commands.rs` 1165-1351, drivers' `cancel_by_marker`) | `running_queries`, marker, watcher | `query_run`, `query_cancel` | a watcher per statement looks it up by marker and kills it, through the statement's own pool | a cancel between two statements, a KILL that arrives late, an exhausted pool | a cancel ends this request and no other's statement |
| Schema operations, table edits (`commands.rs`) | none of their own | rename schema, truncate, apply edits | statements on one driver | one of several statements fails | statements in order |
| Data and query export | open writer | page loop into a file | shares the process-wide control | stop between pages | sequential |
| SQL translation, index deferral (`sql_translate.rs`, `defer_index.rs`) | none | text to text | used by transfer and dump | parsing | a pure function |
| **Backup** (`crates/backup`; the scheduled runs) | container, schedule, retention | dump, restore, run schedule, delete old files | the store records results | partial files, name prefixes, early returns, several processes in one folder | a schedule that succeeded once keeps a complete backup |
| Store (`crates/store`) | SQLite database | one statement per operation | all of the core | none beyond SQLite | serialised by SQLite |
| Drivers | connection pools | statements and value decoding | all of the core | external databases | text and decoding |
| CLI and headless mode (`crates/cli`, `headless.rs`) | none beyond a request | call an MCP tool, poll a job; backup and restore without the window | MCP server, backup crate | polling a job that is evicted or cancelled | reports what the job ended with |
| Connection import/export, docker discovery | none | parse, format | file dialogs | none | pure |
| Frontend stores (`src/state/*.ts`) | schema cache, executor, approval queue | ensure / invalidate, run jobs, resolve | `await`s into the core | answers that arrive after an invalidation | what is shown is what was asked for |
| Frontend libraries and views | view state | rendering, SQL text helpers | the stores | none of their own | not a protocol |

`PROJECT.json` lists every hazard at its line, with the property that covers it or the
reason why none does.

## 2. Plan

The modules were written in this order, the most important behaviour first:

1. `TransferControl`, and `DataTransfer` on top of it - eight theorems.
2. `TableCopy`, the row copy inside one table, and `RowDelivery`, the abstract
   specification it implements - six theorems, one of them the refinement.
3. `SqlImport` - six theorems.
4. `SqlDump` - five theorems.
5. `RunRegistry` and `McpJobs`, which composes with it - four theorems.
6. `Connections` - three theorems; `HostKeys` - three theorems.
7. `QueryRun` - two theorems.
8. `ScheduledBackups` - two theorems.

Left: the stores of the window (`schema-cache.ts`, `executor.ts`, `ai-approval.ts`), the
life cycle of the MCP server, `restore.rs`.

## 3. The modules and the code

Each module has an `MC...` module with the constants of its TLC instance; proofs are in
`...Proofs`, those of `HostKeys` with those of `Connections` and those of `QueryRun` with
those of `McpJobs`, whose names they therefore do not share (`KeysSpec`, `QuerySpec`).
`SumTheorems` holds the lemmas about sums that three of the proof modules cite. Mutated operators (comment "Mutant") stand just before the one they vary and
are used by nothing else. `conf` variables hold options: they are chosen once, in `Init`,
so that one run covers all of their combinations.

**`TransferControl`** is the control object. `check()` is taken apart where other tasks
can run: `LoadFlags` (the loop condition), `Subscribe` (creation of the `Notified`
future), and asleep in between; `ResumeStore` and `StopStore` are the stores,
`NotifyWaiters` the calls that follow. The final load of `stop` is part of `LoadFlags`
because `stop` never goes back to false during a run. `request_stop` leaves `paused` as it
is: a task that is paused and told to stop leaves through `stop` alone. The history
`missed` holds the tasks that have read the flags and have no future yet while a command
stores its flag, until the `notify_waiters` that belongs to it finds them too late.

**`DataTransfer`** composes with it (`Control == INSTANCE TransferControl`). `stage` and
`job` are Main's place in `run_transfer` or `run_transfer_multi`, `pc[t]` and `held[t]`
the place and the table of each task of the loop: Main alone for `run_sequential`, two or
more workers for `run_parallel`. The queue is the position `next`: the channel is
filled and its sender dropped before the first worker starts, so it only shrinks. The
statements of `transfer_one` before the copy are one action that succeeds or fails: no
other modelled state depends on where among them it fails. A chunk of rows is one
`CopyBatch`. Ghosts: `starts`, `late`, `schemaErrs`.

**`TableCopy`** looks inside the copy of one table. `plan` is the way the code chose: by
ranges, keyset pages, OFFSET pages; `MinMaxFallsBack` turns the first into the second.
`SplitStep` is one turn of `split_pk_ranges`, `Select` and `Insert` the two halves of a
page, the latter once for each INSERT of the page; `SourceWrite` is another client. A row
is its integer key. A page without ORDER BY is taken to come in key order, which no
database promises: with OFFSET pages the properties are about the code's arithmetic only.
Pausing is left to `DataTransfer`; here `check` is the stop flag.

**`RowDelivery`** is what that copy promises, with no word of pages, ranges or copiers: sets
of rows arrive, none of them twice if the copy follows a key, and after the one answer
nothing more; "ok" of a keyed copy that was not stopped means that every row that stayed
in the source has arrived. `TableCopy` instantiates it as `Delivery` with the mapping
`delivered <- Arrived`, `answer <- result`, `keyed <- plan # "offset"`, and
`DeliversRows == Delivery!Spec` is checked by the run and proved.

**`SqlImport`**: `at` is the coordinator's place in `run_streaming_import` and
`flush_batch`, `fed - taken` the filling of the parser's channel, `queue` and `closed` the
workers' channel, `tx` whether the coordinator still holds its sender. A source is a
sequence of markers and statements, statements are known by their position. `Attempt` is
one attempt at a statement or transaction with its four outcomes: effect, SQL error,
broken link with or without effect. A transaction is one attempt because it has all of its
effect or none. That a batch may be flushed before it has `BATCH_MAX_STMTS` statements,
when it has `BATCH_MAX_BYTES`, is a free choice of `Receive`.

**`SqlDump`**: `pc` and `art` are the workers of `run_parallel_dump`, `channel` the
artifacts sent, `main`, `buffer` and `want` the merger (`want` is `next` of the code),
`file` the output as a sequence of units: `table` (marker `@BM:T`), `create`, `data`
(`@BM:D` and rows), `index`, `footer`. The dump of one table is one action with every
outcome the code can produce (`Staged`, `Direct`): no DDL, no row count, some shards failed,
each shard with a row or none. `SinkFails` is any failing write of the output that
`run_dump` propagates. In the serial run a failed write inside a table is that table's error, one of the
outcomes of `Direct`, because `dump_table_direct` returns it and the loop goes on. The
zip layout, CREATE SCHEMA statements, removal of temp files and pausing are left out, and
so is whatever fails before the first table: `list_tables` and the temp directory.

**`RunRegistry`** is the map of runs with their controls and the one shared control. A
control is its stop flag; a pause is only a check that takes its time, and how `check()`
sleeps is the matter of `TransferControl`. `Start` is the call of a command, `NotOpen` its
early return, `RegisterRun` and `ResetShared` the two ways `register_transfer_run` or the
start of an import, dump or export goes on once it has its locks: in between (`place`
"called") the window shows Stop already, and `Stop` may come at any time after the call,
also when the run is over. `ControlFor` is `control_for` with its fallback. The window may
run a tab again as soon as it has heard of the end, so `leaving[t]` counts the calls of a
tab that are on their way to `transfer_runs.remove`, which takes whatever entry is there
(`Unregister`). `told` remembers who was told to stop while it ran with its entry in place,
or on the shared control after its reset, and has not been reset since. Three stops are
lost in the code and are not in `told`: one before the registration or the reset, one for
a run whose entry the tab's last run took away, and one that another borrower of the
shared control resets.

**`McpJobs`** extends it with the jobs: `call[j]` is the tool call inside `run_as_job`,
from the registration of the control to the wait, `query[q]` the spawned task of a query
(that of a transfer is the operation of `RunRegistry`), `sup[j]` the supervisor after
`inner.await`, `wait[j]` and `notified` the loop of `wait_for_job`: `Subscribe` makes the
future, `CheckState` reads, `Wake` goes round. A client may drop its call at the await on
the history's lock (`DropCall`) or while it waits (`GiveUp`). `Evicted` is the set of sets
that `evict_finished` may take; that it takes the oldest first is left open.

**`Connections`** is one saved connection, `active` and `tunnels` the entries of the two
maps. A driver and a tunnel are named by the call that opened them. Each action is what a
call does between two awaits; `activeBy` and `tunnelsBy` are the locks that
`connection_close` and `connection_delete` hold across `disconnect` and `close`
(the temporary of `if let` lives to the end of its block), which `close_connection` of
the MCP server does not. The calls of the MCP server run in the future of their request
and may be dropped at any await (`DropOpen`, `DropClose`): a tunnel in its hands closes with
it, a driver is disconnected by nobody, and what is in the maps stays. `letGo` and `torn`
remember the steps after which the code itself no longer keeps hold of a driver, or keeps
driver and tunnel together: they are the exceptions the two properties name.

**`HostKeys`**: `stage[h]` is handshake `h` in `check_server_key`, `prompts` the senders in the
map, `sender` the one an answer has taken out, `dialog` the queue of the window.
Memory and file change in separate steps (`AddToMemory` and `AppendToFile`, `Remove` and
`Rewrite`), each of the file's may fail, and `Restart` loads the file again. `memory[p]` is
that of process `p`: the program of the window, whose policy is to prompt, and scheduled runs
(`headless.rs`), which accept new keys or reject them and are followed by the next run
of the system scheduler (`NextRun`). They share nothing but the file; `unseen` is what
they have put there since the window last loaded or rewrote it.

**`QueryRun`**: `pc[r]` and `at[r]` are `query_run` and its statement, `conn[r]` and
`side[r]` the connections of the statement and of its watcher out of one pool,
`kills` the KILL commands on their way, which go on after their watcher was aborted.
`Deliver` interrupts whatever runs on the connection by then. `missed` marks a request
whose current watcher could do nothing: looked too early, found no connection, was
refused. The KILL of MySQL is modelled; that of PostgreSQL has the same two steps. A
lookup is taken to find statements of the pool it looks for, not itself: MySQL may list
the lookup, whose text holds the marker too, and then kills that harmlessly.

**`ScheduledBackups`**: a run is a process, from `Start`, which reads the schedule and the
clock, to `Record`. A file is the inode a run created, a path a name and a second, so that
two runs of one second write one file. `Listed`, `Before`, `OverCount`, `TooOld` are
`apply_retention` and `files_to_delete`; `Claims[s]` are the names whose files begin
like those of schedule `s`. `Kill` is a crash, `Tick` the clock. `good` remembers the
schedules recorded ok, `excused` those whose files have been mixed up with others'.
`ProfileId` is the id the connection is looked up by.

How they meet: a dump that `SqlDump` writes - `T D T D ... I` with the footer last - is the
input of `SqlImport`, whose constant `Dumps` holds such a sequence for one table and for
two. `TableCopy` refines the `copy` stage of `DataTransfer` informally: its result is
Ok or Err, a stop makes it return Ok early.

## 4. The runs

The runs that pass check every property over all options at once.

| Run | Instance | States | What it shows |
|---|---|---|---|
| `transfer` | two workers and Main, two jobs of two and one tables; tables of two, one and no chunks; all of `Confs`; pause, resume and stop at any point | 443,816 | each table once (`NoTableTwice`), prompt stop (`LateWorkBounded`), errors and totals reach the caller (`FailureSurfaces`, `AccountsAgree`), `SuccessMeansComplete`, `JobDrainsFirst`, `SequentialStopsAtFirstError`, `Terminates` |
| `table_copy` | every subset of the keys -1..3, three ranges, pages of two, two foreign writes | 672,164 | `NoRowTwice`, `NoStableRowMissed`, `CountIsExact`, `RangesTile`, `Terminates`, and the refinement `DeliversRows` |
| `sql_import` | two workers, a one-table dump, a two-table dump, a foreign script; channel 2, worker channel 1, batch 2, one retry, one lost answer | 224,051 | `AppliedOnce`, `InOrder`, `CompleteUnlessDataResumes`, `FailureSurfaces`, `CountersAgree`, `Terminates` |
| `sql_dump` | two workers, three tables: two shards, empty, one shard; two with secondary indexes | 803,792 | `TablesInOrder`, `TotalsAgree`, `CompleteUnlessStopped`, `IndexesFollow`, `Terminates` |
| `mcp_jobs` | two jobs, a query and a transfer, a history of one; in the window a transfer tab that runs again and again, a dump and an import | 372,992 | `UnfinishedAreListed`, `FinishedLeaveTheRegistry`, `StopReachesItsRun`, `WaitersAreAnswered` |
| `connections` | two opens of the window and two of the MCP server, a close of each, a delete; tool calls dropped | 2,264,853 | `NoDriverIsLost`, `TunnelFollowsDriver` |
| `host_keys` | two hosts, two keys, two handshakes in the window or in scheduled runs of either policy, a removal at a time, any file of an earlier session, restarts | 3,215,266 | `OnlyConsentedAreTrusted`, `FileFollowsMemory` |
| `query_run` | a script of two statements, a single one, one without a request id; a pool of three connections | 243,036 | `KillsAreOwed`, `CancelEndsTheRequest` |
| `scheduled_backups` | three runs of two schedules within three seconds: "db" keeps the newest, "db-prod" those of a second | 4,014,111 | `ABackupRemains` |

The runs that must fail, each a disagreement of the code with its own words (`findings` in
`PROJECT.json` quotes both):

| Run | Violated | What the code does |
|---|---|---|
| `transfer_lost_wakeup` | `AsleepOnlyWhilePaused` | a resume or stop between the load of `paused` and the creation of the future is lost; the task sleeps on |
| `import_barrier` | `OkMeansComplete` | a parallel import of a dump of two tables ends with Ok at the second table's data |
| `schedule_connection` | `RunsFindTheirConnection` | a run started through `run_schedule` looks its connection up by the id of the schedule and finds none |

Other behaviour that a reader of the code may not expect is part of the modules, and the
properties that pass are worded around it:

- `rx.close()` on a channel whose sender is gone drains nothing: without
  `continue_on_error` the other workers of a parallel transfer go on after an error
  (`SequentialStopsAtFirstError` is about the sequential loop only).
- An empty table, or a transfer of structure only, returns before the deferred indexes
  are built (`SuccessMeansComplete` asks for them where rows have landed).
- An import that is stopped commits the batch it holds; a dump's workers go on after
  the merger has failed, since its receiver still lives.
- Imports, dumps and exports share a control, and each start erases a stop meant for
  another, or for itself while it waited for a lock; a stop of a transfer that has not
  registered yet goes to the shared control, and so does one of a tab whose last run has
  removed the new run's entry (`StopReachesItsRun` is about all other stops).
- The window may insert a driver over one that the MCP server has just inserted, or
  over one of its own; a deleted connection leaves its tunnel; a tool call that is dropped
  takes a driver it has not inserted, or has removed, with it unclosed, and parts driver
  and tunnel between the two maps (the exceptions of `NoDriverIsLost` and
  `TunnelFollowsDriver`).
- A host key added while another is being removed can be lost from the file, or a removed
  one stay in it (the exception `parted` of `FileFollowsMemory`). A key that a scheduled run
  accepted is in the file and not in the window's memory, until the window starts again;
  a key removed in the settings before that rewrites it away (`unseen`).
- Retention takes the files of "db-prod" for files of "db" (the exception of
  `ABackupRemains`).

### Bounds

- `Workers`: two. Every race of the code is between two tasks on one queue, channel or
  table, or between one of them and the main task, which is a third process.
- `JobSize`, `Batches`: with two tables in a job a failure finds one more behind it and two
  workers hold one each; a second job shows what crosses the border. Zero, one and two
  chunks are the early return, a short chunk, and a full chunk with another behind it.
- `Keys`, `N`, `Chunk`, `MaxWrites`: five keys over three ranges make the last range
  longer than the others, fewer keys leave a range empty, a negative key tests the
  arithmetic; pages of two are full, short and empty. One foreign write is enough to shift a
  page or to move a bound under a copy, two can delete a row and put it back; `MaxWrites`
  bounds nothing in the proofs.
- `ParseCap`, `DataCap`: small enough that every sender blocks. The code's 256 and 4 per
  worker differ only in how long that takes.
- `BatchMax` 2: full, cut short and trailing batches. `MaxRetries` 1: retried and given
  up. `MaxLostAcks` 1: one is enough to break at-most-once, which `AppliedOnce` states
  relative to the number lost.
- `NTables` 3 with `Shards` <<2, 0, 1>>: with two workers the third table can arrive
  before the first; a gap left by a stop can be in front or in the middle; one shard of
  two can fail.
- `History` 1 with two jobs: the second job evicts the first as soon as that has finished,
  and only then. A third job would evict a second time.
- `WindowOpens`, `McpOpens`: a driver can be replaced by one of its own side and by one of the
  other. One close of a side is enough to take a driver, a tunnel, or one of each of two
  opens.
- `Handshakes` two, `Removals` one, `Headless` one: two prompts are in the dialog at once, a
  handshake overlaps another's append, a removal either, and a scheduled run the window.
  Restarts, the runs of the scheduler and the removals after one another are not bounded.
  Two removals at a time are left to the proofs, which hold for any number.
- `MaxLeaving` 1: the next run of a tab registers, runs and loses its entry while its
  last one is on its way out. The bound stops the next run from ending before that, and
  is any number in the proofs.
- `Length`, `Conns`: a cancel falls between two statements of a script; with three
  connections for three statements and two watchers the pool runs dry, and a connection
  passes from one request to another while a KILL for it is under way.
- `MaxClock` 2, three runs: two files of one second, a file older than the maximum age, and
  a failed or killed run between two good ones.

Numbers that TypeOK calls `Nat` are bounded by the bounds above. The 64-bit
integers of the code are not wrapped: row counts stay far below, and the key arithmetic
of `split_pk_ranges` is checked on the range the instance allows, not at its extremes.

### Fairness

`WF` of each task as a whole: tokio polls every ready task, a database statement or a file
write ends in success or in an error. Choices inside a task (fail or succeed, retry) are
not fair: TLC may take either for ever, and retries are bounded by the code. Nothing is
assumed of the user, the writers of the source or stops. `Terminates` of
`DataTransfer` has a premise because the code needs one: it holds for runs that from some time
on are not paused or have been told to stop, paused or not, and in which no task sleeps
for ever for want of a wake-up. The latter is `Overslept`, a task asleep on flags that a
command changed before its future was there, and such a lost wake-up has a run of its own.
`Terminates` of the other modules, which leave out pausing, has none.

`McpJobs` assumes that a call goes on between two awaits, that a spawned task is scheduled
and that an abort lands at the next await; not that a query or an operation ends, nor that
a wait times out. `FairQuerySpec` of `QueryRun` assumes that tasks are scheduled, timers expire,
the network delivers a KILL and a statement that was interrupted returns; nothing is said of
how long statements run. `Connections`, `HostKeys` and `ScheduledBackups` state safety
only: they wait for people, hosts and clocks.

Deadlock is checked in every run but `mcp_jobs`, `host_keys` and the two of scheduled
backups, where the system may come to rest (nobody calls, nobody answers, no run is left);
`Finished`, `Returned` are the stuttering of an ended program.

## 5. What is proved

For every value of the constants that satisfies the named assumptions - any
workers, any jobs, tables, keys, chunk sizes:

| Theorem | Statement | Inductive invariant |
|---|---|---|
| `TypeCorrect` | `Spec => []TypeOK` (`DataTransfer`) | `QueueIInv` |
| `EachTableOnce` | `Spec => []NoTableTwice` | `QueueIInv` |
| `StopIsPrompt` | `Spec => []LateWorkBounded` | `LateInv` |
| `JobsDoNotOverlap` | `Spec => JobDrainsFirst` | `QueueIInv` |
| `ErrorsSurface` | `Spec => []FailureSurfaces` (`DataTransfer`) | `OutcomeInv` |
| `SequentialStops` | `Spec => SequentialStopsAtFirstError` | `OutcomeInv` |
| `SuccessIsComplete` | `Spec => []SuccessMeansComplete` | `CompleteInv` |
| `AccountsAreExact` | `Spec => []AccountsAgree` | `RowsInv`, `FailuresInv`, with `QueueIInv`, `OutcomeInv` |
| `CopyTypeCorrect` | `Spec => []TypeOK` (`TableCopy`) | `CopyIInv` |
| `CountsAreExact` | `Spec => []CountIsExact` | `TallyInv`, with `CopyIInv` |
| `RowsAtMostOnce` | `Spec => []NoRowTwice` | `CopyIInv` |
| `StableRowsDelivered` | `Spec => []NoStableRowMissed` | `CopyIInv`; `OffsetInv` with `TallyInv` for OFFSET pages |
| `RangesPartition` | `Spec => []RangesTile` | `CopyIInv`, with `UnsplitInv` |
| `CopyDelivers` | `Spec => DeliversRows`: `TableCopy` implements `RowDelivery` | `CopyIInv` |
| `TypeCorrect` | `Spec => []TypeOK` (`SqlImport`) | `TypeInv` |
| `CountersAreExact` | `Spec => []CountersAgree` | `CountInv`, with `TypeInv`, `PlaceInv` |
| `AppliedAtMostOnce` | `Spec => []AppliedOnce` | `EffectInv`, with `TypeInv`, `PlaceInv` |
| `FailuresSurface` | `Spec => []FailureSurfaces` (`SqlImport`) | `ResultInv` |
| `OrderIsKept` | `Spec => []InOrder` | itself, with `ImportInv` |
| `OkIsComplete` | `Spec => []CompleteUnlessDataResumes` | `ImportInv` |
| `DumpTypeCorrect` | `Spec => []TypeOK` (`SqlDump`) | `MergeIInv` |
| `DumpInOrder` | `Spec => []TablesInOrder` | `MergeIInv` |
| `DumpComplete` | `Spec => []CompleteUnlessStopped` | `DealtInv`, with `MergeIInv` |
| `DumpIndexes` | `Spec => []IndexesFollow` | `IndexInv`, with `MergeIInv` |
| `TotalsAreExact` | `Spec => []TotalsAgree` | `TotalsInv`, with `MergeIInv` |
| `TypeCorrect` | `Spec => []TypeOK` (`McpJobs`) | `TypeOK` |
| `UnfinishedJobsAreListed` | `Spec => []UnfinishedAreListed` | itself, with `TypeOK` |
| `FinishedJobsLeaveTheRegistry` | `Spec => []FinishedLeaveTheRegistry` | `SupervisorInv` |
| `StopIsObeyed` | `Spec => StopReachesItsRun` | `StopInv` |
| `TypeCorrect` | `Spec => []TypeOK` (`Connections`) | `TypeOK` |
| `NoDriverIsEverLost` | `Spec => []NoDriverIsLost` | itself, with `TypeOK` |
| `TunnelsFollowDrivers` | `Spec => []TunnelFollowsDriver` | `TunnelInv` |
| `KeysTypeCorrect` | `KeysSpec => []KeysTypeOK` | `KeysTypeOK` |
| `TrustNeedsConsent` | `KeysSpec => []OnlyConsentedAreTrusted` | `ConsentInv` |
| `FileAgreesWithMemory` | `KeysSpec => []FileFollowsMemory` | `FileInv` |
| `QueryTypeCorrect` | `QuerySpec => []QueryTypeOK` | `QueryInv` |
| `KillsHitTheirOwn` | `QuerySpec => KillsAreOwed` | `QueryInv` |
| `TypeCorrect` | `Spec => []TypeOK` (`ScheduledBackups`) | `TypeOK /\ HasSchedule` |
| `BackupsRemain` | `Spec => []ABackupRemains` | `BackupIInv` |

- **`QueueIInv`** = `TypeOK /\ StageInv /\ HeldInv /\ StartsInv`. `NoTableTwice` alone
  says nothing of the table a task is about to start. `HeldInv` says that held tables are
  distinct, of the current job and behind `next`; `StartsInv` that a table still queued, or
  held in front of its gate, has no start yet; `StageInv` keeps tasks idle outside the
  table stage, without which a new job could find old tables in flight. `TypeOK` is itself not
  inductive: `totals` add up `landed[held[t]]`, a number only if `t` holds a table.
- **`OutcomeInv`** = `HaltInv` (a verdict "halt" comes from a stop only), `FreshInv` (nothing
  has landed or been reported of a table that is queued or in front of its copy) and
  `FailInv`: an error that must end the run is in the totals of the job it happened in, and
  no later job begins; `FailureSurfaces` is one of its conjuncts and not inductive without
  the others, which follow the error from the worker to the command's result.
- **`CompleteInv`**: while nobody has stopped the run, what is reported ok is whole, and while
  nothing has failed, `DoneInv`: every position already taken is ok or in a task's hands, and a
  task that left the loop left because the queue was empty. At the join nobody holds a
  table, so all of the job's tables are ok.
- **`LateInv`**: before a stop nothing is late, and a verdict "go" that is still unused is
  the one piece of work a task can begin after it.
- **`RowsInv`, `FailuresInv`**: what the table loop has counted is in `totals` until `EndJob`
  adds it to `sum`, so during the loop the account is `sum` and `totals` together. A table's
  rows are counted when it is reported and cannot change after: `QueueIInv` says that nobody
  else holds it, `FreshInv` that it was not reported before.
- **`CopyIInv`** = types, `PhaseInv`, and for keyed plans `SplitInv` (the ranges so far
  follow each other up to `cur`), `BoundsInv` (stable rows lie between the bounds),
  `PageInv` (a page lies beyond `last_key` until it is done), `OnceInv` (a delivered row is
  behind its copier) and `PassedInv` (a stable row is never passed over). `OnceInv` with
  disjoint ranges gives the first theorem, `PassedInv` with the tiling the second.
- **`TallyInv`** (of `TableCopy`): rows are counted page by page but delivered statement by
  statement. Between the two a page has rows in the target that nobody has counted,
  `Uncounted`; what was delivered is what was counted and these. A copier has none except in
  the middle of a page, or after an error, when the copy does not return Ok.
- **`OffsetInv`**: as long as nobody writes to the source, what OFFSET pages delivered are the
  first rows of the source. There are as many of them as `TallyInv` says, so the rows the
  next page skips, as many as were counted, are the rows that arrived: two beginnings of
  one set that have the same size are the same (`BeginningsAgree`).
- **`ImportInv`** = `TypeInv` (types, and what each point of the coordinator has in hand),
  `PlaceInv` (a statement is settled, in the batch, in the queue, with one worker or with the
  coordinator, in one of them only), `EffectInv` (an effect is that of the settled statement or
  has lost its answer), `ResultInv` (`first_err` and the answer), `RegionInv` (all that is in
  the pool is data of a parallel import), `FrontInv` (nothing runs inline before all that
  precedes it is settled or in its batch, and in the pool only other data may be unsettled),
  `ProgressInv` (nothing received is forgotten while nothing ends the import), `SenderInv`
  (the workers' sender is gone early only when data resumes) and `ReadingInv` (an
  undisturbed import reads on to the end). `InOrder` follows from `FrontInv` at the moment of
  an effect; that `FrontInv` survives the end of a region needs the barrier, which finds the
  pool empty because `PlaceInv` and `RegionInv` say who could still be in it.
  `SomeWorker` is assumed because without a worker the pool would count as joined while its
  queue is full (the code spawns at least one); `BoundsAreNumbers` because retries are counted.
- **`MergeIInv`** = `TypeOK`, `PipelineInv` (behind the end of the channel there is nothing
  on its way), `OnceInv` (a table is in one hand, in the channel or in the buffer), `AheadInv`
  (what is on its way comes after all that is written, and not before `want`) and
  `TablesInOrder`. The drain writes exactly `want`, and the leftovers are written only when
  nothing more can arrive: each needs a different part of `AheadInv` and `PipelineInv`.
- **`DealtInv`** follows a table of the dump from the work list through the hands of a worker
  to its report; the join finds no worker, so the work list was empty (`WorkersExist`: with no
  worker at all it would not be). **`IndexInv`** follows the note that indexes are to
  come from the artifact through channel and buffer into the deferred list (`WayInv`), and
  says that every CREATE in the output has its note there or belongs to a failed table of
  a serial dump (`NotedInv`).

- **`TotalsInv`**: a worker reports a table when it has staged it, the merger counts it when it
  writes it; `StoryInv` says that what lies between is on its way and was reported as what
  it is, `TallyInv` that the totals are those of the output, `EmptyInv` that nothing is on its
  way when the tail is written. `MergeIInv` adds that no table is written a second time.
- **`CopyDelivers`**: `CopyIInv` gives what a step alone does not show: that the rows of a
  page have not arrived before (a step of `RowDelivery` brings new rows only), and that when the
  last copier ends no stable row is missing (its answer may be "ok"). Every other step
  leaves rows and answer as they are: a stutter.
- **`TunnelInv`**: while nothing was torn, a tunnel is open from before its driver
  connects, follows its driver into the map, and leaves it after the driver in the hands of
  the same close; a driver and a tunnel are in the hands of one close at most. A call that
  is dropped where this would break is one of those that tore something.
- **`SupervisorInv`**: a job is finished by its own supervisor and by nothing else, which
  has taken the run out of the registry before. **`StopInv`**: what was told to stop is
  running, or is a job's transfer about to, and finds its own control stopped; a run
  registers before it runs and a job never runs again, so only the reset of another
  borrower clears that, which takes the borrowers out of `told` too.
- **`ConsentInv`** follows a yes along its way: from the answer in the dialog through the
  sender to the handshake, and an entry through the snapshots to the file.
  **`FileInv`** says what is missing between the window's memory, with what scheduled runs have
  added, and the file while an append or a rewrite is under way.
- **`QueryInv`** = `QueryTypeOK /\ OwnInv /\ KillInv`: a connection belongs to one request, a
  watcher found nothing but its own statement's, and a KILL under way names a statement
  that runs on the connection it names, or has ended.

- **`BackupIInv`** = `TypeOK`, `HasSchedule`, `FolderInv` (a file is at the path of the run
  that created it), `OwnInv` (a run nobody interferes with has its file to itself, whole
  after the dump, and does not doom it), `DoomInv` (what it dooms is of its own schedule,
  or of an excused one, and nobody else deletes or writes that) and `BackupInv`, which counts
  a run that will be recorded ok as recorded. `ABackupRemains` alone does not say why
  the file that a removal takes is not the last: because the one who removes has a newer.

TLC checked each invariant on the instances above before it was proved. The assumptions are
the `ASSUME`s of the modules; TLC evaluates them in every run.

The sums in `AccountsAgree`, `CountIsExact` and `TotalsAgree` are folds of the community
modules, recursive functions over the subsets of a set, and an induction theorem for them
could not be instantiated. `SumTheorems` does without: if a fact about sums failed, it would
fail for some subset and for none of its own subsets (`Minimal`), and the fold's equation
contradicts that. It shows that a fold's equation has one solution, that the order in which
a sum takes its elements does not matter, and what changing or adding a value does.

Only model-checked: liveness (`Terminates`, `WaitersAreAnswered`, `CancelEndsTheRequest`),
which is out of the prover's reach. Every invariant and every other action property of a
passing run is also a theorem.

## 6. What is not modelled

- Text and bytes: SQL splitting, literals, translation, dump syntax, zip, the backup
  container, value decoding, formats of exports and of connection files. Pure functions, or
  beyond what a model can say in fewer lines than the code.
- Keyset pages over keys that are not integers. For dates and times the code cuts the
  literal of the last key to whole seconds (`data_transfer.rs` 2072-2074), so what the
  properties of `TableCopy` say of pages is said of integer keys only.
- Straight-line sequences of statements on one driver: schema operations, table edits;
  `connection_test` and `connection_update`. CRUD of the store, which SQLite serialises.
- `query_run_to_file`, which registers nothing and cannot be cancelled; the closing of a pool
  while a query waits for a connection; the lookup of MySQL's watcher that finds itself.
- Start and stop of the MCP server, its authorisation and its tools that only read.
- The bytes inside a tunnel; SSM and HTTP proxies, which are child processes and sockets.
- What is in a backup, the restore and its session settings.
- The stores of the window: a cache entry that an answer overwrites after its invalidation,
  jobs skipped by the executor, the queue of approvals. They are short and run on one
  thread; their hazards are listed with a note and without a property.
- Views, translations, themes.
