# robinhood-lp: verification project

TLA+ models of the parts of `robinhood_lp` in which the order of steps matters
(durable state, requests that fail, the backtest loop, the workflow controller),
with TLC configurations that check them on small instances and TLAPS proofs
about eight of them. `PROJECT.json` maps every definition to the lines it stands for.
Paths below are relative to `src/src/robinhood_lp/`.

## The system

robinhood-lp ingests Uniswap V4 pool events from a chain through JSON-RPC
endpoints, stores them as raw Parquet partitions beside a SQLite manifest,
replays them, and runs backtests and research over the result. About 50,000
lines of it are library code; most is deterministic arithmetic over immutable
inputs. What is hard is where state survives a process, where an endpoint may
fail, and where the order of steps decides a result:

| Component | State | Operations | Interacts with | Hard behaviour |
|---|---|---|---|---|
| Raw partition writer (`storage/writer.py`, `manifest.py`, `partition.py`) | Parquet files; `partitions`, bounds, qualification, `event_index`, checkpoint tables | `append_partition` | called by the ingestion runner; files read by the reader | file and manifest are two stores; crash between rename and commit; racing writers; conflicting observations |
| Raw partition reader, reconciliation (`storage/reader.py`, `reconciliation.py`) | none | `read_partition` | the writer's files and manifest | several reads, no transaction around them |
| Ingestion runner, planner, checkpoint (`ingestion/runner.py`, `planner.py`, `checkpoint.py`) | durable checkpoint, run manifest and intervals | `run`, cancellation | router, writer, header source and sink | resumption, windows and splits, partial failure, reorg under a checkpoint |
| Router, budget ledger, endpoint client (`ingestion/router.py`, `endpoint_client.py`) | what is left of each alias' budget | `cover_sub_range` | runner, adapter | failover over aliases under budgets, overflow, the pin of an empty range |
| RPC adapter (`rpc/adapter.py`) | call in progress, metrics | `eth_getLogs`, `eth_getBlockByNumber` | clients, header source, endpoints | retry, failover and range split nested in one call |
| Header source (`ingestion/block_header_source.py`) | cache, counters; `block_headers` | batched fetch, upsert | runner, adapter | a failed batch repeated block by block; separate transactions from the rows |
| Run lifecycle (`orchestrator/`, `application/backtest.py`) | one JSON record per run; evidence, manifest, report | submit, start, resume, cancel | engine, CLI, readers of records | cancellation from another process, crash while RUNNING, artifact/record order |
| Reorg handler (`storage/reorg/`) | in-memory canonical view; journal and incidents in the manifest | observe_new_tip and three notices | called by tests only in this commit | repeated reorgs, restarts that lose the view, failing journal writes |
| Backtest engine (`backtest/`) | position, queued fills, audit chain | `run` | strategy and risk callbacks, run lifecycle | causality: a fill that waits for a later event |
| Workflow controller (`tools/workflow/`, outside the library) | `todo/config.yaml` in main and in every worktree, runtime records, artifacts | the commands of the CLI | Git, agents, the owner | three kinds of work interleaved over one main checkout; commands that die halfway |
| Replay, protocol maths, features, strategies, risk, robustness, research, reports, quality, qualification, discovery, experiments, configuration | values | pure functions | each other | width and rounding; the one-shot holdout lock of `experiments/candidate_lock.py` |

What makes each correct: a committed partition is what its manifest row says,
and never changes (writer); a caller gets committed rows or an error (reader);
the checkpoint never runs ahead of rows and headers and a complete run covers
its plan once (runner); a record only advances and binds what exists
(lifecycle); what the view mixes is evidenced and what is measured as deep stays so
(reorg); a decision is true of the chain and every request ends (RPC); a decision
of a strategy sees at least the fills that are due (engine); what lands was
reviewed and lands beside no other claim (workflow). `PROJECT.json` lists the hazards, line by line.

## The modules

| Module | Models |
|---|---|
| `CommittedDataset` | abstract: a partition is published whole, once, and may later be halted; implemented by the writer and by the runner |
| `RawPartitionWriter` | `append_partition` as nine actions; refines `CommittedDataset` |
| `RawPartitionReader` | `read_partition` beside the writers; EXTENDS the writer |
| `RawPartitionWriterProofs` | TLAPS proofs about the writer |
| `IngestionRunner` | one runner process, its manifest, a chain that may fork |
| `BacktestRuns` | run store, orchestrator, T112 path, use case, CLI cancel |
| `ReorgHandler` | canonical view, common ancestor, handler, journal |
| `RpcAdapter` | one adapter call, request by request |
| `EndpointRouter` | router, budget ledger and clients; EXTENDS the adapter |
| `BlockHeaderSource` | the batched header fetch; EXTENDS the adapter |
| `IngestionRpc` | composes these three under the walk of a runner |
| `BacktestEngine` | one run of the event loop |
| `WorkflowStatus` | the status algebra of the workflow controller: transitions, lifecycle, derivation |
| `Workflow` | its commands on tasks, amendments and repairs |
| `RawPartitionReaderProofs`, `IngestionRunnerProofs`, `BacktestRunsProofs`, `ReorgHandlerProofs`, `IngestionRpcProofs`, `BacktestEngineProofs`, `WorkflowProofs` | TLAPS proofs about those seven |
| `MC*` | constants and symmetry sets of the runs |

### RawPartitionWriter, RawPartitionReader

One record is its EventKey and normalized content hash; a file is the batch and
the acquisition envelope, so two fetches of the same rows have different bytes,
and its digest is the file itself (SHA-256 taken as injective). A writer goes
`idle -> stage -> rename -> commit` when the lookup found no row and
`idle -> verify -> merge` when it found one, one action per atomic step of the
operating system or of SQLite. `Fail` is an exception at any step, `Crash` the
death of the process; neither undoes a rename. The order of records inside a
batch, which decides the first observation of a key the batch holds twice, is
the choice of `FirstObservations`. The reader takes one action per read; a
writer can move between any two.

### IngestionRunner

The walk of `run`: `Begin` (checkpoint loaded), `VerifyEndBlockHash`, `Plan`,
then per window `Cover` (and `CoverLeft`, `CoverRight`), `FetchHeaders`,
`AppendCell` per grid cell, `SinkHeader` per header, `RecordInterval`,
`UpsertCheckpoint`, and `Finish`. What the router answers is nondeterministic:
failed, overflowing, empty (pinned or not), or the rows of the window; how it
comes to that answer is `IngestionRpc`. A crash
forgets the walk and keeps the manifest. The chain may reorganise once, at any
moment; a block's hash is the block and its fork. Partition commits are those
`CommittedDataset` promises, with the row-loss guard. `answered` is history only: the
blocks an endpoint has answered for in this run, which coverage has to rest on.

### BacktestRuns

`RunStateStore.write` is two steps, `CheckRecord` and `ReplaceRecord`. The
execution stages are load, engine, build, the artifacts in the order each path
writes them, and settle; the token is polled where the code polls it. T069 is
`BacktestOrchestrator`, T113 the use case over the T112 path. `CancelRecord`
writes a record and reaches no token, as both cancel commands do. A resumed run
starts from its first stage. A failed write (`FailToWrite`) is caught where the code
writes inside a `try` (`Guarded`): the T069 path then writes a FAILED record, also when
it was the SUCCEEDED record of published artifacts that failed
(`orchestrator/__init__.py:1931`, `1955`), while the success record of T113
(`application/backtest.py:387`) leaves the run RUNNING.

### ReorgHandler

A block is the sequence of branch labels from genesis, so its hash binds its
ancestry. An observation is a linked chain from genesis, which is what
`CanonicalChainView.add_header` asks of a fresh view. `Absorbed` keeps heights
the view already holds, as `_absorb_observed` does. The journal is the set of
its distinct rows. `accepted` is history only: the last chain answered
"continue".

### RpcAdapter, EndpointRouter, BlockHeaderSource, IngestionRpc

A call is a stack of ranges still to be asked, the endpoint asked and its
attempts; one action is one request with its answer. `_call_with_retry` (attempts
and backoff), `_call_with_failover` (next endpoint, and the error raised when
there is none) and the halving of a range that is too large are the outcomes of
that request. A log is its block and its index; a page is a sequence of logs.
`cover_sub_range` walks the aliases with the guards in the order of the code
(client, width, budgets), one action per branch. All clients forward to the one
adapter that `__main__.py` builds, as the command line does; the adapter picks
the endpoint itself. The header source sends its batches past the adapter's
retries to the first endpoint, and repeats a batch that failed in transport block
by block through the adapter. Clocks are reduced to whether the time budget is
spent, bytes to rows. `AnswersNull` says whether an endpoint may answer
`eth_getLogs` with null.

### BacktestEngine

The loop admits the sorted events one by one. A step of the model is what the
loop does to one event: release one fill that waited for it (due fills before
anything else, in the order of their triggers), or one of the outcomes of
reacting to it. `_find_fill_data` is the first event of a fill kind at or after
the fill time that is available by then. The loop's binding `ledger` and the
helper's `ledger_ref` are two variables because the code keeps two and reads one
into the other at two places. Strategy and risk callbacks may answer anything. A position is
who filled it last and when. Events of one time and source are ordered by
content hash, which is any order. `classify` rejects by a schedule; partial and
delayed outcomes change the position as a fill does and are one outcome with it.
An audit event remembers which event the loop was at (`emitted_at`), which the code does not
store.

### WorkflowStatus, Workflow

`WorkflowStatus` has the tables `ALLOWED_TRANSITIONS` and `LIFECYCLE_OF` and the
derivation of a status from what an attempt has committed. `Workflow` has one
action per command, with the configuration of main and of each worktree, the
runtime records, and the landing by fast-forward: a branch can land iff it starts
at the head of main (`current`). `at` is what the head of a branch is. An agent's
result is chosen when the finish command reads it. The commands in
`Interruptible` may die after their first write; `WorktreeLost` removes a
worktree. The finish of an amendment's or a repair's review may die before the merge or
after it. A planner may name a result its validation admits and no status derives
from (`finish_plan_unrecognised`). Reduced: a planner's edits of the configuration, a main checkout left
dirty by a refused command, attempt numbers of amendments and repairs, their
continuation sessions, and the text checks on handoffs.

## The runs

| Run | Asks |
|---|---|
| `OneWriter` | one writer that may fail or die anywhere, one reader, two cells: does the manifest always describe the file and the index, do reads return committed rows, is a halted partition refused, is the abstract dataset implemented? Yes. |
| `TwoWriters` | two writers on one cell: do conflicts halt, are acknowledged batches durable, is nothing undone? Yes. |
| `IngestionRuns` | three targets, two configurations, one reorg, crashes, cancellation: is the checkpoint behind rows and headers, is a forked prefix left alone? Yes. |
| `IngestionSplits` | windows of four blocks that overflow: coverage exactly once and only of what an endpoint answered for, checkpoint monotonic, every run ends? Yes. |
| `SplitDropsRows` | the same checkpoint invariant with splitting: **No**: a split window is covered and nothing of it stored. |
| `IngestionRpc` | endpoints that fail, throttle and refuse: is a decision true of the chain, is every request accounted for, do the counted header calls stay within the event blocks, does the run go on only with all headers, does every cover end? Yes. |
| `OneProcess` | one process, two runs, two faults: does a record only advance and bind existing artifacts, does RUNNING settle? Yes. |
| `CancelledRunPublishes` | is nothing published by an unsuccessful run? **No**: the last poll follows publication. |
| `ReorgForks` | four observations, notices, failures, restarts over two branches: is every disagreement in the view journaled, does a chain measured as too deep stay so (a halt for an unreachable ancestor does not, see below)? Yes. |
| `EngineCausality` | any three events, early, late or a shutdown, with and without latency: is an approved intent settled once, does a decision see the position the audit chain made, with at least the due fills in it? Yes. |
| `FillAheadOfTime` | is a fill booked only when the loop has come to its data? **No**: data exactly `latency_units` ahead is filled at once, and a decision before that data already sees the fill, which `todo/phases/P06-backtesting-and-strategy/T109.md` forbids. |
| `WorkflowLanes` | two dependent tasks, an amendment, a repair, a fault: do configurations load, was what is delivered reviewed, do contracts hold while claimed, is delivery final, are attempt numbers new, does nothing land beside a claim? Yes. |

`IngestionRuns` does not let windows overflow, because `SplitDropsRows` shows
that `CheckpointCoversPersistedEvents` fails as soon as one does.
`FileMatchesManifest`, `IndexMatchesFile`, `ReturnsCommittedRows` and the
refinement hold as long as no two calls are under way on one partition
(`OneWriterPerPartition`). One writer per data root, which the repository uses,
gives that; no lock enforces it. On the T112 bridge an event is available at its block, so with any
latency a fill is taken ahead of time (`FillAheadOfTime`) or the run raises;
`reports/simulation_evidence.py` refuses the resulting cursor order in the
T069 path.

### Divergences the models reach without a run of their own

Each is stated in its module; put it in the named configuration, in place of the
properties there, and TLC prints the trace.

- `FileMatchesManifest` in `TwoWriters.cfg`: both writers find no row, the first
  renames and commits, the second renames over its file and fails to insert.
- `CheckpointHashIsOfItsEnd` (`IngestionRunner`) in `IngestionRuns.cfg`: an empty
  window pins its end block's hash, the next window has events and pins none, so
  the checkpoint ends at one block with the hash of another.
- `TerminalIsFinal` (`BacktestRuns`) in `OneProcess.cfg` with two processes: a
  cancel lands between the check and the replace of another process' write.
- `DeepReorgHalts` (`ReorgHandler`) in `ReorgForks.cfg`: shallow reorgs leave a view
  that mixes branches, and the depth of the next is measured against the mixture.
- `HaltedForksStayHalted` (`ReorgHandler`) in `ReorgForks.cfg`: after `<<a>>`, the chain
  `<<b, b, b>>` halts because the walk from its tip is too long
  (`storage/reorg/handler.py:378`); `<<b, b>>` is then accepted as shallow, and
  `<<b, b, b>>` in order. A fork refused for its own length is let in piece by piece,
  which is why `MeasuredDepthStaysDeep` speaks of measured depth only.
- `AnsweredByItsEndpoint` (`EndpointRouter`) in `IngestionRpc.cfg`: the client of one
  alias gets the answer of another endpoint from the shared adapter
  (`__main__.py:502`), and the decision and budget name the wrong one
  (`ingestion/router.py:87-88`).
- `DecisionIsTrue` in `IngestionRpc.cfg` with `AnswersNull = TRUE`: a null page is
  skipped, and the range is taken for empty.
- `TasksHaveAnExit` (`Workflow`) in `WorkflowLanes.cfg`: `ready(t1)`,
  `prepare_develop(t1)` copies the configuration with t2 open into the worktree,
  `abandon_task(t2)` in main; `abandon_task(t1)` is refused because the worktree
  still lists t2 as an open dependent (`tools/workflow/core.py:3116`; `todo/WORKFLOW.md:216`
  promises an owner exit from every open status).
- `ClosedStaysClosed` (`Workflow`) in `WorkflowLanes.cfg` with
  `depends_on <- Independent`: the same three steps, then `abandon_task(t1)` writes the
  configuration of its worktree over main, and t2 is open again
  (`tools/workflow/core.py:3102-3103`; `todo/WORKFLOW.md:238`: "`ABANDONED` is terminal").
- `ApprovedIsFinal` with `Independent` and `Interruptible = {"abandon_task"}`:
  `abandon_task(t1)` dies after its commit and before it removes the runtime record
  (`tools/workflow/core.py:3174-3178`); t2 is delivered; `abandon_task(t1)` is run again,
  reads the old worktree and undoes the delivery (`todo/WORKFLOW.md:299`: "An `APPROVED`
  task is terminal").

Other consequences of modelled guards, with no property: a run left QUEUED by a
crash is skipped by resume and refused by submit; a resubmitted T113 run can
answer SUCCEEDED while the store keeps an older record; the engine writes no
terminal SHUTDOWN audit event when the last event was only SEEN, and drops the
fills that wait when a shutdown marker comes; two events of one block are
ordered by content hash, so cursors on the audit chain may go back within a
block; a fast-forward that is refused after the approval was committed leaves a
task no command moves; a repair whose review asks for triage is saved with a
status its reader refuses; an amendment or repair whose review dies after the merge has
landed and still awaits review, and can only be withdrawn, with a note that nothing of
it landed (`tools/workflow/core.py:2862-2868`, `3051`; `3844-3847`, `3351`); a
planner's `CONTINUATION_REQUIRED` passes validation (`tools/workflow/core.py:4408`) and
has no status (`core.py:445`), so that the artifact it leaves in the worktree stops
`finish_plan` and `abandon_task` alike, and only a lost worktree with `discard_attempt` gets
the task out (a second trace to `TasksHaveAnExit`).

### Bounds

- Storage: three EventKeys in two cells, two contents, so a batch can
  contradict itself, an earlier batch and a neighbour; batches of at most two
  records (`SmallBatches`), the size at which every outcome of
  `RecordEventBatch` occurs. With two writers one cell, since cells share
  only the monotonic checkpoint. Symmetry: contents, acquisitions, writers and
  the two keys of one block are interchangeable.
- Ingestion: six blocks, cells of two, a first cell that is partial, windows
  of two or four. `DenseEventBlocks` puts two events in one cell, so that a
  run that stops between them leaves a cell the next run cannot complete (the
  row-loss guard). One reorg, at any block.
- Run lifecycle: two runs and `MaxFaults = 2` (crashes and failed writes
  together) for one process; one run and no fault for the races.
- Reorg: heights 0..3, threshold 2, two branches, `MaxCalls = 4`, what three
  reorgs after a first observation take.
- RPC: three endpoints of which one is disabled and without a client, two
  clients, blocks 0..3 with a log each and a second one in the last, endpoints whose answers hold two
  rows and one (so that a range has to be split), alias caps of four blocks and one, three
  rows of answer before it overflows, header batches of two blocks, one retry, a
  budget of one call and three rows per alias, `MaxCovers = 2` sub-ranges. So a successful
  decision joins three rows of several halves and pages, an answer may be too large,
  a batch fails beside one that was answered, a budget is exhausted and the cache is used.
- Engine: up to three events over three blocks, available at 0..3, two kinds of
  which one triggers, latency 0 or 1, rejections in block 3 or nowhere: two fills
  may wait for one event and one fill may be followed by another. `FillAheadOfTime`
  has swaps only, as the bridge makes them.
- Workflow: two tasks, the second depending on the first, one repair, one
  amendment, two attempts each, one fault (`MaxFaults`) among six interruptible
  commands and lost worktrees. `abandon_task` is not interruptible in the run: what its
  death leads to with independent tasks is the last divergence above.

Deadlock is not checked where the system stops: a bound ends every behaviour
(`MaxCalls`, `MaxCovers`, `MaxAttempts`), a run halts, or the events are used up.

### Fairness

`IngestionSplits` assumes weak fairness of the runner's own steps: the coroutine
that runs `run` is scheduled while it has something to do. New runs,
cancellations, crashes and reorgs are not fair. `OneProcess` assumes weak
fairness of `Work` for the same reason, and strong fairness of resuming each run
found RUNNING: the operator, or the start of the console, calls
`resume_in_flight` again as long as there is one, which is the premise of its
docstring ("A restart while a run is in flight must not duplicate the run or
lose its state"). `IngestionRpc` assumes weak fairness of the steps between two
covers: the runner, router and adapter are one thread, and a request that is
never answered ends in its timeout. Nothing else is assumed; a process may die
twice.

## The proofs

A theorem holds for every value of the constants, where a run checks one
instance. It rests on the named assumptions of its module (`GridAssumption`,
`SentinelAssumption`, `FaultsAssumption`, `ThresholdAssumption` and the like),
which TLC evaluates in each run, and on nothing else.

`RawPartitionWriterProofs`, for every set of writers, keys, contents and every
grid:

- `TypesAreKept`: `TypeOK`, by the inductive `TypeInv` (`TypeOK` and the shape
  of a writer's call at each step).
- `ConflictsAlwaysHalt`, `AcknowledgedStaysDurable`, `ManifestOnlyGrows`: for any
  number of racing writers. The invariant `MultiInv` adds to `TypeInv` what
  ties the tables to the row (`RowsInv`): a call that found a row still finds it,
  a partition has a qualification iff it has a row, and the index names only
  partitions that have one. Without it a first commit could find halted or
  indexed what was never published. Merge and Commit are
  both reduced to one lemma about the index write (`IndexWrite`), every other
  step to `StepCases`.
- `FileAlwaysMatchesManifest`, `CommittedPartitionsReconcile`: for any number of
  writers as long as `OneWriterPerPartition` holds: `Spec /\ []OneWriterPerPartition
  => ...`. The strengthening `FreshInv` says that while a writer stages, renames or
  commits, its cell has no row yet: that is what the race breaks.
- `WriterImplementsCommittedDataset`: under the same hypothesis every step of a
  writer is a step of `CommittedDataset` or a stutter.
- `SoleWriterIsSafe`: the three without the hypothesis, where any two writers are
  equal (`SoleWriter`).

`RawPartitionReaderProofs`, for every set of readers beside those writers:

- `HaltedIsRefused`: `RefusesHalted`, for any number of writers. `CallInv` says that a
  call in progress is about a partition with a row, and that one made on a halted
  partition has not come past the check of its qualification.
- `CommittedRowsAreReturned`: `ReturnsCommittedRows` under `[]OneWriterPerPartition`, and
  `SoleWriterIsReadBack` under `SoleWriter`. It joins `ReturnInv`
  (what was loaded is what the row commits to) to the writer's
  `FileMatchesManifest`: between two reads of a call the file stands because the
  writer renames only where there is no row.

`IngestionRunnerProofs`, for every chain, grid, set of targets and budget of faults:

- `TypesAreKept`: `TypeOK`, with what a run holds at each step (`RunTypes`).
- `CheckpointIsCovered`, `CoveredHeadersAreThere`: `CheckpointCoversPersistedEvents` and
  `CoveredEventsHaveHeaders`, under `MayOverflow = FALSE`: with an overflow the answer merged
  from two halves carries no rows, which is the violation `SplitDropsRows` shows.
  `CoverInv` says that no two rows are of the same block on different forks, that the
  rows in hand are those of the window, and up to where rows and headers are
  there: the end of the last window, and the checkpoint behind it.
- `ForkedPrefixStands`: `ForkedPrefixNeverExtended`. `ForkInv` says that every hash pinned while
  the chain has not forked is of the old fork, so that a run that starts under a
  forked checkpoint cannot come past its comparison.
- `CompleteRunsCoverOnce`, `CheckpointsAdvance`: `CompleteMeansCoveredOnce` and
  `CheckpointMonotonic`, overflows included. `OnceInv` says that the intervals of a run end where its next window
  begins and that the checkpoint is there too, however windows are split;
  `AnsweredInv` that what lies behind it was answered for, both halves where a
  window was split.
- `RunsPublishWholeCells`: the runner implements `CommittedDataset`, the abstract
  dataset the writer is shown to implement, with its partitions as the cells: a
  cell is published whole by one commit and left alone by every later window, retry
  or run, overflows included. The writer's atomic commit is thus what the runner needs of it.

`BacktestRunsProofs`, for every number of runs, processes and faults:

- `TypesAreKept`: `TypeOK`, inductive as it stands; two lemmas say what starting
  to write a record and going on without one do, and every action is one or the
  other.
- `RecordsBindPublished`: `RecordedArtifactsExist`, also for processes that race
  for one run, which the run `OneProcess` does not check. `Backed` says of each
  process that what its stage presupposes has been published (`Earlier`) and
  that the record in its hands binds only what is there. Files are never removed, so a
  step of one process leaves every other backed (`OthersBacked`).
- `ExclusiveWritesAdvance`: `LifecycleOnlyAdvances` for any number of processes, as
  long as no two are between check and replacement of one record
  (`OneWritePerRun`). `Current` says that a reservation in its hands is for a
  run still absent and that the record it is about to replace is not terminal:
  what a cancel that falls between breaks. A lock around check and replacement would
  therefore be enough; a cancel at any other time does no harm.
- `SoleProcessAdvances`: its corollary where any two processes are equal.

`ReorgHandlerProofs`, for every set of branches, every height, threshold and
number of calls:

- `TypesAreKept` and `EvidenceIsKept`: `TypeOK`, and that journal and incidents
  only grow.
- `MixturesAreJournaled`: `DisagreementsAreJournaled`. `AbsorbedShape` says which
  heights of a view come from the old view and which from the observed chain;
  `ReconcileJournals` that the heights where they differ are among the rows
  written before the view is replaced.
- `MeasuredDepthIsKept`: `MeasuredDepthStaysDeep`. `CommonAncestor` is shown to be the highest
  shared height (`AncestorIsHighestShared`, from well-foundedness of finite sets
  of heights), and a call that goes on moves the tip and the ancestor of any
  other chain so that their distance does not fall below the threshold
  (`DepthIsKept`).
- `FirstDeepReorgHalts`: what is true of `DeepReorgHalts`. Until the first shallow
  reorg is journaled, a chain that orphans more accepted blocks than the threshold
  is never accepted. `UnmixedInv` says that till then the view is the chain accepted
  last, so that depths are measured against what was accepted.

`IngestionRpcProofs`, for any endpoints, weights, caps, budgets, batch sizes and logs:

- `TypesAreKept`: `TypeOK`, also of the pages and ranges a call holds while it
  splits, fails over and retries. `CallInv` types a call in progress; `RouterInv`
  types walk, decision and ledger, and says that an alias that is asked is one of the
  failover order, has a call left in its budget, and is asked by `eth_getLogs`.
- `DecisionsAreTrue`: `DecisionIsTrue` where no endpoint answers null. `TruthInv`: the rows
  collected so far, followed by the rows of the ranges still on the stack, are the rows
  of the sub-range in order, and that is kept when a range is answered, halved
  (`HalvesHoldTheRange`) or paged in reverse (`RowsOfReverse`). That a finite set of logs
  can be put in order at all (`FiniteSetsCanBeArranged`, `RowsInOrder`) is shown by taking the
  smallest set that cannot, well-foundedness instead of an induction theorem.
- `DecisionsAreOfTheirRange`: whether or not endpoints answer null, a successful decision
  has rows, all of its range, once and in order, and a range given up as too large is not
  empty. What null answers break is completeness alone.
- `RequestsAreAccountedFor`: `MetricsReconcile`, inductive as it stands; every
  outcome of a request adds one to the requests and one to a counter of its own.
- `LogicalCallsAreDistinct` and `NoHeaderIsMissing`: `HeaderCallsWithinBlocks` (a statement
  about the counted calls: a batch that failed in transport is repeated and not
  counted) and `GoesOnWithHeaders`. The inductive `HeaderInv` says which blocks of a fetch are pending, in
  the batch, asked for and in the cache (`FetchParts`), what the runner may wait
  for then (`RunParts`), and that the logical calls never exceed the blocks asked
  for; that a batch is not empty rests on the least element of a finite set of blocks.

`BacktestEngineProofs`, for any list of events, latency and failure schedule:

- `TypesAreKept`: `TypeOK` with `SortedByTime`: a queued fill's data lies ahead of the loop
  because it is later than the fill time and the events are sorted.
- `ApprovalsSettle`: `ApprovalsSettleOnce`. `SettleInv` adds that every trigger on the chain is
  behind the loop, that what waits has no fill yet, and that a trigger waits at
  most once; without them a second fill of the same trigger could not be excluded. Audit events
  that neither approve nor fill are one lemma (`QuietKeepsSettled`).
- `DecisionsSeeWhatIsDue`: `DecisionsSeeDueFills`, the position the chain made with at least the
  due fills in it. `SeenInv` keeps the engine's two bindings of
  the position apart: the release helper's is always what the fills on the chain
  have made (`BooksMatchFills`), the loop's own is the same unless a fill waits
  for the event the loop is at (`BindingsAgree`), which is when no decision is made;
  a queued fill waits for the first event it may take its price from
  (`WaitForTheirData`), so what is neither queued nor due has been filled.
- `FillsLookNoFurther`: what is true of `FillsWaitForTheirData`. A fill is of a trigger
  already admitted and takes the event `_find_fill_data` chooses; its data is ahead of the
  loop only at the trigger itself and then of exactly the fill time. The
  violation has this one form.

`WorkflowProofs`, for any tasks, dependencies, repairs, interruptible commands and bounds:

- `TypesAreKept`: `TypeOK`. `TypeInv` types every record; the commands on the branch of a
  task are reduced to what they have in common (`SessionStep`), beside those that begin,
  retry, land, close, lose or discard an attempt (`TaskStepCases`).
- `DeliveriesWereReviewed`, `ConfigurationsLoad`, whichever commands die halfway. `ConfigInv` says
  of main that one task at most holds the lane, of a worktree that none but its own task
  does, and of both that what they call delivered was reviewed. So whatever a command
  writes over main, from a stale worktree too, keeps it (`WrittenConfig`, `ConfigsFollow`).
- `ContractsHoldWhileClaimed`, `AmendmentsFindTheirTarget`, `LaneIsFreeAtLanding`, likewise:
  `ClaimedContractsHold`, `AmendmentsLandOnPlans` and `LandsBesideNoTask`. `BesideInv` says
  that while a branch of an amendment or a repair can land, no task holds the lane and the
  amendment's target is planned: whatever would change that moves main and leaves the
  branch behind. That is the protection the repairs have, not a guard of `ready`. A landing whose
  command dies after the merge (`Landed`) is one of those the theorems speak of.
- `DeliveriesAreFinal`, `NumbersAreNeverReused`: `ApprovedIsFinal`, `AttemptsNeverReused`. They
  assume `NoDeathInAbandon` (`abandon_task` does not die halfway), because otherwise
  the attempt of a closed task lives on and the first is false (the last divergence above).
  `LaneInv` says what the controller relies on and nowhere checks: a live
  attempt belongs to the one task that holds the lane in main, its configuration agrees
  with main about every task not abandoned since, and the record carries the highest
  number given out.
- `OnlyAbandonReopens`: what is true of `ClosedStaysClosed`, whichever commands die: the
  lifecycle of a closed task changes only by an `abandon_task` that finds a worktree retained.
  `BranchesAgree` says that a branch at the head of main says of every other task what
  main says, so that no fast-forward reopens anything.

Only model-checked: liveness (`RunEnds`, `RunningSettles`, `CoverEnds`), which with fairness
and ENABLED is out of the prover's reach. No module uses a recursive
operator. The violated properties are not theorems. Those that hold where two
calls exclude each other (`FileMatchesManifest`, and `TerminalIsFinal` as a
conjunct of `LifecycleOnlyAdvances`) are proved with the exclusion as
hypothesis; of `DeepReorgHalts`, `FillsWaitForTheirData`, `ClosedStaysClosed` and of
`DecisionIsTrue` with null answers the part that does hold is proved.

## Not modelled

Capability probing; retry ledger, deviation records and schema-drift halt of the
runner; the adapter's other methods (`eth_call`, receipts, code, block number),
which are the same walk without a split; `ManifestStore` tables no modelled
component writes; `read_range` and the rendered reconciliation report; the
finality evaluation over endpoint answers (a pure function) and the gates it
feeds; a fork between two requests of one run; a second pool of the same PoolManager, whose batches would
share partition ids; several pools in one backtest and the numbers of the model bundle. The replay
fold and its 160/256-bit arithmetic are out of the reach of bounded checking.
The remaining components of the table are pure functions, I/O or report layout;
`PROJECT.json` gives each one's reason. Most of the repository's lines are
of that kind, so the share of lines the models cover is small by nature.

## What is left

1. `CandidateLock` (`experiments/candidate_lock.py`): the one-shot lock and its
   non-atomic write.
2. The finality evaluation of `storage/reorg/policy.py` and `handler.py` as
   operators over the answers of a few endpoints.
3. Replay with its checkpoint: resuming equal to one pass, the arithmetic as an
   uninterpreted step.
4. A fork of the chain between two requests, in `RpcAdapter`.
