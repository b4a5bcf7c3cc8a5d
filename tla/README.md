# ContractForge in TLA+

ContractForge turns a data contract (one YAML or dict per target table) into an
ingestion. A platform-independent core normalizes contracts and plans them; an
adapter per platform (Databricks, Snowflake, AWS, Fabric, GCP) runs the result or
renders a script that does. Most of that is a pure function of one contract. What
can go wrong between two steps of the program is the *execution*: several drivers
ingest the same target, share a handful of control-table rows without a
transaction around them, read a source that changes while they look at it, may
raise at any statement and may die at any time; and above them, calls deploy and
start whole projects next to each other. This directory specifies these
executions for all five adapters, model-checks them with TLC on small instances,
and proves the central properties with TLAPS for every value of the constants.

Paths below are relative to `src/`; `dbx/` abbreviates
`adapters/databricks/src/contractforge_databricks/`, and `snow/`, `aws/`,
`fabric/`, `gcp/` likewise the packages of the other adapters; `core/` is
`src/contractforge_core/`. `PROJECT.json` names, per definition, the source lines
it stands for (`map`), the runs, a mutation per property that the run must catch,
the hazards of the code and the theorems.

Contents: 1 Inventory · 2 Modules · 3 Correspondence with the code · 4 Runs ·
5 Fairness · 6 Proofs · 7 Disagreements and anomalies · 8 What is left out · 9 Plan

## 1. Inventory

### 1.1 The parts, their state, and what makes them correct

| Part | State | Operations | Correct when |
|---|---|---|---|
| **Target lock** `dbx/state/` | a row of `ctrl_ingestion_locks` per target: run, status, expiry | lock MERGE, read-back SELECT, release UPDATE | two runs inside their leases are never both inside; a release touches only its own row; a dead owner loses the target |
| **Databricks ingestion run** `dbx/runtime/orchestrator.py` and what it calls | run log, state row, target rows; local previous watermark and candidate | prepare, idempotency look-up, lock, write, candidate, finalize success / skip / failure, release | the watermark covers only what was written; replays write nothing; skips are justified; evidence never claims more than happened; a dry run leaves nothing |
| **Available-now stream** `dbx/runtime/available_now.py`, `bundles.py` | Spark checkpoint (offset log, commit log), `ctrl_ingestion_streams`, child runs | start, plan/replay a micro-batch, ingest it, commit it, finish | at-least-once; no success while rows were left behind |
| **Window loop** `dbx/runtime/windows.py` | the child runs and the state row they share | run a window, stop or go on after a failure | the watermark passes over a window only openly |
| **Historical write (SCD2)** `dbx/execution/scd2*.py`, `retry.py` | versions of the target with validity windows | preflight, delete MERGE, staging view, change MERGE, retry | a key has one version at a time; late rows obey the policy; no row of a batch is lost; a repeat adds nothing |
| **Other write modes** `dbx/execution/`, `fabric/write_modes/`, `aws/write_modes/`, `snow/write_modes/` | target rows | guards, first write, one or two statements, retry | one row per key; each mode leaves what it says; replays write nothing; what is measured is what was written |
| **Schema policies** `core/schema/diff.py` and each adapter's `schema` | the columns of the target, schema-change evidence | look, compare, ALTER, log, write by name or position | the policy is kept; evidence is one's own; values stay in their column |
| **Snowflake runner** `snow/runtime/runner.py`, `execution.py`, `quality.py` | lock, append-only state log, run log, quarantine table | look-up, lock, state filter, rules, write, state row, release, run row | as the Databricks run; plus: what a rule refuses stays out |
| **Fabric notebook** `fabric/rendering/notebook.py`, `sources/streams.py` | the same tables; a Spark stream materialized at a shared path | the generated notebook from lock to release | the same; a row that left the stream is not lost silently |
| **Glue job, Glue stream** `aws/rendering/glue_job.py`, `streaming_job.py` | bookmark or checkpoint, state table | the generated scripts | the bookmark passes only what was delivered |
| **Project orchestration** `gcp/deployment/`, `fabric/smoke/`, `aws/cli/`, `aws/orchestration/`, `snow/runtime/project.py` | what the services hold of each step, executions, jobs, evidence of the workflow | deploy, run, wait, read back, clean up | what a call says of its run is so; a run is of what was deployed; steps run once, in order |
| **REST reader** `core/connectors/api/rest/` | page position, records so far, watermark | request, retry, page, cut | a read that is not cut is complete; repeats are explained; the watermark covers what was delivered |
| Quality on Databricks, evidence, governance, lineage, metrics `dbx/` | a row or DDL statement each | render and execute | (no state of their own) |
| Core semantics, planner, normalization `core/` | none | pure functions | total and deterministic tables |
| Planning and rendering of all adapters, CLI, AI tooling, examples, tests | none shared | – | – |

### 1.2 How the parts interact

* A **run** calls the lock, reads and overwrites (Databricks) or appends to
  (Snowflake, Fabric, AWS) the state table, appends to the run log, and calls one
  write executor. There is no transaction across these: every statement is a
  commit of its own, and another driver's statement may come between any two.
* Every statement that reads the **source** evaluates it anew: it is a lazy
  DataFrame, a view or a subquery. The count, the quality rules, the key checks,
  the write and the `MAX` of the watermark may each see another source.
* A **stream** calls the run once per micro-batch from Spark's `foreachBatch`
  callback; Spark decides from the callback's return or exception whether the
  checkpoint moves. A Fabric notebook materializes the batch first and commits
  the checkpoint *before* it writes.
* A **window** loop calls the run once per window and shares its state row.
* The **schema policy** and the **write** are statements of the same run; the
  columns of the dataframe, of the source and of the target are looked at in
  different moments.
* A **project** call uploads the artifacts of each contract, starts executions in
  a service or drives them itself, polls, and judges by statuses and evidence rows;
  other calls and schedules use the same names in the same service.

### 1.3 What is hard about it

* *Order of reads.* On Databricks the previous watermark is read while the view is
  prepared, before the idempotency check and the lock. Nothing is read again
  under the lock.
* *An unstable source.* See above; where the code guards against it (`late`,
  `guarded`, `clean` in the models) and where it does not.
* *Partial failure.* Anything may raise between the commit and the state row,
  after the success is recorded (hooks, the SUCCESS row of Snowflake, which is
  inserted outside of the try block), or in the except block.
* *Crash.* A driver that dies leaves an ACTIVE lock row, a committed write
  without evidence, a RUNNING stream row, a batch that Spark will run again, or a
  batch that Fabric will not.
* *Leases without fencing.* A lock is granted for a time, never renewed, and
  nothing stops a run that outlived it from writing.
* *Names shared by runs.* A probe table, a path with materialized rows, a Glue
  job, a notebook, a task graph: what one call deploys or clears another one runs.
* *Lost answers.* A request is retried or given up although it was served.
* *NULLs.* `MAX` over no rows, a NULL sequence, merge key, partition or payload.

The hazards, each at its line and with the properties that guard against it, are
the `hazards` list of `PROJECT.json`.

## 2. Modules

```
ControlTables        the SQL statements as functions of the row they touch
 ├─ IngestLock ──────── implements ──▶ TargetLease   (abstract lease)
 ├─ IngestRun  ──────── implements ──▶ IngestLock    (hence TargetLease)
 ├─ AvailableNow ────── implements ──▶ AtLeastOnce   (abstract delivery)
 └─ PlatformTables      source, target, rules, state log, bookmark of the runners
     ├─ SnowflakeRun ──── implements ──▶ TargetLease
     ├─ FabricNotebook ── implements ──▶ TargetLease
     ├─ GlueJob ───────── implements ──▶ AtLeastOnce
     ├─ GlueStream ────── implements ──▶ AtLeastOnce
     ├─ WindowedRun
     └─ Platforms         puts the five together, for one set of contracts
HistoricalWrite      the SCD2 write, on its own
WriteTarget          target rows, source, key checks, statements of the write modes
 ├─ DatabricksWrite  FabricWrite  AwsWrite  SnowflakeWrite
 ├─ SchemaWrites        the columns: policies, ALTER, evidence, by name / by position
 └─ TargetWrites        the four writers (rows) and the columns, side by side
ProjectRuns          what services hold, executions, jobs, calls
 ├─ WorkflowsProject  FabricProject  GlueProject  TaskGraph
 └─ Orchestration       the drivers together, and what holds of every call
RestReader           the REST reader against a server that changes

*_proofs             theorems: IngestLock, IngestRun, AvailableNow, HistoricalWrite,
                     RestReader, Platforms, TargetWrites, Orchestration
MC*                  the instances that TLC checks
```

* **TargetLease** says what a lock without fencing promises: a run is told it owns
  the target only while it is the recorded holder, and the target changes hands
  only when free or when the holder's lease has lapsed. Three protocols implement
  it: StateWriter's, Snowflake's (whose read-back takes a missing row for a grant)
  and the notebook's.
* **AtLeastOnce** says what a checkpoint promises: it passes a row only after the
  row was delivered, and takes back neither its position nor a delivered row. The
  Databricks stream, the Glue bookmark and the Glue stream keep it; the Fabric
  stream does not, and `CheckpointLosesOnlyLostRuns` says what it promises instead.
* **IngestRun** does not restate the lock. It instantiates `IngestLock` and each
  of its actions takes a lock action (`Lock!Merge`, `Lock!ReadBack`,
  `Lock!Release`, ...) or leaves the lock variables alone. That this adds up to
  a behaviour of the lock is the property `LockSpec`, checked and proved.
* **AvailableNow** abstracts a child run to the steps the position of the stream
  depends on (look-up, write, log, return or fail); the child's own state row and
  lock are the subject of IngestRun.
* **Platforms** and **Orchestration** choose the runner, and **TargetWrites** the
  writer, by the contract that the initial state picks, so that one property is
  stated once for all of them. **TargetWrites** is two specifications over separate
  variables: a behaviour is about the rows or about the columns, never both, since
  no statement of the code decides one by the other.

## 3. Correspondence with the code

### Conventions

* **One statement, one step.** A MERGE, UPDATE, INSERT or SELECT against a table, or
  a request to a service, is atomic; between two of them anything may happen. Local
  computation is folded into the statement that follows it.
* **Failure.** `Raise`, `Fail`, `...Fails` and `Crash` are enabled at every position
  where the code has a statement, a hook or a gate that may raise, or where the
  process may die. An action named `...Fails` is a statement that raises *before*
  it takes effect. A statement that took effect and was then reported as failed
  is `statement; Raise`.
* **History variables** exist to state properties; no guard of an action that
  models code reads them. They are `committed`, `succeeded`, `earlier`, `cleared`,
  `applied`, `clean` and `lease` of the Databricks modules; `lease`, `top` (on
  Snowflake and Fabric) and `late` of PlatformTables; `guarded`, `clean` and
  `settled` of WriteTarget, and
  the source row in a row's `born`; `altered`, `blind`, `displaced` and `orderly` of
  SchemaWrites; `mixed` and `lost` of ProjectRuns (a lost answer is counted against
  the bound of an instance); `steady`, `repeated`, `movedUp`, `movedDown`,
  `updated`, `wentOn`, `cut` and `holes` of RestReader.
* **Data.** Rows of a source are the numbers 1, 2, 3, ... in the order of their
  watermark column where the watermark is the subject; a pair of a key and a value
  where the statement of a write mode is; columns are numbers in alphabetical order.
  Run ids, keys and hashes are model values.
* **External.** What is not in the repository is modelled from how the code relies
  on it: Spark's checkpoint, Glue's bookmark and job runs, Google Workflows, Step
  Functions, Snowflake's tasks, Fabric's notebooks and operations, what a MERGE or an
  ALTER refuses, the HTTP server. `map` marks these definitions.

### ControlTables

Lock row, state row and run-log row as records; `AcquireLock`, `LockConfirmed`,
`ReleaseLock`, `FindIdempotentRun`, `UpsertState` are the statements of
`dbx/state/sql.py` and `dbx/state/queries.py`. `UpsertState` overwrites the
watermark with whatever it is given, NULL included: that is what the MERGE does.

### IngestLock

| Variable / action | Code |
|---|---|
| `lock`, `now` | the target's row; `current_timestamp()` in ticks |
| `pc`, `lease` | where the run is in the protocol; the expiry its own MERGE obtained |
| `Merge`, `ReadBack`, `ReadBackFails` | `StateWriter.acquire_lock`: MERGE, then a *separate* SELECT |
| `GivesUp` | the try block is left before the MERGE took effect; the finally block still releases |
| `Release`, `ReleaseFails` | `StateWriter.release_lock`, whose failure is logged and swallowed |
| `Crash`, `Tick` | the driver dies; time passes |

### IngestRun

A run walks through `pc`:

```
idle ─Prepare─▶ prepared ─CheckKey─▶ checked ─Acquire─▶ acquiring ─Confirm─▶ locked
locked ─Write─▶ written ─Candidate─▶ measured ─LogSuccess─▶ logged ─RecordSuccess─▶ finalized
prepared ─CheckKey (found)─▶ skipping ─LogSkip─▶ skipLogged ─RecordSkip─▶ finalized
any of these ─Raise─▶ failing ─LogFailure─▶ failLogged ─RecordFailure─▶ closing
finalized, closing ─Release (the finally block)─▶ done
```

* `Prepare` is `prepare_contract_source_view`: the state row's watermark becomes
  the lower bound of the view. A payload without `value` (`MAX` over no rows,
  through `to_json`) does not decode and the preparation raises (`PrepareFails`).
* `CheckKey` is the idempotency look-up with its four policies.
* `Acquire`/`Confirm` are the two statements of the lock; a busy lock is a
  failure, not a wait.
* `Write` evaluates the lazy view and appends it in one commit. `Candidate` is the
  `MAX` over the view: that of the rows written for a run in `Cached`, and over the
  view *evaluated once more* for the others, which sees the rows that arrived since
  the write. Caching is opt-in (`cache_source`), is off where the session cannot cache
  and may fail, so that it is a set of runs. `raced` keeps those rows as history.
* `RecordSkip` and `RecordFailure` store NULL as watermark, because
  `finalize_ingest` and the failure path pass none.
* `Raise` is enabled in `finalized` as well: an `after_finalize` hook raises after
  the success is recorded, and the run takes the failure path.
* A dry run (`EndDryRun`) takes no lock and writes nothing on any path.

The target is written in append mode, the mode in which a row written twice stays
visible as a duplicate.

### AvailableNow

* `offsets` and `commits` are Spark's offset log and commit log. The code relies on
  them thus: a batch is planned before it runs, committed after its callback
  returned, and a batch without a commit is run again with the same rows
  (`ReplayBatch`). One checkpoint serves one execution at a time.
* `BatchKey` composes two functions of the code: `ingest_batch` gives the child
  contract a key of its own, and `effective_ingest_options` prefers the key of the
  options, which are the parent's.
* `FailBatch` is `process_batch` raising for a FAILED child result. SKIPPED and
  DRY_RUN results return, and Spark commits the batch.
* `Finish` is `finish_stream_log` with the local `status`.

### HistoricalWrite

* A target row is `[key, hash, seq, born, from, to]`. `from` and `to` are `valid_from`
  and `valid_to`, `to = 0` is `is_current`, and `born` is the commit that inserted the
  row. The clock counts commits of the target. `to` is the time of the MERGE; `from` is
  the effective-from column of the source (`since`, 0 for NULL) if the contract names
  one, or any time from the preparation of the view (`staged`) to the MERGE: its
  `current_timestamp()` is evaluated with the view, which may be cached.
* `seq = 0` is a NULL sequence. `Late` follows the three-valued comparison of
  `late_arriving_condition`.
* `Stage` is the staging view: each changed row once under a NULL merge key (the
  insert side) and, if its key has a current version, once under its own (the
  update side). `Updates` and `Inserted` are the two clauses of the MERGE, with
  `<=>` as equality, under which NULL equals NULL.
* `DeleteMerge` and `Merge` are two commits. `Raise` is a statement or conflict
  that raises; `with_delta_retry` starts the whole write again from the deletes
  while attempts are left.
* A MERGE in which two source rows update one target row raises
  (`DeleteAmbiguous`, `MergeAmbiguous`): that is Delta's rule, not the adapter's.

### PlatformTables and the five runners over it

The tables and the locals are shared; every runner gives them its own order:

| | Snowflake `SnowflakeRun` | Fabric `FabricNotebook` | AWS `GlueJob` | AWS `GlueStream` | Databricks `WindowedRun` |
|---|---|---|---|---|---|
| code | `snow/runtime/runner.py`, `execution.py`, `quality.py`, `state/` | the script of `fabric/rendering/notebook.py` | the script of `aws/rendering/glue_job.py` | the script of `aws/rendering/streaming_job.py` | `dbx/runtime/windows.py` around `ingest` |
| lock | MERGE, read-back; a row that is *missing* confirms; released only if acquiring returned | MERGE, read-back | none; Glue runs one execution at a time | none, likewise | (that of the child, left out) |
| lower bound | watermark of the latest SUCCESS row, read under the lock | none | the bookmark | the checkpoint | watermark of the last state row, per window |
| order | look-up, lock, state filter, count, rules, write, MAX, state row, **release, run row** | lock, (clear, query, load) or count, rules, append, MAX, state row, run row, release | read, abort rules, quarantine, expressions, append, `job.commit`, state row, run row | per batch: abort rules, quarantine, expressions, append, commit; then `job.commit`, state row, run row | per window: prepare, look-up, write, MAX, run row, state row |
| failing | error rows, state row, run row; then release | error rows, run row; then release | run row | run row | run row, state row; the loop stops if `stop_on_failure` |

* *Snowflake.* The source is a query: count, each rule, the write and the MAX read
  it anew. `Filtered` is the list of predicates that quarantine rules leave in it.
  The SUCCESS row of the run log comes after the finally block, outside of any try:
  `LogSuccessFails` leaves a success that only the state log shows. `Reset` is a
  success that stores a NULL or a lower watermark, as an idle run does. `StatusRead` is
  what the read-back takes for the status of the lock row: the column, or, where rows
  are tuples, the one at its place.
* *Fabric.* `Stream` is the query that materializes the available-now stream; its
  return commits the checkpoint, before anything is written. The path is one for
  all runs of the target: `Clear` removes it (and passes over a failure to), `Load`
  binds the dataframe to the path, or to an empty dataframe if there is none.
  Rows that another run clears away between are put in `late`.
* *AWS.* `GlueJob.Read` fixes the file list. A run that finds nothing goes on to
  `job.commit` and logs SKIPPED. The rules of Glue Data Quality come first, abort
  (`CheckAbort`) before quarantine, and then the SQL expressions in the order of the
  contract (`Evaluate`), each over the rows that are left: `Rule.expression` says which
  are which. In the stream this is done for each micro-batch.
* *Windows.* A `WindowPlan` says which rows each window holds. The windows share one
  state row; the key is per window if it is the contract's and one for all if it is
  the options'.

`Platforms` chooses a runner and a contract in the initial state. Its `Spec` is, for
a fixed platform, that runner's.

### WriteTarget, the four writers, TargetWrites

* A row is a key, a value and `born`, which tells copies apart. `Check` is a SELECT
  of a guard that passes or fails the run; `Merged` is a MERGE with its ON and WHEN
  conditions as operators; `Ambiguous` is when the engine refuses it; `Commit` is the
  commit of whichever statement.
* **DatabricksWrite** composes `dbx/execution/`: the preflight (skipped when the
  rows were not counted, or when a quality rule has covered it), first write or
  statement by mode, the INSERT ... SELECT of hash-diff as a scan and a commit,
  partition pruning, and `with_delta_retry`.
* **FabricWrite** and **AwsWrite** are the write section of the generated scripts:
  key guard, first write, hash-diff that rebinds `df` to its comparison, partition
  predicates; Fabric creates a missing table without asking again. **SnowflakeWrite**
  is the statement of each mode after `CREATE TABLE IF NOT EXISTS`.
* `measured` is what `df` holds when rows_written and the watermark are taken.

### SchemaWrites

A run walks through `Course`, the order in which its platform looks at source and
target, compares, alters, logs and writes. `Rejects` is `validate_schema_diff`, and
the two policies that differ from it: under `strict` Snowflake looks at names only, and
lets types of one family, or VARIANT on either side, pass (`Alike`); it also ignores no
column, where the others leave `IGNORED_TARGET_ONLY_COLUMNS` (`Ignored`) out of what was
removed. Fabric issues no DDL; at the end it records what the comparison found as one
row with `applied=True` (`Record`). `Plan` is the ALTER statements of the adapter;
`Execute` what the engine makes of one;
`Reads` the columns that the write finds (a dataframe keeps those it was made with, a
query is evaluated again). A write is by position (`INSERT INTO ... SELECT *`), by
name, or replaces the table. `NextBatch` is a later window or micro-batch, which goes
on with the `target_schema` its execution started with. BigQuery's look goes through
a probe table whose name is the same for all runs. A list of columns has no name twice
(`Shape`); `Ranked` is `sorted` over the columns with a name in a set.

### ProjectRuns, the four drivers, Orchestration

* `item` is what the service holds of a step (whose artifact, whose definition),
  `machine` the workflow or state machine, `execs` and `jobs` what the service runs,
  `calls` where each command is. `JobEnds` is the service ending a job as it likes.
* **WorkflowsProject.** `Insert`, `Look`, `Succeeds`, `Errs` are the generated
  workflow: `jobs.insert` without a job id (an answer that is lost, and a retry that
  inserts a second job), `poll_check`, the branch into evidence of a failure. `Flow`
  is the order in which the command obeys its flags; `WaitFor`, `ReadBack`,
  `CleanUp` its steps. A cleanup of data is three queries, and `Deletes` says what
  each of them removes: the tables of the targets, the evidence of the runs, that of
  quality; another call's execution may write between any two.
* **FabricProject.** `Look`, `Create`/`Update`, `PollOperation`, `Submit`, `Wait`
  per step: a definition answered with 202 is an operation in `updates`, whose
  outcome the poll does not read. `Outcome` and `ProjectStatus` are the verdicts;
  `Matches` compares with what the project expects of the step: that it succeeds,
  fails, is blocked or is running.
* **GlueProject.** `Publish`, `Lookup`, `Register`, `StartJob`, `Wait` per step, or
  over all steps before a state machine is registered, executed and watched; `Wave`
  is what `dependency_waves` computes: the one assignment in which a step comes right
  after the last of its dependencies.
* **TaskGraph.** `Publish`, `Suspend`, `Create`, `Resume`, `Execute`, `Watch`;
  `CanRun` is Snowflake's rule for a task of a graph. `Watch` reads the latest
  history row *of a task*, from whichever execution.

### RestReader

`Answered`, `Retry`, `Fails` are one request of `read_rest_api_records`, with the
counters of its two loops and the limit of records; `NextRequests` are `page_urls`,
`next_url` and the cursor; `LastPage` is `max_pages` ending the loop without a word.
`Write` is the rest of the run that reads: it filters by the stored watermark (which
is not sent to the server) and stores the greatest value it kept. Changes are numbered
by `stamp`; `Mark` is the value of the watermark column, which follows the order of
changes and which several may share. The server lists in the order of changes, oldest or
newest first, and inserts, changes and removes records between two requests.

## 4. Runs

Eleven runs hold; one more (section 7) refutes a sentence of the documentation.

| Run | Instance | Distinct states | Shows |
|---|---|---|---|
| `lock` | 3 runs, lease 2, clock 6, fairness | 78 thousand | `Exclusion`, `DeadOwnerYields`, `LeaseSpec` |
| `run_watermark` | 3 runs, two with a cached view, one with a lazy one, 2 rows, no lock, no key | 10.1 million | `WatermarkCoversDelivery`, `DuplicatesNeedOverlapOrReset` |
| `run_locked` | 2 runs with lazy views, 2 rows, lease 1, clock 3 | 1.2 million | `SuccessesMoveForward`, `LockSpec` |
| `run_replays` | 2 runs and a dry run of one key, `skip_if_success`, lock, 1 row, fairness | 434 thousand | `ReplayDeliversNothing`, `EveryRunEnds` |
| `stream_delivery` | 3 executions, 3 rows, batches of ≤ 2, no key | 615 thousand | `EveryCopyCostsAFailure`, `SuccessMeansCaughtUp`, `DeliverySpec` |
| `stream_liveness` | 2 executions, one a dry run, a key, `skip_if_success`, fairness | 3.5 thousand | `EveryStreamEnds` |
| `historical` | 3 runs, one of which may try again, 2 keys, 2 hashes, 3 sequences, 5 batches, 3 policies, with and without an effective-from column | 8.7 million | `OneVersionAtATime`, `AppliedBatchIsCurrent`, `VersionsEndByNewerRows`, `ReplayAddsNothing` |
| `platforms` | 2 runs, 2 rows, lease 1, clock 2, 10 contracts, 5 window plans | 6.4 million | `WatermarkCoversDelivery`, `GateHolds`, `SuccessAccountsForItsRows`, `CheckpointLosesOnlyLostRuns`, `CopiesNeedOverlapOrReset`, `WindowsPassOverOpenly`, `LeaseSpec`, `BookmarkDelivers` |
| `target_writes` | rows: 2 runs, 3 executions, 3 merge keys (one NULL), 6 sources, 2 changes of the source, the modes each engine has; columns: 8 layouts, 3 tables, 1 ignored column, 5 engines × modes × policies, 1 redefinition, 3 executions | 8.7 million | `RowsAreKeptOnce`, `CommitMeansMode`, `ReplayWritesNothing`, `SchemaFollowsPolicy`, `ValuesKeepTheirColumn`, `EvidenceIsOwn` |
| `orchestration` | 1–2 calls, 1–2 steps, 23 projects, 2 executions, at most 1 lost answer | 3.9 million | `SuccessIsOurs`, `NothingRunsAfterAVerdict`, `RunsWhatItDeployed`, `EvidenceTellsTheOutcome`, `StepsRunOnceInOrder` |
| `rest_reader` | 2 reads, 4 records, 5 stamps, pages of 2, every pagination in both orders, with and without equal values of the watermark column | 4.1 million | `ReadIsComplete`, `RepeatsNeedAMove`, `WatermarkCoversDelivery`, `NothingIsWrittenTwice` |

In all of these runs anything may raise. Types (`TypeOK`) are in no run: TLC confirmed
them on these instances, and section 6 says where they are proved for every instance.

### The properties in words

Of the Databricks run and its parts:

* **Exclusion.** Two runs inside the locked region: at least one outlived its lease.
  The exception is needed and real: nothing renews a lease or fences a late writer.
* **DeadOwnerYields.** The row that a crash or a failed release leaves is free in
  time.
* **WatermarkCoversDelivery.** No data loss: whatever overlaps, raises or dies,
  the watermark offered to the next run covers only rows that some run wrote, or
  that arrived between the write and the `MAX` of a run whose view is lazy (the
  default). Those rows are lost, and they are the only ones.
  It does not say the watermark never falls: it may, and then rows are written
  again.
* **DuplicatesNeedOverlapOrReset.** The converse: a row is written twice only by
  two runs neither of which could see the other's success when it prepared, or
  after the watermark was lowered or cleared. Both causes occur in the code.
* **SuccessesMoveForward.** A run reads its previous watermark *before* it asks
  for the lock. This costs duplicates, but never lets a success within its lease
  store a smaller watermark over another success.
* **ReplayDeliversNothing.** A replay of a key whose success was recorded before
  the replay prepared never writes, even if the first run was later logged as
  FAILED by a hook. Replays that *start together* may both write: the look-up is
  not repeated under the lock.
* **EveryCopyCostsAFailure.** At-least-once has a price list: a row has at most
  one copy more than there were executions that failed or died.
* **SuccessMeansCaughtUp.** A stream reported as SUCCESS has taken the checkpoint
  past everything available at its start.
* **OneVersionAtATime, VersionsEndByNewerRows.** At most one current version per key,
  and each inserted only when its predecessor is ended, although another run may commit
  between the two MERGEs; this is a statement about the table's history. The windows
  that the rows *state* may overlap, because `valid_from` is older than the MERGE that
  writes it; what holds of them is that none is inverted, if the source does not give
  their starts; under `ignore` and `reject` a late row ends no version, through deletes,
  upserts, retries or interleaving.
* **AppliedBatchIsCurrent, ReplayAddsNothing.** Every row of an undisturbed write
  is in effect, and writing the batch again (replay, or a retry after the commit)
  changes nothing.

Of the other platforms' runs, each stated once for the runners it applies to:

* **WatermarkCoversDelivery** (of PlatformTables) has two exceptions, both real: a row
  that arrived between two evaluations of the source, and a row that a run without a
  success took off a stream.
* **GateHolds.** What fails an abort or quarantine rule stays out of the target,
  unless it came after the run had started to count; no row is in both places. This
  is where rule order, the filters that rules leave behind, retries and a lazy source
  meet.
* **SuccessAccountsForItsRows.** A SUCCESS row comes after a SUCCESS state row of
  its run, and all rows the run found have gone somewhere.
* **CheckpointLosesOnlyLostRuns.** Where Fabric's checkpoint passed a row that is
  nowhere, the run that took it did not succeed, or another run cleared the path; with
  a lock, that takes a lapsed lease.
* **CopiesNeedOverlapOrReset**, **LeaseSpec**, **BookmarkDelivers** are the earlier
  statements on duplicates, leases and at-least-once, for Snowflake, for Snowflake and
  Fabric, and for both Glue jobs.
* **WindowsPassOverOpenly.** Five ways in which the watermark may pass over a row of
  a window, and no sixth.

Of the writes:

* **RowsAreKeptOnce.** Which of the guards keep a key from having two rows, and what
  they cannot see: the source that changes after the guard, the key that moves to
  another partition, rows that were not counted. No row is removed but by the modes
  that say so.
* **CommitMeansMode.** First write, MERGE, comparison, count of zero: each path of a
  mode leaves the same target; and what is measured afterwards is what was written
  (or, after Fabric's and AWS's comparison, nothing).
* **ReplayWritesNothing.** A second write of the same source by a mode with a key
  leaves the same visible rows; hash-diff of Databricks adds no second equal version.
  The exceptions are a NULL key (hash-diff), a row outside of the partition predicate,
  and a key that a snapshot's uncounted source has twice.
* **SchemaFollowsPolicy, ValuesKeepTheirColumn, EvidenceIsOwn.** ALTER adds at the end
  or widens as agreed and never under strict; a write under strict brings no column
  that the target does not have (and, but on Snowflake, no other type), and without
  permissive it lacks none of the target's but the ignored ones; values change their
  column only by a positional write after a reordering; evidence of a change is one's
  own. Fabric is the named exception to the last: what its evidence calls applied is
  what the policy let pass, and a run that found its target altered nothing.

Of the orchestration, over calls that interfere:

* **SuccessIsOurs.** Of a call that waited, or of any call on Fabric, that returned
  SUCCEEDED, every selected step came in its own execution to what the project expects:
  its job succeeded, unless the project expects it failed, blocked (then no job of it
  has succeeded, and there may be none) or running (then there is a job, and the call
  did not wait). What each adapter cannot tell is named: Snowflake's history by task,
  gcloud's end without an outcome.
* **StepsRunOnceInOrder.** A step starts after those it depends on came to what is
  expected of them, in the same sense: behind a dependency that is expected to be blocked
  or running, nothing has been finished.
* **NothingRunsAfterAVerdict**, **RunsWhatItDeployed**, **EvidenceTellsTheOutcome**: as
  they say, with the exceptions that the code has.

Of the REST reader:

* **ReadIsComplete.** A read that was not cut has every record that was listed all the
  while, unless records moved up under a paging by position.
* **RepeatsNeedAMove.** Retries and self-linking last pages repeat nothing; two
  versions of a record mean that it changed during the read.
* **WatermarkCoversDelivery** holds but for the three causes of `HasHoles` and a fourth,
  `Tied`: a record that arrives with the value of the watermark column of one that was
  written is not beyond it. The code notices none of them.
  **NothingIsWrittenTwice**: what is read again is filtered.

### Bounds, and why they are enough

* *Runs.* Interference here is between two executions, with a third that reads
  what the two left behind (a watermark after overlapping successes, a lock after
  a takeover). `run_locked` and `platforms` have two runs, because they add a clock;
  the takeover by a third run is in `lock`, and `LockSpec` carries it over. In
  `target_writes` two runs make three executions.
* *Rows.* Two rows distinguish "all", "some" and "none" of a view and allow a
  watermark to fall. The stream has three, so that batches of one and of two rows
  and a second batch occur. The REST reader has four records for pages of two: a full
  page, a short one, and a record that crosses from one to the other.
* *Clock.* `MaxTime` exceeds the lease by more than its length in `lock` (6 and 2)
  and `run_locked` (3 and 1), so that a lease lapses, is taken over, and the second
  lease lapses too; in `platforms` (2 and 1) one lapses and is taken over. With
  `MaxTime = 0` in the other runs time is not in question.
* *Contracts of `platforms`.* No rule; quarantine before abort; a warning, an abort and a
  quarantine; the same as SQL expressions, mixed with rules that are none, so that a row
  which an abort rule refuses is in quarantine by then, or is not; a lock; `skip_if_success` and `fail_if_success`; a stream with rules
  and one with a lock; window plans in and out of order, each key, with and without
  `stop_on_failure`.
* *Batches of HistoricalWrite.* An insert, a change, a row without sequence, a
  delete, a delete next to an insert of another key, changes of two keys at once,
  and a batch with one key twice. One run has two attempts (`MaxAttempts` is a function
  of the run); a third is the second again.
* *Sources of `target_writes`.* Empty, one key (in either partition, so that a row can
  move), two keys, one key twice, a NULL key, a NULL partition. Layouts: one more
  column at the end, in and out of alphabetical order, swapped, one fewer, wider, of
  another type.
* *Projects of `orchestration`.* For each driver the usual two steps in order, no
  waiting, a step expected failed, blocked or running, dependencies against the order,
  a start in the middle, a schedule; one step where two calls, checks or cleanups multiply. One
  project has two calls that reset the data, a quality rule and a single execution, so
  that a reset falls between the two queries of the other call's read-back.
* *Symmetry* is used for interchangeable runs and keys only, and in no run with a
  liveness property.
* `historical`, `platforms`, `target_writes`, `orchestration` and `rest_reader` have
  `CHECK_DEADLOCK FALSE`: their executions end and nothing follows. The other
  specifications have an explicit `Finished` step and are checked for deadlock.

The theorems of section 6 remove these bounds for the properties they cover.

### Mutations

Every property of these runs is paired in `PROJECT.json` with a mutated operator
that stands, commented as `Mutant:`, before the operator it changes: a dropped
`AND run_id =`, a `>=` for `>`, a busy lock that waits, a `MAX` over the table
instead of the view, a callback that ignores the status of its result, a link that is
followed to the page it is on. TLC finds the property violated when the mutant takes
the operator's place. No mutant is part of a specification.

## 5. Fairness

Liveness is claimed for the Databricks lock, run and stream; the other specifications
are about safety and state no fairness.

* *Run and stream.* `WF(Step(r))` for each execution: a live driver issues its next
  statement, and Spark goes on with a live query. `Step` holds only the
  deterministic progress of the code; raising, dying, query failures and new rows
  carry no fairness. `Step(r)` stays enabled until it is taken or the driver
  dies, since no statement waits for another run: a busy lock refuses.
* *First step of a stream.* `Start` is not in `Step`: nobody promises that an
  execution begins. `EveryStreamEnds` begins where it has started, and
  `EveryRunEnds` where the run was prepared.
* *Lock.* `WF(ReadBack(r))` and `WF(Release(r))`: the next statements of a live
  driver. `WF(Tick)`: `current_timestamp()` advances.

## 6. Proofs

The theorems hold for any set of runs, any bounds and the named assumptions on the
constants (`TTL` is positive, `None` is no run, the policies are the four that
exist, bounds are naturals, contracts and sources are of their type, sources are
finite, ...). Where a theorem needs more, it says so under ASSUME, and the third
column repeats it.

| Module | Theorem | States |
|---|---|---|
| IngestLock_proofs | `LockTypes`, `LockExclusion`, `LockIsReleased`, `LeaseIsRespected` | `TypeOK`, `Exclusion`, `DoneLeavesNoLock`, `OnlyTheOwnerEndsALease` |
| | `LockImplementsLease` | `Spec => LeaseSpec` |
| IngestRun_proofs | `RunTypes` | `TypeOK` |
| | `NoRowIsSkipped`, `CachedViewsLoseNothing` | `WatermarkCoversDelivery`, whichever views are cached; without the exception, if all are |
| | `DuplicatesAreExplained` | `DuplicatesNeedOverlapOrReset` |
| | `RunImplementsLock` | `Spec => LockSpec` |
| | `RunsWriteExclusively`, `EndedRunsReleased` | `WritesAreExclusive`, `EndedRunsHoldNoLock` |
| | `StateRowFollowsLog`, `ReplayNeverWrites`, `SkipsAreJustified` | `StateFollowsLog`, `ReplayDeliversNothing`, `SkippedMeansDelivered` |
| | `DryRunsLeaveNothing` | `DryRunLeavesNoTrace` |
| | `WatermarksMoveForward` | `SuccessesMoveForward` |
| AvailableNow_proofs | `StreamTypes`, `SuccessIsCaughtUp`, `CommittedBatchesAreLogged` | `TypeOK`, `SuccessMeansCaughtUp`, `CommitsHaveEvidence` |
| | `StreamDeliversAtLeastOnce` | `Spec => DeliverySpec`; assumes that no key is in force and nobody runs dry |
| | `CopiesCostFailures` | `EveryCopyCostsAFailure`; assumes finitely many executions |
| HistoricalWrite_proofs | `HistoricalTypes` | `TypeOK` |
| | `VersionsFollowEachOther` | `OneVersionAtATime`; assumes `Preflight` |
| | `OnlyNewerRowsEndVersions` | `VersionsEndByNewerRows`; assumes `Preflight` and no NULL keys |
| | `UndisturbedWritesTakeEffect`, `ReplaysAddNothing` | `AppliedBatchIsCurrent`, `ReplayAddsNothing`; assume the same |
| RestReader_proofs | `ReaderTypes` | the types, and that versions and positions keep their order |
| | `ReadsAreComplete`, `RepeatsAreMoves`, `WritesAreNew` | `ReadIsComplete`, `RepeatsNeedAMove`, `NothingIsWrittenTwice` |
| | `WatermarkIsCovered` | `WatermarkCoversDelivery` |
| Platforms_proofs | `SnowflakeTypes` | `TypeOK` for Snowflake's runner |
| | `GatesHold`, `SuccessesAccount`, `WatermarksCover` | `GateHolds`, `SuccessAccountsForItsRows`, `WatermarkCoversDelivery`, each for every runner |
| | `CopiesAreExplained` | `CopiesNeedOverlapOrReset` |
| | `LostRowsHaveLostRuns`, `WindowsAreOpen` | `CheckpointLosesOnlyLostRuns`, `WindowsPassOverOpenly` |
| | `LocksAreLeases`, `BookmarksDeliver` | `Spec => LeaseSpec`, `Spec => BookmarkDelivers` |
| TargetWrites_proofs | `EvidenceOfColumns`, `ColumnsKeepTheirValues` | `EvidenceIsOwn`, `ValuesKeepTheirColumn` |
| | `ColumnsFollowPolicy` | `SchemaFollowsPolicy` |
| | `KeysStayUnique`, `CommitsMeanTheirMode` | `RowsAreKeptOnce`, `CommitMeansMode` |
| | `RepeatedWritesAddNothing` | `ReplayWritesNothing` |
| Orchestration_proofs | `EvidenceIsTrue` | `EvidenceTellsTheOutcome` |
| | `SuccessesAreOurs`, `VerdictsAreFinal` | `SuccessIsOurs`, `NothingRunsAfterAVerdict` |
| | `CallsRunWhatTheyDeploy`, `StepsAreInOrder` | `RunsWhatItDeployed`, `StepsRunOnceInOrder` |

`TypeOK`, `DoneLeavesNoLock`, `OnlyTheOwnerEndsALease`, `WritesAreExclusive`,
`EndedRunsHoldNoLock`, `StateFollowsLog`, `SkippedMeansDelivered`,
`DryRunLeavesNoTrace` and `CommitsHaveEvidence` are proved and in no run: TLC
confirmed them on the instances of section 4 before they were proved.

### The inductive invariants

* **LockInv.** `Exclusion` speaks of leases; the code only looks at one row. The
  strengthening ties the two: the row holds the lease of the MERGE that wrote it
  (`RowIsTheLastGrant`), and a lease that still runs *is* in the row until its
  owner released it (`CurrentLeaseIsInTheRow`). Two current leases then name the
  same row, hence the same run.
* **DeliveryInv.** The watermark is a number that travels: read at preparation,
  used by the write, computed as a candidate, stored later, by runs that overlap.
  The invariant says at each of these places that everything below is delivered or
  raced (`PrevIsDelivered`, `WritesAreGapless`, `CandIsDelivered`), and that a run that
  has not reached its write has written nothing. `LazyViewIsCovered` carries the race:
  between its write and its `MAX` a lazy view shows the rows its run wrote and rows
  that raced, nothing else.
* **DuplicatesInv** is its mirror image: as long as the watermark was not lowered,
  it lies beyond every row of a run that succeeded, and so does the previous
  watermark of a run that prepared after that success; writes are beyond the
  previous watermark. The two theorems use the watermark from its two sides.
* **LockedInv.** The run's `pc` determines its place in the lock protocol
  (`LockFollowsRun`), so that every step of the run is one step of `IngestLock` or
  leaves its variables alone; the invariant of the lock then comes for free.
* **EvidenceInv.** A position tells what was committed and logged
  (`PositionTells`), SUCCESS rows are true and are never removed, and a replay
  stays short of the write (`ReplayStopsEarly`).
* **ForwardInv.** A success that overwrites the state row of another must have a
  watermark at least as late. With a lock that is so because of where its rows come
  from: `WritesGoFurther` says that what a run with the lock has written, and the
  candidate it measured, is at or beyond the stored watermark for as long as its lease
  runs; `MarksArrived` and `SuccessTells` tie the stored row to the log of the run that
  stored it. It rests on LockedInv, EvidenceInv and DuplicatesInv.
* **StreamInv, ShapeInv.** One execution at a time, one batch without a commit at a
  time, offsets grow, and past its write a batch is in the target
  (`WrittenIsDelivered`), which is what makes the commit safe. `CopiesInv` counts: a
  row that has more copies than the rest has them from executions in `Broken`, and at
  most one execution is about to add to the count.
* **History.** `OneVersionAtATime` with `WindowsAreBounded` (no window reaches
  past the last commit) and `PassedBatchesAreKeyed` (a batch past the preflight has
  one row per key). The key lemma, `InsertionExpires`, is about one evaluation of
  the staging view: a version is inserted only if the same MERGE ends the current
  version of its key. It never refers to the first MERGE, which is why the
  interleaving of two runs does no harm. `Sound` adds that keys are not NULL, and
  `Effective` that a run between its two MERGEs has done its deletes if nothing else
  committed (`DeletesAreDone`); from these it follows that an undisturbed batch is
  current afterwards, and that its replay finds every row reflected (`Reflects`) and
  has nothing to end or to insert.
* **The REST reader.** A record has a place in the listing (`Position`, the number of
  records ahead of it and one). `PositionIsAhead` and `CursorIsAhead` say of every
  listed version that is not read yet that its place, or its stamp, is still ahead of
  the next request, unless it moved; `PositionLeavesNoGap` and `CursorLeavesNoGap` say
  the converse, that what is behind has been read. Paging by position and by cursor
  need separate invariants because they lose records for different reasons.
  `MarkIsBehind` ties the stored watermark to what was written.
* **Platforms** (`All`). Of the five runners one is at work, so that the invariant is
  a conjunction with a part per runner, and a step is one of its runner's.
  `Inv` is about positions. Only the rows that a job has on its hands are at risk, and
  it names them: `Job` (the files of a Glue job between bookmark and top are written or
  in quarantine once it is past its write), `Piece` (the planned batch of a Glue
  stream), and `Carry` (what a Fabric notebook took off the stream is at its path, or
  late, or accounted for, until the run ends in one of the ways that the property
  names). `Hold` is LockInv for the notebook, of which `Carry` needs the case with a
  lock: nobody clears a path under a lease that runs.
  `SnowflakeInv`: `Gates` follows the predicates that quarantine rules leave in the
  source (what a rule dropped at one position of the list is in no later evaluation but
  for late rows), `Succeeding` ties the state log to the rows found at the start,
  `Covered` and `Bounded` are DeliveryInv and DuplicatesInv for a log in which the
  latest SUCCESS row counts, `Locks` is LockInv for a read-back to which a missing row
  is a grant. `NoteInv` and `JobNotes` are the same gate and the same log for Fabric
  (`Sieve`, `Report`, `Reach`) and AWS (`JobSieve`, `JobReport`, `Within`), where the
  rules are applied to a dataframe instead of a query. `LoopInv` goes along the windows
  of a Databricks loop: what is stored passes over a row for one of the reasons that
  `Excused` lists.
* **The columns of TargetWrites** (`ColInv`). A run decides at its look and acts later,
  by statements that others' statements come between. The invariant says of each run
  what its plan may still do (`Proposed`: every statement left adds a column that the
  comparison found missing, or widens one that it allowed), that the comparison was
  passed (`PassedPolicy`), and that each difference that the evidence will report is
  done already or in a statement that is left (`Planned`, `Logged`). `Tracked` is what
  the platforms that share a table need: whatever differs from what a run has found was
  altered by some run. `OrderInv` adds, for writes by position under a source that only
  grows at its end, that every list of columns anywhere (target, probe, what each run
  expects and has found) begins the source's, and that the statements left add exactly
  what comes next (`Continues`). It needs that the additions of a comparison are the
  tail of the columns expected, in order (`RankedEnd`), where the alphabetical order of
  the property comes in.
* **The rows of TargetWrites** (`RowsInv`). The four adapters write by different
  statements, so the proof first brings each commit to one description: `Writes` says
  which rows a mode leaves, and `Merges` does so for a MERGE, row by row (`Became` for
  a row that was there, `IsNewRow` for one that was not), where the model chooses a
  matching row. A step is then a change of the source, a step that commits nothing
  (`Quiet`), or `Committed` with `Writes`. The invariant has a part per run
  (`ExecutionInv`): which positions a contract has (`Place`); what the guards have seen,
  for as long as the source is the one they saw (`Known`); and what holds of a run that
  nothing disturbed (`Undisturbed`: the scope is the partitions of the source, a table
  about to be created is empty, a scan is of the newest versions). Of the target
  (`TargetInv`) it says that rows have births of their own, none later than the last
  commit. `SettledInv` is what replays need: a target reflects the source in `settled`
  (`Reflects`, per mode), until another commit changes a row.
* **Orchestration** (`EvidenceInv`). The place of an execution tells what has been
  done: in its step (`OpTells`), in the order (`PlaceTells`, `NothingAhead`), and the
  job it looks at is its own (`LooksAtItsOwn`). The row of a failure is true only
  because an execution that has lost no answer knows all the writes it inserted
  (`KnowsItsWrites`); `lost` is the exception of the property, and a second write is
  what it stands for. `WhatMoves` reduces the four drivers to the five actions that
  touch executions or jobs of a workflow.
* **Calls** (`Driven`), a conjunction per driver. `WorkInv` (GCP) and `ServedInv`
  (Snowflake, Step Functions) tie a call to the execution that it started and say what
  it may have seen of it; `FabricInv` and `GlueInv` follow the loop over the steps
  (`LoopInv`: the steps before the current one have jobs of this call, in order, that
  came to what is expected, and the last of them is awaited), and what the service holds of a
  step until another call has touched it (`Registered`, `Known`). That no two calls
  met is what `mixed` records, and the exception of `RunsWhatItDeployed`.
  `WavesAssumption` says that a project of a state machine has waves, without which
  `dependency_waves` raises.

### Only model-checked

The liveness properties `DeadOwnerYields`, `EveryRunEnds` and `EveryStreamEnds`, which
are out of reach of the prover. Every other property of a passing run is stated by a
theorem.

## 7. Disagreements and anomalies

### Refuted by a run

`doc_stream_with_key` checks a sentence of the documentation against the code, and
TLC finds a counterexample; `PROJECT.json` quotes the line under `findings`. The
documentation lets an available-now stream read all available events. With an
idempotency key in the options every micro-batch runs under that one key: the second
one is SKIPPED, and the checkpoint passes its rows.

### Known from the models, without a run of their own

Databricks, against the documentation:

* A SKIPPED or FAILED run stores NULL over the watermark (`dbx/runtime/finalization.py:92`),
  where `docs/specs/control-table-parity.md` lines 33 and 239 speak of the last
  committed one. The next run reads the whole source again.
* `write_committed` is computed from the final status (`dbx/runtime/run_payload.py:110`):
  a run that raises after its commit reports false, against
  `docs/specs/control-table-parity.md:213`.
* The duplicate-key preflight is skipped where the prepared rows were not counted,
  the default (`dbx/runtime/merge_validation.py:27`): two source rows of a new key
  make two current versions, or, with `delta_by_partition`, two rows; and a snapshot
  gives the row of a key that the source has twice now the one version, now the other,
  each time it is repeated.
* `valid_from` is a column of the source or the time of the prepared view, `valid_to` of
  the predecessor the time of the MERGE (`dbx/preparation/pyspark_staging.py:38`,
  `dbx/execution/scd2.py:53`): a window starts before its predecessor's ends, and one
  whose start the source gives may end before it starts. `docs/specs/semantic-contract.md`
  line 141 asks for the former and does not say what becomes of the latter.
* A current version with a NULL merge key matches every row of the insert side of SCD2
  (`dbx/execution/scd2.py:137`), and new keys are lost.
* `hash_diff` of Databricks appends a version per change, where
  `docs/specs/platform-contract-parity.md:73` describes one current row.

The theorems exclude these by their assumptions (`Preflight`, no NULL keys, no key in
force), so that assumption and anomaly name the same line of the code.

Databricks, otherwise: a run without `cache_source`, the default, takes the `MAX` of
its watermark over the view once more after the write (`dbx/runtime/success.py:48`):
rows that arrived in between lie under the watermark and are read by no run; hash-diff has no duplicate-key preflight and inserts a row with
a NULL key in every run; without an ordering column the second version of a key makes
every later hash-diff fail its validation (`dbx/execution/hash_diff_latest.py:57`); a
snapshot of an empty source deactivates every row; `MAX` over an empty view stores a
payload without a value, on which the next preparation raises.

Fabric: a stream loses rows for good where a run fails after its query; without a lock
another run clears the shared path, and the first succeeds with an empty dataframe; a
failure to clear delivers old rows again; two first writes of an overwrite race. After
the comparison of a hash-diff `df` is the difference, so that an idle run reports no
rows and a NULL watermark (AWS likewise).

AWS: a row that an abort rule refuses stops its stream until the rule or the row
changes, unless the rule is a SQL expression and a quarantine rule has already put the
row aside: then the run succeeds, where `aws/quality/runtime.py:51` says that an abort
rule is "evaluated on the input; any failure raises and fails the run" (the expressions
come last, :84-91, and see what is left); the state row of a stream has no watermark;
the metrics are those of the latest snapshot, whoever made it.

Snowflake: the lock is released only if `acquire` returned, so that a failed read-back
leaves the row for its lease (`snow/runtime/runner.py:137`); a lock row that the
read-back does not find counts as acquired (`snow/state/runtime.py:87`). Where the
session returns rows that are tuples, the read-back takes the second column, the owner,
for the status (:341-349, against the SELECT of :317-324): with a `lock_owner` every run
finds its lock busy and leaves its row for its lease, and without one the status is not
looked at.

REST: lists by page or offset go on after a short page; a removal moves records past
the reader; a newest-first list that `max_pages` (1 unless given) cuts loses the
rest, an oldest-first one never gets past its first pages; a 404 after the last page
fails the read; the previous watermark that the reader would filter by is never set
(`core/connectors/api/rest/reader.py:196`); a record that arrives with the value of the
stored watermark is never read, under the strict `>` of `dbx/watermark/sql.py:17`.

Orchestration: a retried insert of a BigQuery job, which has no job id, starts a second
one; a poll that gives up leaves its job running; only the last of the quality
statements is looked at; the commands that do not wait judge nothing; a cleanup may
come while jobs run, and one that fails half way leaves the later evidence. A Fabric
operation's status is not read; without waiting, dependents start at once; a step that
is expected to be `blocked` or `running` counts as success and releases those that
depend on it (`fabric/smoke/project.py:282-293`), where `docs/project-yaml.md:456` says
that `depends_on` lists steps "that must complete before this step". A Glue step is
published before it is registered. Snowflake reads history rows of other executions.

Schema: AWS has no policy check (against `docs/specs/platform-contract-parity.md:76`);
Fabric issues no DDL but logs the comparison as applied (`docs/specs/control-table-parity.md:38`
speaks of "detected/applied" drift), removed columns under permissive too; under strict
Snowflake passes a change of type within one family and any to or from VARIANT, which
the core's `validate_schema_diff` would refuse (`docs/specs/snowflake-capability-parity.md:116`
says "fail drift"); the order of columns is not
compared, so that a positional insert misplaces values; widenings are accepted that
lose values or that Delta refuses; where the look at the target fails, Databricks and
Fabric skip the policy and Snowflake takes every column for new; a second Databricks
batch alters what the first has altered; a crash after ALTER leaves an addition that is
never logged; BigQuery's strict policy rejects every first append.

Each of these appears in a model as behaviour, and in the properties as a named
exception.

## 8. What is left out

* *Databricks run.* `query_one = None`: without a query function the lock skips its
  read-back; no entry point of the adapter combines that with `lock_enabled`.
  Secondary evidence (quality, lineage, schema, errors, cost): statements that may
  raise, which `Raise` and `FailureEvidenceFails` stand for. A lazy view that shrinks
  between evaluations: it grows only; a cached one is evaluated by the write, and is
  not evicted. Databricks' own
  quality rules are rendered SQL; the split into accepted and refused rows is modelled
  where a runner evaluates the rules one by one.
* *Stream.* The row counts of its log; on Fabric the query is one step, or a prefix
  that fails.
* *Historical write.* Timestamps: the clock counts commits, so that no two MERGEs are
  simultaneous. A batch is a set:
  identical source rows are one. The SCD2 statement of Fabric, and the modes that AWS
  and Snowflake render for review only.
* *Windows and target writes* are modelled without the lock, which IngestRun and
  Platforms cover.
* *Hash-diff on AWS* of a table that has no `row_hash` or lacks a key: the comparison is
  left out, and the MERGE, which names the missing column, raises
  (`aws/write_modes/hash_diff.py:87`). The tables of AwsWrite are created by the mode
  itself and have both.
* *The internals of a MERGE*: optimistic concurrency control is taken to make one
  statement atomic, or to raise.
* *Orchestration.* The smoke command of GCP beyond its schema policy, its load-job
  probe, the operations of a workflow that annotate and record schemas (only their
  failing), the deployment of schedules, task graphs of several roots, skewed clocks,
  Glue jobs that are allowed to run concurrently, shortcuts and workspace setup of
  Fabric.
* *REST.* Authentication, rate and byte limits, raw mode; the JDBC connector.
* *No state of their own*: the planners, renderers, reports, AI tooling and the
  command lines around them are pure functions of their input or plain I/O. They are
  the greater part of the repository and the reason that `map` covers a small share of
  its lines. `components` in `PROJECT.json` gives the reason for each.

## 9. Plan

What would come next, in this order; each step brings its runs, mutations and theorems.

1. What the copies of a Glue stream cost, as `EveryCopyCostsAFailure` says it of
   Databricks.
2. Row metrics of the stream log in AvailableNow.
3. The planner's decision tables as operators, checked exhaustively against a
   reference.
