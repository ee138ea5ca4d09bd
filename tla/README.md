# Tick Vault in TLA+

A formal model of Tick Vault, the market-data lakehouse of this repository:
exchange feeds → Redpanda → a Flink job → Parquet in MinIO → GCS → BigQuery →
dbt.  The modules are translated from the code under `src/`; paths below are
relative to it.  TLC checks small instances; TLAPS proves every safety and action
property of the passing runs for all values of the constants (section 5; three of
them, about the batch lane, without the lifecycle rule, and two of these with one
run at a time that builds the gold tables).  What is left to TLC alone is liveness.

    tlc -workers 2 -config BronzeSink_live.cfg MCBronzeSink.tla
    tlapm BronzeSinkProofs.tla      # Batch-, Pipeline-, Producers-, Market-,
                                    # ValidatorProofs; SetInduction, SilverProofs

`PROJECT.json` lists components, runs, theorems, hazards, findings, the source
lines of every definition, and a mutation for every checked property.


## 1. Inventory

| Part | State it keeps | Operations | Interacts by | Hard behaviour | What makes it correct |
|---|---|---|---|---|---|
| **Producer process** (`src/producers`) | per websocket task: the connection and `backoff`; the shared Kafka client's memory; `stop` | connect, subscribe, handle a message, poll, sleep, send to a topic or the DLQ, cancel, flush, close | `sink.send()`, whose future nobody reads; asyncio cancellation; SIGTERM; Docker's restart policy | exceptions the handlers do not name, a normal close, a task that dies while the others wait, a stop during anything, an unreachable broker | nothing taken is lost without an outage; the backoff counts the retries; a dead task comes back; a stop ends the process; malformed input reaches the DLQ |
| **Broker, topics** (`docker-compose.yml`, `scripts/create_topics.py`) | a log per partition, in the container | append by key, create topics, be recreated | Kafka protocol | its log goes with the container while MinIO's volume stays | offsets identify records |
| **Bronze sink job** (`flink_jobs/bronze_sink_job.py`, `docker/flink/scripts/wait_and_submit.sh`) | source positions, part files in progress and pending, the last checkpoint, the bucket | submit, read, write, roll, checkpoint, commit, fail, restore | reads topics, writes `bronze/`, checkpoints to the same bucket | AT_LEAST_ONCE barriers, commits after the checkpoint, crashes in between, a job lost with its checkpoint, two submissions at once | no restart skips a record; one execution writes none twice; replays stay bounded; everything produced is archived |
| **MinIO → GCS sync, external table** (`scripts/sync_bronze_minio_to_gcs.sh`, `infra/bigquery`, `infra/gcs`) | a staging directory, `gs://…/bronze` | mirror, rsync, create or replace the table; the lifecycle rule deletes | `mc` in a container, `gcloud storage`, `bq` | stops half way; a failure that is only warned about; parts appear meanwhile; the rule deletes what the next sync sends again | bronze in GCS is a part of MinIO's, only grows without the rule, and catches up |
| **Staging views** (`dbt/models/staging`) | none: queries | filter, deduplicate, join a seed | read the external table on every query | duplicates, ties, offsets given out twice | every valid record once, the newest, the same on every read |
| **Intermediate models and marts** (`dbt/models/intermediate`, `marts`) | tables | rebuild in dependency order | read the views and each other | ties in `min_by`/`max_by`, windows of rows against windows of minutes, late events, tables built at different moments | one row per exchange, symbol and minute; a late event changes nothing before it and no other instrument; the report's columns agree; the mart never falls back |
| **Orchestration** (`airflow/dags`, `scripts/dbt_*.sh`, `scripts/run_end_to_end.sh`, `docker/gcs-pipeline`) | Airflow's run state | sync ≫ refresh ≫ dbt run, one retry each | shell, Docker's socket | overlapping and repeated runs, a retry that starts from a newer state, an older result written last | a run that succeeds has delivered what it found; everything is reported, and again after the rule has deleted it |
| **Validator, health checks** (`scripts/validate_bronze_offsets.py`, `pipeline_health.sh`) | none | sum end offsets, count rows | Kafka, S3, BigQuery | the two are not read at one instant; counts include duplicates and other streams | a reported lag is a lag |
| Grafana, Terraform, images, vendored dbt packages | — | — | — | — | not modelled: configuration, no steps |


## 2. Plan

Done, in this order, the most important behaviour first:

1. `BronzeArchive`, `BronzeSink`, with their theorems: the only part of the
   system with a protocol of several actors and a crash in every gap.
2. `Producers`: the process in front of the broker.
3. `Silver`, `Pipeline`: what at-least-once archiving means to a reader of dbt.
4. `Gold`, `Market`: candles, windows, joins and the report as operators, rebuilt
   after every event.
5. `Replica`, `Batch`: sync, refresh and dbt, with failures, retries, overlapping
   runs and the lifecycle rule; `Replica` is what each hop promises.
6. `Validator`: its two readings beside a running archive.

Then the proofs, one module for each of them, with `SetInduction` and
`SilverProofs` for the lemmas that several need (section 5):

7. `BatchProofs`, 8. `PipelineProofs`, 9. `ProducersProofs`,
10. `ValidatorProofs`, 11. `MarketProofs`.

Left: to join `Pipeline` and `Market` (events that are rows of a view, in place of
"each event stands for its one row"), so that `SilverComplete` becomes a step of
`UniqueGrain`'s proof and not a remark.

Dropped: a module for the start of the services.  Compose orders it
(`depends_on`, with `topic-init` completed before the producers), and what a job
does that outlives its broker is decided inside Flink's Kafka client.


## 3. Modules and code

### BronzeArchive — what bronze promises
`log`, `archived`, `serving`.  The archive takes produced rows, any number at a
time, never gives one back, and is only written while some job serves it.
`EventuallyArchived` is the liveness half.

### BronzeSink — the Flink job
`bronze_sink_job.py` builds SQL strings and calls `execute()`: all of the job's
behaviour lies in what Flink 1.19 does with this configuration.  The module
models that, and the lines in the map are the configuration that selects it.

| Code | Model |
|---|---|
| four Kafka tables, one position per partition (`:42-116`) | `Splits`, `pos[j][s]` |
| `'scan.startup.mode' = 'earliest-offset'` (`:55`) | `Submit` starts at offset 0; `Restore` does not: a restored position wins |
| `UNION ALL` of selects (`:145-188`) | rows pass one by one; the channel from source to sink is the interval `written .. pos-1` |
| checkpointing every 120 s, AT_LEAST_ONCE (`:37-39`) | `TriggerCheckpoint`, `InjectBarrier`, `BarrierArrives`, `Snapshot`, `CompleteCheckpoint`; `Write` goes on for a channel whose barrier has arrived |
| filesystem sink, Parquet, rolling policy (`:120-143`) | parts `open` and `closed`, `Roll`; a bulk format closes all parts at a checkpoint |
| commit after the checkpoint | `CommitPart`, one part at a time, also by a restarting sink |
| default restart strategy | `FailTask`, `Restore` from `done[j]` |
| `flink run -d` (`wait_and_submit.sh:22`), no savepoint, no test for a running job | `Jobs` is any number of submissions, each starts afresh |
| no high-availability store in `docker-compose.yml` | `LoseJob`: the checkpoint is never used again |

Abstractions.  One bucket per split: the code partitions by exchange, symbol and
date, a finer partition of the same rows, and parts are published one by one in
any order anyway.  `_SUCCESS` files are left out, nothing reads them.  Sources of
one topic are not grouped into readers: barriers are injected per split, which
allows every order the grouping does.

### Producers — the asyncio process
One action per stretch of code between two awaits, for nothing else runs on the
loop meanwhile; the client's sender thread (`Deliver`, `Expire`) does run
meanwhile.

| Code | Model |
|---|---|
| `websockets.connect` resets the backoff (`binance_trades.py:47-49`, `kraken_depth.py:67-70`) | `Connect`, `Subscribe` |
| one message: parse, send, or DLQ (`binance_trades.py:51-76`) | `Message`; `TradeOutcome` and `BookOutcome` follow the order in which the fields are parsed and say which exception a bad one raises |
| outer `except Exception`: sleep, then double (`binance_trades.py:77-80`) | `Disconnect` and the failing branches of `Message`, then `Reconnect` |
| `async for` ends when the server closes normally | `CleanClose` |
| one poll (`coingecko_rest.py`, `cryptocompare_rest.py`) | `Poll`, which may have published some coins when a later one fails |
| `KafkaProducer.send` (`redpanda.py:19`) | `Send`; `SendRaises` when the broker is gone. kafka-python 2.0.2 has `retries=0`: a batch that expires is dropped and no one asks |
| `asyncio.wait(FIRST_COMPLETED)`, cancel, gather, flush, close (`main.py:31-45`) | `Wake`, `Cancelled`, `Gathered`, `Close` |
| `restart: unless-stopped` (`docker-compose.yml:189`), `docker compose stop` | `Start`, `OperatorStop`, `OperatorStart` |
| the kernel, Redpanda | `Kill`, `BrokerLost`, `BrokerBack` |

Abstractions.  A payload is what its fields do to the parser (`Numbers`, `head`,
`tail`, `level`).  A blocked `send()` is one step: seconds are not modelled.
`retries`, `malformed`, `disturbed`, `accepted` and `delivered` record history
for the properties; no guard but the bounds reads them.

### Silver — the staging views
`RowNumberOne(rows, key, before)` is BigQuery's `qualify row_number() over
(partition by … order by …) = 1`, with the partition as a function of the rows and
the order as a relation between them.  A tie may be broken either way on every read, so its value is the set
of tables it may return.  `KafkaKey`, `LatestIngest`, `TradeIdentity`,
`LatestOffset` and `FirstOffset` are the keys and orders the models name;
`StgTrades`, `StgDepth` and `StgRestQuotes` put them together.  The parsed
columns are reduced to `good`: the filter lets the row pass.  The left join with
the `instrument_map` seed adds columns and is left out.

### Pipeline — from producer to reader
Composes a topic, the archive and a view.  The job enters as the archive that
`JobImplementsArchive` shows it to implement: a produced row may become visible,
in any order, and again (`Archive`; `copy` distinguishes equal rows of the table
and is hidden from a reader by `Columns` and `Content`, a bag).  `Send` gives
records their key's partition and increasing `ingest`, as one process with one
clock does; `RecreateBroker` is `docker compose down` and `up`: Redpanda has no
volume (`docker-compose.yml:2-29`), MinIO has one.

### Gold, Market — from events to marts
`Gold` is the SQL, one operator per CTE or window: `Candles`, `Window`, `Lag`,
`Joined`, `Fct`, `Report`, with `partition by` as `Instrument`, `Partition` or
`Rivals` and `order by` as a relation (`Cheaper`, `Dearer`).  `Market` sends
events of every topic in any order of their times and rebuilds after each one.

Abstractions.  `timestamp_trunc(…, minute)` is a division by `PerMinute`.  Counts,
sums, high, low, vwap and the depth averages are functions of a group and are
represented by it (`rows`); only `open` and `close`, where `min_by` and `max_by`
have a choice, are computed, and a table with a choice is a set of possible
tables.  The volatility is represented by the minutes of its window.  Each event
stands for its one row of a staging view: that replays are invisible there is
`Pipeline`'s subject.

### Batch, Replica — the batch lane
| Code | Model |
|---|---|
| fresh `mktemp -d`, removed by the trap on every exit (`sync_bronze_minio_to_gcs.sh:44-62`) | `BeginSync`, `Cleanup` |
| `mc stat … else Warning` (`:71-75`) | `StatFails`, where `Blind` allows it |
| `mc mirror` in a container (`:84-91`) | `CopyPart`, `MirrorEnds`: what was there at the listing, perhaps more |
| `-v "${staging}:/out"` names a directory of the daemon's host | `Local`: runs on the host are in `Shares`; in Airflow's container, which has the host's socket, the script's own directory stays empty |
| `gcloud storage rsync` without deletion (`:110-117`) | `MirrorEnds` lists the destination (`sent`); `UploadPart` sends what was not there, `UploadEnds` when all was: what expires in between is not sent again |
| `set -euo pipefail` (`:23`) | `SyncFails` at any point; what was uploaded stays |
| create or replace the external table (`apply_bronze_external_table.sh:39-67`) | `RefreshTable`: over the same prefix, so nothing about parts changes |
| `dbt run` / `dbt build`, tables (`dbt_project.yml:19-36`) | `Query` reads a snapshot, `Commit` replaces the table; `QueryFails`, `TestFails` hold up the models downstream; `DbtRefuses` is the preflight |
| `retries: 1`, `depends_on_past: False` (`tickvault_minio_gcs_bq_dbt.py:26-31`) | `retrying`, `Fail`, `Retry` |
| the lifecycle rule (`infra/gcs/lifecycle_bronze_90d.json`) | `Expire`, where `Rule` says it was put on: any part whose upload is `Lifetime` rounds old, as often as it is uploaded again; `Tick` ends a round, `age` counts them |
| `schedule`, no `max_active_runs` (`:33-45`), the host scripts | `StartRun`: a slot of `Runs` is used again, so `Runs` bounds the runs at a time, not in all |
| `bronze_to_gcs_and_bq.sh:43-48`, sync and external table only | `EndSync`: a run in `Syncs` ends before dbt and has no retry |

A table stands for the set of parts it reflects: dbt replaces tables whole, so
this is what two tables of different moments differ in.  Both warnings of the
script (no source, no files under the staging directory) let it go on, so an
empty mirror is a sync that succeeds.  Time is coarse: a *round* is over when every
scheduled run has started once more and every run that was going on when it began
has ended (`Tick`), so a run spans at most two rounds and a part of age `Lifetime`
was uploaded by a run that is long over.  `Replica` is the abstract specification of
a hop (a copy inside its source, growing); `Batch` implements it twice, from MinIO
to GCS, what the rule has deleted included, and from GCS to the mart.

### Validator — two readings of a moving system
`BronzeArchive` with counted duplicates, and `main`'s two steps in the order of
`validate_bronze_offsets.py:113-123` (`Order`).  `SumEndOffsets` is given any
subset of the partitions: the consumer joins a group (`:30-51`) whose default id
any other invocation shares.  `CountRows` counts the whole prefix.  The BigQuery
count is the same comparison against a copy and is left out.


## 4. Runs

| Run | Instance | What it shows |
|---|---|---|
| `sink_resubmit` | 1 split, 2 jobs, 2 records, 1 fault | two submissions, side by side or one after the loss of the other: `CheckpointCovers`, `OncePerAttempt`, `ImplementsArchive` |
| `sink_live` | 2 splits, 1 job, 1 record each, 2 faults | `CheckpointCovers`, `ReplayBounded`, `CheckpointsAdvance`, `EventuallyArchived`, `TypeOK` |
| `producers_safety` | both streams and CoinGecko with two coins, 2 inputs, 2 faults (stops, kills, outages) | `NoLossUndisturbed`, `BackoffFollowsRetries`, `FailedTaskComesBack`, `StopTerminates`, `TypeOK` |
| `producers_dlq`, `producers_backoff` | no faults needed | violations, see the findings |
| `pipeline_safety` | 3 symbols on 2 partitions, 4 records, 2 copies, 1 recreated broker, each kind of stream | `SilverComplete`, `SilverDeterministic`, `CopiesAreInvisible`, `RowsOnlyGetNewer`, `TypeOK` |
| `pipeline_recreated`, `pipeline_unique` | 2 symbols, 2 records | violations, see the findings |
| `market_safety` | 2 Binance and 2 Kraken pairs, one coin at each poller, one symbol without an asset; 4 events, ties, a gap of five minutes | `UniqueGrain`, `ReportAgrees`, `RebuildRepeats`, `LateEventsStayLocal`, `TypeOK` |
| `batch_safety` | 2 parts of two streams, a run on the host and a sync beside it, 3 failures | `MartIsReplicated`, `GoldMatchesBronze`, `SyncDelivers`, `TypeOK` |
| `batch_live` | 1 part, a run on the host beside one in a container, 2 failures, also unseen ones, the lifecycle rule with an age of 4 rounds | `BronzeIsReplicated`, `EverythingIsReported`, `OnlyTheRuleTakesBack` |
| `validator_safety` | partitions of three streams, two of them listed, 2 records each, 1 duplicate | `ReportedLagIsReal`, `TypeOK` |

*Why the bounds are enough.*  Two splits let one barrier arrive, and a row behind
it be written, while the other barrier is on its way, the only place where
AT_LEAST_ONCE differs from EXACTLY_ONCE (`sink_live`); two records of one split
let one row be checkpointed, the next be behind the barrier, and a part roll in
between (`sink_resubmit`, with one split because submissions share only the
bucket).  What the bounds cut off is covered by the theorems, which have none.
For the producers, `MaxRetries` reaches the cap, and doubling would exceed it; a
poll of two coins can fail half way; two faults are an outage and a kill, or a
stop and a start; and the streams do not interact but through the supervisor and
the broker.  In the pipeline two symbols share a partition and the third does not;
four records are enough for a trade sent twice, another record at the second
one's offset after the broker is recreated, and one more beside them.  In `Market` four events give two candles of one
symbol with a rival in each minute, or a tie with a late third trade; the minutes
0 and 6 leave a gap wider than the five rows' window.  In `Batch` two parts are
read by two models, so that one of them can be in a table without the other; the
sync beside the run uploads the second between the two models' queries, so that the
mart joins tables of different moments; and three failures exhaust a task's retry
and hit the next run as well (`batch_safety`; two exhaust it in `batch_live`).
A `Lifetime` of 4 rounds is the least with which every part is reported: with 3 or
fewer TLC finds a part that expires, each time, before a run that has uploaded it
gets to its query.  The code's rule waits 90 days, 2160 rounds of the schedule, and
a longer life only gives a run more time.  The validator
needs one partition that is listed and not assigned, one that is not listed, and
records before and after each reading.

*Deadlock checking is off* everywhere: a cluster whose jobs are all lost, a
producer container the operator has stopped, a validator that has printed its
result, and every instance whose record bound is reached may really stop.

*Symmetry* over jobs is used in `sink_resubmit`, and over two of the symbols
in `pipeline_safety`: their properties name no particular one.  Never with
liveness.

*Fairness.*  `JobFairness` is Flink's: every task of a scheduled job steps, the
coordinator triggers at the interval, the default restart strategy never gives
up.  There is none on `Submit` (an operator), on `Roll` (depends on size and
time) or on faults.  The run has one job: the compose file has one task
manager and leaves Flink's default of one task slot, so a second job need not get
to run at all and fairness for both would be unjustified.  `sink_resubmit` lets
two run side by side, which a second task manager or slot is enough for.

For the producers: the event loop runs a ready coroutine (`Wake`, `Cancelled`, `Gathered`, `Close`),
the sender thread sends or expires
(`Deliver` or `Expire`), Docker restarts (`Start`), an outage ends
(`BrokerBack`).  No connection, message or poll is ever promised.

For the batch lane: a run that has started goes on until it ends or fails
(`RunStep`), because the scheduler, `mc`, rsync and BigQuery do; and where Airflow is
installed on the host, which is optional (`airflow/README.md:46`), and has a schedule
(`tickvault_minio_gcs_bq_dbt.py:33-35`: it may be turned off), it starts a run every
hour (`StartRun` for `Scheduled`).  What `batch_live` shows of liveness is about such an
installation: where Airflow runs in its container only, or nothing is scheduled, no part
need ever be reported (section 6).  Parts, rounds and deletions are not promised, nor a
run in the container: nothing it does is needed, and nothing it does may prevent the
result.  Failures are bounded, so after the last one a run gets through.

*Mutations.*  Every checked property has an operator in the module that changes
one definition as a slip in the code would (a snapshot that forgets pending
parts, a restore from the earliest offset, a connection that keeps its backoff, a
deduplication key without the partition); with it in place TLC finds the property
violated.  They are marked "Mutation" and no specification uses them.


## 5. Proofs

Every theorem about a property states the property its component's run checks;
the invariants are what induction needs beside it.  Each preservation proof has
one step per action.

### BronzeSinkProofs
For every finite or infinite set of splits and jobs and every value of the bounds; the only assumptions are `MaxOffset \in Nat` and
`MaxFaults \in Nat`.

* `TypeCorrect`: `Spec => []TypeOK`.
* `NoRestoreSkips` (`CheckpointCovers`), from `CoverInvariant`.
  `CheckpointCovers` speaks of completed checkpoints only and is not inductive:
  `CompleteCheckpoint` makes it true of new positions because of what the
  snapshot holds, the snapshot because of what the sink has written.  So
  `CoverInv` adds: volatile state exists only while a job runs (`PhaseInv`);
  checkpoint ≤ barrier ≤ sink and source ≤ log, per split (`PositionInv`); each
  row the sink has passed is in progress or in a part the job still knows or has
  published (`WrittenInv`); a snapshot covers its barriers and takes over what
  the last one has not published (`SnapshotInv`).
* `ReplayStaysBounded` and `CheckpointsOnlyAdvance` follow from `PositionInv`.
* `ArchivedOncePerAttempt` (`OncePerAttempt`), from `PartsInvariant`: parts are
  their job's own (`OwnInv`), hold produced rows and in-progress rows were just
  written (`ProducedInv`), the current execution's parts are behind the sink and
  apart from what is in progress (`CurrentInv`), and disjoint (`DisjointInv`).
* `JobImplementsArchive`: `Spec => ArchiveSafety`.  Every step is a `Produced`, an
  `Archive`, a `Serve` or a stutter of the abstract archive; `CommitPart` is the
  step that needs `PartsInv` (a published part's rows were produced, its job is
  alive).

### BatchProofs
For every set of parts, of runs and of intermediate models.

* `TypeCorrect`.
* `GcsReplicatesMinio` (`BronzeIsReplicated`), from `BronzeInv`: what any run has
  listed or staged, and what GCS has or the rule has deleted, is in MinIO.  No
  hypothesis: runs overlap, `mc stat` fails unseen, objects expire.
* `UnwarnedSyncDelivers` (`SyncDelivers`), from `SyncInv`: a run that gets to its
  upload has mirrored its whole listing or nothing, and what rsync has found or sent
  is there.  Any runs overlap and `mc stat` may fail unseen; only `~Rule` is needed,
  for what expires after rsync has listed it is not sent.
* `MartReplicatesGcs` (`MartIsReplicated`), from `MartInv`: a running query's
  snapshot lies between what its table has and what it reads from.  It needs
  `OneBuilder` (of the runs that may be active at a time at most one is not in `Syncs`)
  and `~Rule`: with two builders an older snapshot can be written last, and what has
  expired is gone from the next table.  Any number of syncs go on beside the builder
  (`DbtInv`: they never have a model under way, `OthersRest`).
* `SuccessfulRunDelivers` (`GoldMatchesBronze`), from `DeliveryInv`: what a run has
  listed is ahead of it at every task, staged, uploaded, read by each model it has
  to pass and in each table it has built; a step of another run touches none of it
  (`OthersKeep`).  Besides `OneBuilder` and `~Rule` it needs `~Blind` and
  `Shares = Runs`: a script that cannot see its source, or mirrors into another
  machine's directory, succeeds with nothing.  `Batch_safety.cfg` is an instance of
  these four.

### SilverProofs, PipelineProofs
For every set of symbols, partitions and ids and any number of records, copies and
brokers.  `SilverProofs` says what `RowNumberOne` keeps: rows of its input, one per
key, none that another comes before; and that it has a result where every key has
a first row.

* `PipelineInvariant`: `TypeOK` with `PipelineInv`.  The log holds a partition's
  records in the order of their stamps, which no other partition has (`LogInv`); a
  row of the bucket is the current broker's own record, or the broker has been
  recreated and the row is older than all it has (`BronzeInv`); rows with one stamp
  are copies of one record (`Stamped`).
* `ViewsAreComplete`, `ReadsAreRepeatable`: with one broker a Kafka identity is one
  record, so the first deduplication loses copies only.
* `TradesOnlyGetNewer` (`RowsOnlyGetNewer`): of a trade's rows the first
  deduplication keeps the newest of each identity, the second the highest offset of
  a partition, which is the newest of the current broker's.
* `CopiesDoNotShow` (`CopiesAreInvisible`): the views of two tables that differ in
  copies are matched one by one.

### ProducersProofs
For any pollers, coins, inputs, retries and faults and every base and cap.
`ClientInv`: what a task has sent is in one place at most, and while nothing
was disturbed in exactly one, the client's buffer or the broker; an outage is
remembered; a process that has ended has no memory.  `StreamInv`: the backoff is
the base doubled `retries` times, up to the cap.  From them `NothingIsLost`
(`NoLossUndisturbed`), `BackoffIsExponential` (`BackoffFollowsRetries`) and
`TypeCorrect`, whose bounds on the counters are counts of what an input can send.

### ValidatorProofs
For any finite set of partitions.  `SumIsCount`: the sum of the end offsets is the
number of the records below them.  From it `LagsAreReal` (`ReportedLagIsReal`): the
records below the offsets that the count did not find are at least the sum minus
what bronze holds, and duplicates only make the reported lag smaller.

### MarketProofs
For any pairs, coins, times and prices.  `SeedAssumption` is a fact about
`instrument_map.csv`: a venue has one symbol for an asset.  Were a second one added
(BTCUSDC beside BTCUSDT), two rows of one exchange could tie in price and name, and
the report's ranks would be arbitrary; no test of the repository looks at this.
`CoinsAssumption` and `ExchangesAssumption` say which venues there are and that the
report's order by name knows each.

* `EventsInvariant`: the events are typed and finitely many, and a poller's quotes
  of a coin have different times.  The rest is about tables built from such events.
* `GrainIsUnique` (`UniqueGrain`): a table of candles has one row per group, the
  trades' venue has no quotes, a depth table has one row per group, so the join
  keeps each candle once.
* `ReportsAgree` (`ReportAgrees`): price and then name order the rivals strictly, so
  the ranks are injective into `1 .. n` and reach all of it; first and last rank
  have the least and the greatest price.
* `RebuildsAgree` (`RebuildRepeats`): without ties every group has one candle, and
  a finite group has one.
* `LateEventsAreLocal` (`LateEventsStayLocal`): a table of the events before can be
  continued to one after that differs in the event's group only, and a window of an
  earlier minute or another instrument does not see that group.
* `DepthIsNeverJoined`: no row has a spread or a dead letter, whatever is sent:
  what is documented of the two columns fails for every input (section 6).

### Induction over data
The library's induction theorems take the predicate as an operator, which the
provers here cannot instantiate.  `SetInduction` takes a set in its place: the set of
the numbers, or the family of the subsets of a finite set, that have the property.
With it recursive functions (`Doubled`), sums over sets (the validator's) and
extremes of finite groups are within reach.

*Only model-checked*: liveness (`EventuallyArchived`, `FailedTaskComesBack`,
`StopTerminates`, `EverythingIsReported`, `OnlyTheRuleTakesBack`), which is beyond the
prover.  The
violations of section 6 are counterexamples and need no proof.


## 6. Findings

1. `MalformedReachesDlq` (README.md:140).  `Decimal("abc")` raises
   `decimal.InvalidOperation`, an `ArithmeticError`; a JSON array raises
   `AttributeError`.  `binance_trades.py:66` and `kraken_depth.py:87` name
   neither: the connection is dropped, the message goes to no DLQ.
2. `DropsAreFollowedByBackoff` (README.md:140).  After a normal close by the
   server `async for` just ends: the next connection follows at once
   (`binance_trades.py:51`, `kraken_depth.py:72`).
3. `DistinctTradesKept` (`_staging.yml:6-9`).  After `docker compose down` and
   `up` offsets start again while archived rows stay, and trades that are no
   duplicates push each other out of `stg_trades`.
4. `UniqueTradeIdAndTime` (`_staging.yml:10-12`).  Trade ids are per symbol; the
   uniqueness test leaves the symbol out.

Seen while modelling.  No run is about these; each follows from the lines named.

* Kraken's updates list only the levels that change; the producer makes the same
  event of them as of the snapshot (`kraken_depth.py:41`), and `stg_depth.sql:51-57`
  takes the first level for the best (`_staging.yml:47`: "best bid and best ask").
* Only Kraken's books give depth, everybody else gives the candles, and the mart joins
  the two on the exchange (`fct_market_metrics.sql:87`): `spread_bps` is null in every
  row, by theorem `DepthIsNeverJoined`, against `_marts.yml:56` ("Average inside bid-ask
  spread in basis points of mid for the minute when depth is present."), README.md:297
  and `docs/GLOSSARY.md:108`.
* `dead_letter_count` is 0 in every row, by the same theorem, against `_marts.yml:58`
  ("Dead-lettered producer events observed in the same minute."), README.md:308 and
  `docs/GLOSSARY.md:60`.  The job has no source table for the DLQ topic
  (`bronze_sink_job.py:42-116`) and its `INSERT` does not select from one
  (`:167-190`), so `int_dlq_1m` stays empty and the alert of README.md:331 cannot fire.
* In Airflow's container `-v "${staging}:/out"` names a directory of the host
  (`sync_bronze_minio_to_gcs.sh:87`): the script finds its own empty, warns,
  uploads nothing and succeeds.  So does a script whose `mc stat` failed for any
  reason (`:71`).  `SyncDelivers` is therefore about syncs that do not warn, and says
  nothing of those; `EverythingIsReported` says that a later run makes up for them.
* With two builders at a time a query that began before the other run's sync can be
  the last to replace a table (no `max_active_runs`,
  `tickvault_minio_gcs_bq_dbt.py:37`), so `GoldMatchesBronze` is checked for a
  lane with one builder at a time; `EverythingIsReported` is not.
* A trade that was sent twice and whose second row's offset a recreated broker
  gives to another record falls back to its first row: `stg_trades.sql:81` drops the
  newer row before `:91` can choose it.  This is the exception in
  `RowsOnlyGetNewer` (`Displaced`), and the reason why a fourth record matters.
* The 90-day rule (README.md:271) deletes from GCS what the next sync uploads from
  MinIO again, and 90 days later deletes it again.  A dbt run in between rewrites the
  gold tables without those rows, so no old row stays in the mart for good:
  `EverythingIsReported` says that it comes back every time, `OnlyTheRuleTakesBack`
  that nothing but the rule keeps taking it away.
* Trades of one millisecond tie in `min_by` and `max_by`
  (`int_ohlcv_1m.sql:17,20`; `docs/GLOSSARY.md:113`: "first trade price"), which is
  the exception in `RebuildRepeats`; the "5-minute" average is over five rows
  (`:36`) and a "one-minute" return is from the row before
  (`fct_market_metrics.sql:97`), whichever minute that is of.
* The validator sums two topics by default and counts the rows of all four
  (`validate_bronze_offsets.py:101`): a lag may stay hidden, which is why
  `ReportedLagIsReal` has no converse.
* `stg_depth`'s order is by the partition's own key, all ties, so after a recreated broker two reads may differ (why
  `SilverDeterministic` excludes it); the documentation of `stg_rest_quotes`
  (`_staging.yml:83-87`) speaks of a second deduplication the SQL does not have;
  one bronze job per cluster (README.md:233) is not enforced.


## 7. Not modelled

* A job that outlives its broker.  Whether a position beyond a new log is reset,
  or one inside it goes unnoticed, is decided in Flink's Kafka client, which this
  code does not configure.  `BronzeSink`'s log is append-only, and `Pipeline`'s
  archive forgets positions.
* How long a `send()` without metadata blocks the event loop: time is not
  modelled, the blocked call is one step.
* Half a poll: `Poll` publishes some coins before another fails, but no line says
  what readers may expect of it, so no property is about it.
* What a level of Kraken's book means: the venue's books are not in the model, and
  the code does not tell a snapshot from an update.
* The topic creation script and the order in which services start, which Compose
  enforces; buckets, datasets, credentials.
* The `instrument_map` seed being replaced while views read it: it changes with
  the repository, not with the running system.
* The health checks and `validate_bronze_offsets.py`'s BigQuery count: they read
  and print; the count compares as the other one does.
* Grafana, Terraform, images and vendored packages, which have no steps of their
  own.
