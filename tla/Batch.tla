------------------------------- MODULE Batch -------------------------------
(***************************************************************************)
(* The batch lane: parts of bronze go from MinIO through a staging         *)
(* directory to GCS, where BigQuery's external table shows them, and dbt   *)
(* rebuilds the gold tables from it.  Airflow runs the three tasks sync,   *)
(* refresh and dbt_run every hour, each with one retry; a shell or the     *)
(* gcs-pipeline container can run the same scripts beside it.              *)
(*                                                                         *)
(* A run is a slot that is used again: any number of runs happen, at most  *)
(* Cardinality(Runs) at a time.  A table stands for the set of parts whose *)
(* rows it reflects.  A model's query reads one snapshot when it starts    *)
(* and replaces its table when it ends (create or replace table as).       *)
(***************************************************************************)
EXTENDS Naturals

CONSTANTS Files,      \* part files of the four streams
          Runs,       \* runs that may be active at the same time
          Ints,       \* the intermediate models the mart takes its rows from
          Reader,     \* [Files -> Ints]: the model that reads a part's stream
          Shares,     \* runs whose script sees the disk its mirror writes to
          Syncs,      \* runs of bronze_to_gcs_and_bq.sh, which end before dbt
          Blind,      \* may `mc stat` miss a source that is there?
          Rule,       \* has infra/gcs put its lifecycle rule on the bucket?
          Lifetime,   \* the rule's age, as a number of rounds (see Tick)
          MaxFaults   \* bound on the commands and queries that fail

ASSUME ReaderAssumption == Reader \in [Files -> Ints]
ASSUME SettingsAssumption == Blind \in BOOLEAN /\ Rule \in BOOLEAN
ASSUME SharesAssumption == Shares \subseteq Runs
ASSUME SyncsAssumption == Syncs \subseteq Runs
ASSUME LifetimeAssumption == Lifetime \in Nat
ASSUME FaultsAssumption == MaxFaults \in Nat

Fct == "fct_market_metrics"
Rpt == "rpt_exchange_base_asset_price_comparison"
ASSUME IntsAssumption == Fct \notin Ints /\ Rpt \notin Ints

Models == Ints \cup {Fct, Rpt}

\* The runs that Airflow on the host starts.
Scheduled == Shares \ Syncs

\* ref(): the tables a model reads.
Refs(m) == CASE m \in Ints -> {}
             [] m = Fct -> Ints
             [] m = Rpt -> {Fct}

VARIABLES
    minio,    \* parts visible in MinIO
    gcs,      \* parts in gs://$GCS_BUCKET/bronze
    deleted,  \* parts the lifecycle rule has deleted at least once
    age,      \* [Files -> 0 .. Lifetime]: rounds since a part's upload to GCS
    started,  \* runs that have started in this round
    task,     \* [Runs -> Tasks]: what a run is at
    retrying, \* [Runs -> BOOLEAN]: is this the task's second attempt?
    listed,   \* [Runs -> SUBSET Files]: what the mirror found when it started
    staged,   \* [Runs -> SUBSET Files]: what it has written
    sent,     \* [Runs -> SUBSET Files]: what rsync found in GCS or has sent
    model,    \* [Runs -> [Models -> {"todo", "running", "done", "failed"}]]
    read,     \* [Runs -> [Models -> SUBSET Files]]: a running query's snapshot
    table,    \* [Models -> SUBSET Files]: what the tables reflect
    faults    \* failures so far

syncVars == <<gcs, deleted, listed, staged, sent>>
dbtVars == <<model, read, table>>
clockVars == <<age, started>>
vars == <<minio, task, retrying, syncVars, clockVars, dbtVars, faults>>

Tasks == {"idle", "mirror", "upload", "refresh", "dbt",
          "sync_again", "refresh_again", "dbt_again"}

Todo == [m \in Models |-> "todo"]
Nothing == [m \in Models |-> {}]

Init == /\ minio = {}
        /\ gcs = {}
        /\ deleted = {}
        /\ age = [f \in Files |-> 0]
        /\ started = {}
        /\ task = [r \in Runs |-> "idle"]
        /\ retrying = [r \in Runs |-> FALSE]
        /\ listed = [r \in Runs |-> {}]
        /\ staged = [r \in Runs |-> {}]
        /\ sent = [r \in Runs |-> {}]
        /\ model = [r \in Runs |-> Todo]
        /\ read = [r \in Runs |-> Nothing]
        /\ table = Nothing
        /\ faults = 0

\* The Flink job publishes a part.
Publish(f) ==
    /\ f \notin minio
    /\ minio' = minio \cup {f}
    /\ UNCHANGED <<task, retrying, syncVars, clockVars, dbtVars, faults>>

\* The script starts: a fresh staging directory, and a listing of the bucket.
BeginSync(r) ==
    /\ task' = [task EXCEPT ![r] = "mirror"]
    /\ listed' = [listed EXCEPT ![r] = minio]
    /\ UNCHANGED <<minio, gcs, deleted, staged, sent, dbtVars, faults>>

\* The script ends, one way or the other, and its trap removes the directory.
Cleanup(r) ==
    /\ staged' = [staged EXCEPT ![r] = {}]
    /\ sent' = [sent EXCEPT ![r] = {}]
    /\ UNCHANGED <<deleted, listed>>

\* The schedule is due, or somebody starts the lane by hand.
StartRun(r) ==
    /\ task[r] = "idle"
    /\ BeginSync(r)
    /\ retrying' = [retrying EXCEPT ![r] = FALSE]
    /\ started' = started \cup {r}
    /\ UNCHANGED age

\* Any failure of `mc stat` is taken for a prefix that does not exist yet: a
\* warning, and the script goes on with an empty mirror.
StatFails(r) ==
    /\ Blind
    /\ faults < MaxFaults
    /\ faults' = faults + 1
    /\ task[r] = "mirror"
    /\ staged[r] = {}
    /\ task' = [task EXCEPT ![r] = "upload"]
    /\ UNCHANGED <<minio, retrying, syncVars, clockVars, dbtVars>>

\* The mirror copies a part; it may also come across parts newer than it is.
CopyPart(r) ==
    /\ task[r] = "mirror"
    /\ \E f \in minio \ staged[r] :
          staged' = [staged EXCEPT ![r] = @ \cup {f}]
    /\ UNCHANGED <<minio, task, retrying, gcs, deleted, listed, sent, clockVars,
                   dbtVars, faults>>

\* rsync follows, which begins with a listing of its destination.
MirrorEnds(r) ==
    /\ task[r] = "mirror"
    /\ listed[r] \subseteq staged[r]
    /\ task' = [task EXCEPT ![r] = "upload"]
    /\ sent' = [sent EXCEPT ![r] = gcs]
    /\ UNCHANGED <<minio, retrying, gcs, deleted, listed, staged, clockVars,
                   dbtVars, faults>>

\* `docker run -v ${staging}:/out` names a directory of the host the daemon
\* runs on.  A script that itself runs in a container has another one of that
\* name, which stays empty; that is a warning, and the upload goes on.
Local(r) == IF r \in Shares THEN staged[r] ELSE {}

\* rsync sends one part that it has not found there.
UploadPart(r) ==
    /\ task[r] = "upload"
    /\ \E f \in Local(r) \ sent[r] :
          /\ gcs' = gcs \cup {f}
          /\ sent' = [sent EXCEPT ![r] = @ \cup {f}]
          /\ age' = [age EXCEPT ![f] = 0]
    /\ UNCHANGED <<minio, task, retrying, deleted, listed, staged, started,
                   dbtVars, faults>>

\* Mutation: rsync deletes what the staging directory does not have.
UploadEndsDeleting(r) ==
    /\ task[r] = "upload"
    /\ Local(r) \subseteq sent[r]
    /\ gcs' = Local(r)
    /\ task' = [task EXCEPT ![r] = "refresh"]
    /\ retrying' = [retrying EXCEPT ![r] = FALSE]
    /\ Cleanup(r)
    /\ UNCHANGED <<minio, clockVars, dbtVars, faults>>

UploadEnds(r) ==
    /\ task[r] = "upload"
    /\ Local(r) \subseteq sent[r]
    /\ task' = [task EXCEPT ![r] = "refresh"]
    /\ retrying' = [retrying EXCEPT ![r] = FALSE]
    /\ Cleanup(r)
    /\ UNCHANGED <<minio, gcs, clockVars, dbtVars, faults>>

\* Time passes in rounds: one is over when each run that was going on at its
\* start has ended and the scheduled ones have come round again.
Tick ==
    /\ Rule
    /\ Scheduled \subseteq started
    /\ \A r \in Runs \ started : task[r] = "idle"
    /\ started' = {}
    /\ age' = [f \in Files |-> IF f \in gcs /\ age[f] < Lifetime
                                THEN age[f] + 1 ELSE age[f]]
    /\ UNCHANGED <<minio, task, retrying, syncVars, dbtVars, faults>>

\* The rule deletes an object of 90 days, which was uploaded many rounds ago;
\* when a sync sends it again it is a new object, with an age of its own.
Expire(f) ==
    /\ Rule
    /\ f \in gcs /\ age[f] = Lifetime
    /\ gcs' = gcs \ {f}
    /\ deleted' = deleted \cup {f}
    /\ age' = [age EXCEPT ![f] = 0]
    /\ UNCHANGED <<minio, task, retrying, listed, staged, sent, started, dbtVars,
                   faults>>

BeginDbt(r) ==
    /\ task' = [task EXCEPT ![r] = "dbt"]
    /\ UNCHANGED <<minio, syncVars, dbtVars, faults>>

\* The external table is created again, over the same prefix.
RefreshTable(r) ==
    /\ r \notin Syncs
    /\ task[r] = "refresh"
    /\ BeginDbt(r)
    /\ retrying' = [retrying EXCEPT ![r] = FALSE]
    /\ UNCHANGED clockVars

\* bronze_to_gcs_and_bq.sh leaves it at that.
EndSync(r) ==
    /\ r \in Syncs
    /\ task[r] = "refresh"
    /\ task' = [task EXCEPT ![r] = "idle"]
    /\ UNCHANGED <<minio, retrying, syncVars, clockVars, dbtVars, faults>>

-----------------------------------------------------------------------------
Ready(r, m) == /\ model[r][m] = "todo"
               /\ \A k \in Refs(m) : model[r][k] = "done"

\* What a query that starts now reads.
Snapshot(m) == IF m \in Ints THEN {f \in gcs : Reader[f] = m}
                             ELSE UNION {table[k] : k \in Refs(m)}

\* Mutation: the table is dropped before it is built.
QueryAfterDrop(r, m) ==
    /\ task[r] = "dbt"
    /\ Ready(r, m)
    /\ model' = [model EXCEPT ![r][m] = "running"]
    /\ read' = [read EXCEPT ![r][m] = Snapshot(m)]
    /\ table' = [table EXCEPT ![m] = {}]
    /\ UNCHANGED <<minio, task, retrying, syncVars, clockVars, faults>>

Query(r, m) ==
    /\ task[r] = "dbt"
    /\ Ready(r, m)
    /\ model' = [model EXCEPT ![r][m] = "running"]
    /\ read' = [read EXCEPT ![r][m] = Snapshot(m)]
    /\ UNCHANGED <<minio, task, retrying, syncVars, clockVars, table, faults>>

Commit(r, m) ==
    /\ model[r][m] = "running"
    /\ model' = [model EXCEPT ![r][m] = "done"]
    /\ table' = [table EXCEPT ![m] = read[r][m]]
    /\ read' = [read EXCEPT ![r][m] = {}]
    /\ UNCHANGED <<minio, task, retrying, syncVars, clockVars, faults>>

\* A query fails; the models after it are skipped, the others go on.
QueryFails(r, m) ==
    /\ faults < MaxFaults
    /\ model[r][m] = "running"
    /\ faults' = faults + 1
    /\ model' = [model EXCEPT ![r][m] = "failed"]
    /\ read' = [read EXCEPT ![r][m] = {}]
    /\ UNCHANGED <<minio, task, retrying, syncVars, clockVars, table>>

\* `dbt build`, which a shell runs, tests a table once it is there; a test that
\* fails holds up the models after it, but the table stays.
TestFails(r, m) ==
    /\ faults < MaxFaults
    /\ model[r][m] = "running"
    /\ faults' = faults + 1
    /\ model' = [model EXCEPT ![r][m] = "failed"]
    /\ table' = [table EXCEPT ![m] = read[r][m]]
    /\ read' = [read EXCEPT ![r][m] = {}]
    /\ UNCHANGED <<minio, task, retrying, syncVars, clockVars>>

Built(r) == \A m \in Models : model[r][m] = "done"
Stuck(r) == \A m \in Models : model[r][m] # "running" /\ ~Ready(r, m)

\* The next dbt process starts from nothing.
DbtExits(r) == model' = [model EXCEPT ![r] = Todo] /\ UNCHANGED <<read, table>>

RunEnds(r) ==
    /\ task[r] = "dbt"
    /\ Built(r)
    /\ DbtExits(r)
    /\ task' = [task EXCEPT ![r] = "idle"]
    /\ UNCHANGED <<minio, retrying, syncVars, clockVars, faults>>

-----------------------------------------------------------------------------
\* Mutation: a failed run holds up the next one (depends_on_past: True).
FailForGood(r, again) ==
    /\ task' = [task EXCEPT ![r] = IF retrying[r] THEN "failed" ELSE again]
    /\ UNCHANGED <<minio, retrying, gcs, clockVars>>

\* The task failed: Airflow makes its second attempt, or the run has failed and
\* the next one knows nothing of it (depends_on_past: False).
Fail(r, again) ==
    /\ task' = [task EXCEPT ![r] = IF retrying[r] \/ r \in Syncs THEN "idle"
                                                                 ELSE again]
    /\ UNCHANGED <<minio, retrying, gcs, clockVars>>

\* Mutation: no `set -e`: the script goes on after a mirror that failed.
SyncGoesOn(r) ==
    /\ faults < MaxFaults
    /\ faults' = faults + 1
    /\ task[r] = "mirror"
    /\ task' = [task EXCEPT ![r] = "upload"]
    /\ UNCHANGED <<minio, retrying, syncVars, clockVars, dbtVars>>

\* mc or gcloud fails and `set -euo pipefail` ends the script.
SyncFails(r) ==
    /\ faults < MaxFaults
    /\ faults' = faults + 1
    /\ task[r] \in {"mirror", "upload"}
    /\ Fail(r, "sync_again")
    /\ Cleanup(r)
    /\ UNCHANGED dbtVars

RefreshFails(r) ==
    /\ faults < MaxFaults
    /\ faults' = faults + 1
    /\ task[r] = "refresh"
    /\ Fail(r, "refresh_again")
    /\ UNCHANGED <<syncVars, dbtVars>>

\* dbt gives up before its first query: no credentials, no bronze table, or
\* sources that are stale where freshness is strict.
DbtRefuses(r) ==
    /\ faults < MaxFaults
    /\ faults' = faults + 1
    /\ task[r] = "dbt"
    /\ model[r] = Todo
    /\ Fail(r, "dbt_again")
    /\ UNCHANGED <<syncVars, dbtVars>>

DbtFails(r) ==
    /\ task[r] = "dbt"
    /\ Stuck(r) /\ ~Built(r)
    /\ Fail(r, "dbt_again")
    /\ DbtExits(r)
    /\ UNCHANGED <<syncVars, faults>>

\* The retry delay is over.
Retry(r) ==
    /\ \/ task[r] = "sync_again" /\ BeginSync(r)
       \/ /\ task[r] = "refresh_again"
          /\ task' = [task EXCEPT ![r] = "refresh"]
          /\ UNCHANGED <<minio, syncVars, dbtVars, faults>>
       \/ task[r] = "dbt_again" /\ BeginDbt(r)
    /\ retrying' = [retrying EXCEPT ![r] = TRUE]
    /\ UNCHANGED clockVars

RunStep(r) == \/ CopyPart(r) \/ MirrorEnds(r) \/ UploadPart(r) \/ UploadEnds(r)
              \/ RefreshTable(r) \/ EndSync(r) \/ RunEnds(r) \/ DbtFails(r) \/ Retry(r)
              \/ \E m \in Models : Query(r, m) \/ Commit(r, m)

Next == \/ \E f \in Files : Publish(f) \/ Expire(f)
        \/ Tick
        \/ \E r \in Runs : \/ StartRun(r) \/ RunStep(r)
                           \/ StatFails(r) \/ SyncFails(r)
                           \/ RefreshFails(r) \/ DbtRefuses(r)
                           \/ \E m \in Models : QueryFails(r, m) \/ TestFails(r, m)

Spec == Init /\ [][Next]_vars

\* Where Airflow is installed on the host and has its schedule, it starts a run
\* every hour, and every run goes on until it ends or fails: scheduler, mc, rsync
\* and BigQuery get on with what they do.  Nothing promises another part, another
\* deletion, nor a run anywhere else.
FairSpec ==
    /\ Spec
    /\ \A r \in Scheduled : WF_vars(StartRun(r))
    /\ \A r \in Runs : WF_vars(RunStep(r))

-----------------------------------------------------------------------------
TypeOK ==
    /\ minio \subseteq Files
    /\ gcs \subseteq Files
    /\ deleted \subseteq Files
    /\ age \in [Files -> 0 .. Lifetime]
    /\ started \subseteq Runs
    /\ task \in [Runs -> Tasks]
    /\ retrying \in [Runs -> BOOLEAN]
    /\ listed \in [Runs -> SUBSET Files]
    /\ staged \in [Runs -> SUBSET Files]
    /\ sent \in [Runs -> SUBSET Files]
    /\ model \in [Runs -> [Models -> {"todo", "running", "done", "failed"}]]
    /\ read \in [Runs -> [Models -> SUBSET Files]]
    /\ table \in [Models -> SUBSET Files]
    /\ faults \in 0 .. MaxFaults

(***************************************************************************)
(* GCS is a replica of MinIO: whatever runs overlap, fail half way, mirror *)
(* nothing or are retried from a newer listing, it holds parts of MinIO,   *)
(* and loses one through the lifecycle rule only                           *)
(* (sync_bronze_minio_to_gcs.sh:69-117).                                   *)
(***************************************************************************)
Bronze == INSTANCE Replica WITH Items <- Files, source <- minio, copy <- gcs \cup deleted

BronzeIsReplicated == Bronze!ReplicaSafety

(***************************************************************************)
(* The mart is a replica of bronze although its tables are built one after *)
(* the other from snapshots of different moments: with one run at a time   *)
(* what it shows is one set of parts, which only grows.                    *)
(***************************************************************************)
Mart == INSTANCE Replica WITH Items <- Files, source <- gcs, copy <- table[Fct]

MartIsReplicated == Mart!ReplicaSafety

(***************************************************************************)
(* A run that has the lane to itself and succeeds has brought what MinIO   *)
(* showed when it started into the mart and the report, even if each of    *)
(* its tasks needed its retry (TESTING_README.md:325: "so silver and gold  *)
(* tables match current bronze in BigQuery").                              *)
(***************************************************************************)
GoldMatchesBronze ==
    [][\A r \in Runs : RunEnds(r) =>
          listed[r] \subseteq table[Fct] \cap table[Rpt]]_vars

(***************************************************************************)
(* A sync that succeeds without its warning (no data files under the       *)
(* staging directory) has uploaded what MinIO showed when it started       *)
(* (tickvault_minio_gcs_bq_dbt.py:5: "mirror bronze Parquet to             *)
(* gs://$GCS_BUCKET/bronze/"; sync_bronze_minio_to_gcs.sh:94-116).         *)
(***************************************************************************)
SyncDelivers ==
    [][\A r \in Runs : UploadEnds(r) /\ Local(r) # {} => listed[r] \subseteq gcs']_vars

(***************************************************************************)
(* Where Airflow runs on the host, every part MinIO shows is reported, and *)
(* reported again after every time the lifecycle rule has deleted it:      *)
(* through failures seen and unseen, failed runs, runs that overlap and    *)
(* write older results over newer ones, and runs that upload nothing       *)
(* (TESTING_README.md:325).                                                *)
(***************************************************************************)
EverythingIsReported ==
    \A f \in Files : f \in minio ~> f \in table[Rpt]

(***************************************************************************)
(* What the mart shows stays there, from some time on, unless the rule     *)
(* goes on deleting it: overlapping and failing runs alone do not keep     *)
(* taking a part out of the mart (fct_market_metrics.sql:82-92).           *)
(***************************************************************************)
OnlyTheRuleTakesBack ==
    \A f \in Files : \/ <>[](f \in minio => f \in table[Fct])
                     \/ []<><<Expire(f)>>_vars

=============================================================================
