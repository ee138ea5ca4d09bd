----------------------------- MODULE BronzeSink -----------------------------
(***************************************************************************)
(* The streaming job of src/flink_jobs/bronze_sink_job.py: four Kafka      *)
(* sources, a UNION ALL of stateless selects and one Parquet filesystem    *)
(* sink, checkpointed in AT_LEAST_ONCE mode.                               *)
(*                                                                         *)
(* The script only configures the job.  What happens after submission is   *)
(* what Flink 1.19 does with that configuration: a Parquet part file is    *)
(* closed by the rolling policy or by a checkpoint, becomes part of the    *)
(* sink's snapshot, and is published only after the checkpoint completes.  *)
(* Restoring starts from the last completed checkpoint; a new submission   *)
(* carries no state and starts from the earliest offset.                   *)
(*                                                                         *)
(* The channel between a source and the sink holds the offsets             *)
(* written .. pos-1, so two counters stand for it; a checkpoint barrier    *)
(* sits in it just before offset barrier[j][s].                            *)
(***************************************************************************)
EXTENDS Naturals

CONSTANTS Splits,      \* (topic, partition) pairs of the four source tables
          Jobs,        \* submissions of the script, in any number
          MaxOffset,   \* bound on the records produced to one split
          MaxFaults    \* bound on task failures and lost jobs

ASSUME MaxOffsetAssumption == MaxOffset \in Nat
ASSUME MaxFaultsAssumption == MaxFaults \in Nat

VARIABLES
    log,        \* [Splits -> Nat]: number of records in the broker
    status,     \* [Jobs -> {"absent", "running", "restarting", "lost"}]
    attempt,    \* [Jobs -> Nat]: executions of the job, one more per restart
    pos,        \* [Jobs -> [Splits -> Nat]]: next offset a source reads
    written,    \* [Jobs -> [Splits -> Nat]]: next offset the sink writes
    phase,      \* [Jobs -> {"idle", "barriers", "snapshot"}]: the checkpoint
    injected,   \* [Jobs -> SUBSET Splits]: sources that have snapshotted
    arrived,    \* [Jobs -> SUBSET Splits]: barriers the sink has seen
    barrier,    \* [Jobs -> [Splits -> Nat]]: offset each source snapshotted
    open,       \* [Jobs -> [Splits -> SUBSET Nat]]: rows of in-progress parts
    closed,     \* [Jobs -> SUBSET File]: parts rolled since the last snapshot
    snap,       \* [Jobs -> SUBSET File]: parts in the snapshot being taken
    done,       \* [Jobs -> [pos, files]]: last completed checkpoint
    visible,    \* SUBSET File: parts a reader of the bucket can list
    faults      \* failures so far

sourceVars == <<pos, injected, barrier>>
sinkVars   == <<written, arrived, open, closed, snap>>
vars == <<log, status, attempt, sourceVars, sinkVars, phase, done, visible,
          faults>>

Offsets == 0 .. MaxOffset - 1
Rows == Splits \X Offsets

\* A part file: the bucket it belongs to (a split's rows share their symbol
\* and exchange), who wrote it, and the offsets it holds.
File == [job : Jobs, attempt : Nat, split : Splits, rows : SUBSET Offsets]

\* No snapshot: every source at the earliest offset, nothing to publish.
Earliest == [s \in Splits |-> 0]
NoParts == [s \in Splits |-> {}]
Fresh == [pos |-> Earliest, files |-> {}]

\* The in-progress part of a bucket, closed.
Part(j, s) == [job |-> j, attempt |-> attempt[j], split |-> s,
               rows |-> open[j][s]]

Init == /\ log = Earliest
        /\ status = [j \in Jobs |-> "absent"]
        /\ attempt = [j \in Jobs |-> 0]
        /\ pos = [j \in Jobs |-> Earliest]
        /\ written = [j \in Jobs |-> Earliest]
        /\ phase = [j \in Jobs |-> "idle"]
        /\ injected = [j \in Jobs |-> {}]
        /\ arrived = [j \in Jobs |-> {}]
        /\ barrier = [j \in Jobs |-> Earliest]
        /\ open = [j \in Jobs |-> NoParts]
        /\ closed = [j \in Jobs |-> {}]
        /\ snap = [j \in Jobs |-> {}]
        /\ done = [j \in Jobs |-> Fresh]
        /\ visible = {}
        /\ faults = 0

-----------------------------------------------------------------------------
\* The producers append to a split.
Produce(s) ==
    /\ log[s] < MaxOffset
    /\ log' = [log EXCEPT ![s] = @ + 1]
    /\ UNCHANGED <<status, attempt, sourceVars, sinkVars, phase, done,
                   visible, faults>>

\* `flink run -d` of the script.  Nothing looks for a job that is already
\* running, and no savepoint is given: the sources start at earliest-offset.
Submit(j) ==
    /\ status[j] = "absent"
    /\ status' = [status EXCEPT ![j] = "running"]
    /\ UNCHANGED <<log, attempt, sourceVars, sinkVars, phase, done, visible,
                   faults>>

\* Mutation: the end of the log is not checked exactly.
ReadPastEnd(j, s) ==
    /\ status[j] = "running"
    /\ pos[j][s] <= log[s]
    /\ pos' = [pos EXCEPT ![j][s] = @ + 1]
    /\ UNCHANGED <<log, status, attempt, injected, barrier, sinkVars, phase,
                   done, visible, faults>>

\* A source emits its next record.
Read(j, s) ==
    /\ status[j] = "running"
    /\ pos[j][s] < log[s]
    /\ pos' = [pos EXCEPT ![j][s] = @ + 1]
    /\ UNCHANGED <<log, status, attempt, injected, barrier, sinkVars, phase,
                   done, visible, faults>>

\* The sink writes the row at the head of a channel to its bucket's part.  In
\* AT_LEAST_ONCE mode a channel whose barrier has arrived is not held back.
Write(j, s) ==
    /\ status[j] = "running"
    /\ written[j][s] < pos[j][s]
    /\ \/ s \notin injected[j]
       \/ s \in arrived[j]
       \/ written[j][s] < barrier[j][s]
    /\ open' = [open EXCEPT ![j][s] = @ \cup {written[j][s]}]
    /\ written' = [written EXCEPT ![j][s] = @ + 1]
    /\ UNCHANGED <<log, status, attempt, sourceVars, arrived, closed, snap,
                   phase, done, visible, faults>>

\* The rolling policy (file size, rollover interval) closes a part.
Roll(j, s) ==
    /\ status[j] = "running"
    /\ open[j][s] # {}
    /\ closed' = [closed EXCEPT ![j] = @ \cup {Part(j, s)}]
    /\ open' = [open EXCEPT ![j][s] = {}]
    /\ UNCHANGED <<log, status, attempt, sourceVars, written, arrived, snap,
                   phase, done, visible, faults>>

-----------------------------------------------------------------------------
\* The coordinator starts a checkpoint; there is never a second one under way.
TriggerCheckpoint(j) ==
    /\ status[j] = "running"
    /\ phase[j] = "idle"
    /\ phase' = [phase EXCEPT ![j] = "barriers"]
    /\ injected' = [injected EXCEPT ![j] = {}]
    /\ arrived' = [arrived EXCEPT ![j] = {}]
    /\ UNCHANGED <<log, status, attempt, pos, barrier, written, open, closed,
                   snap, done, visible, faults>>

\* A source snapshots its position and sends the barrier down its channel.
InjectBarrier(j, s) ==
    /\ status[j] = "running"
    /\ phase[j] = "barriers"
    /\ s \notin injected[j]
    /\ injected' = [injected EXCEPT ![j] = @ \cup {s}]
    /\ barrier' = [barrier EXCEPT ![j][s] = pos[j][s]]
    /\ UNCHANGED <<log, status, attempt, pos, sinkVars, phase, done, visible,
                   faults>>

\* A barrier reaches the sink.
BarrierArrives(j, s) ==
    /\ status[j] = "running"
    /\ phase[j] = "barriers"
    /\ s \in injected[j] \ arrived[j]
    /\ written[j][s] = barrier[j][s]
    /\ arrived' = [arrived EXCEPT ![j] = @ \cup {s}]
    /\ UNCHANGED <<log, status, attempt, sourceVars, written, open, closed,
                   snap, phase, done, visible, faults>>

\* Mutations of the sink's snapshot: it names only parts already rolled, it
\* leaves the closed parts open, it forgets those still to be published.
SnapshotWith(j, parts, stillOpen) ==
    /\ status[j] = "running"
    /\ phase[j] = "barriers"
    /\ arrived[j] = Splits
    /\ snap' = [snap EXCEPT ![j] = parts]
    /\ open' = [open EXCEPT ![j] = stillOpen]
    /\ closed' = [closed EXCEPT ![j] = {}]
    /\ phase' = [phase EXCEPT ![j] = "snapshot"]
    /\ UNCHANGED <<log, status, attempt, sourceVars, written, arrived, done,
                   visible, faults>>

OpenParts(j) == {Part(j, s) : s \in {t \in Splits : open[j][t] # {}}}
Pending(j) == done[j].files \ visible

SnapshotRolledOnly(j) == SnapshotWith(j, closed[j] \cup Pending(j), open[j])
SnapshotKeepsOpen(j) ==
    SnapshotWith(j, closed[j] \cup OpenParts(j) \cup Pending(j), open[j])
SnapshotForgets(j) == SnapshotWith(j, closed[j] \cup OpenParts(j), NoParts)

\* All barriers are in: a bulk format closes every part at a checkpoint, and
\* the snapshot names every closed part that is not yet published.
Snapshot(j) ==
    /\ status[j] = "running"
    /\ phase[j] = "barriers"
    /\ arrived[j] = Splits
    /\ snap' = [snap EXCEPT ![j] =
                  closed[j] \cup {Part(j, s) : s \in {t \in Splits : open[j][t] # {}}}
                            \cup (done[j].files \ visible)]
    /\ open' = [open EXCEPT ![j] = NoParts]
    /\ closed' = [closed EXCEPT ![j] = {}]
    /\ phase' = [phase EXCEPT ![j] = "snapshot"]
    /\ UNCHANGED <<log, status, attempt, sourceVars, written, arrived, done,
                   visible, faults>>

\* Every acknowledgement is in: this is now the checkpoint to restore from.
CompleteCheckpoint(j) ==
    /\ status[j] = "running"
    /\ phase[j] = "snapshot"
    /\ done' = [done EXCEPT ![j] = [pos |-> barrier[j], files |-> snap[j]]]
    /\ snap' = [snap EXCEPT ![j] = {}]
    /\ phase' = [phase EXCEPT ![j] = "idle"]
    /\ injected' = [injected EXCEPT ![j] = {}]
    /\ arrived' = [arrived EXCEPT ![j] = {}]
    /\ UNCHANGED <<log, status, attempt, pos, barrier, written, open, closed,
                   visible, faults>>

\* Mutation: a submission's part files have the names of an earlier one's.
CommitOverwriting(j) ==
    /\ status[j] \in {"running", "restarting"}
    /\ \E f \in done[j].files \ visible :
          visible' = {g \in visible : g.job = j} \cup {f}
    /\ UNCHANGED <<log, status, attempt, sourceVars, sinkVars, phase, done,
                   faults>>

\* A part of a completed checkpoint is published, one upload at a time: on
\* the completion notice, or again by a restarting sink.
CommitPart(j) ==
    /\ status[j] \in {"running", "restarting"}
    /\ \E f \in done[j].files \ visible : visible' = visible \cup {f}
    /\ UNCHANGED <<log, status, attempt, sourceVars, sinkVars, phase, done,
                   faults>>

-----------------------------------------------------------------------------
\* What a failed execution held in memory or in unfinished uploads is gone.
DropExecution(j) ==
    /\ phase' = [phase EXCEPT ![j] = "idle"]
    /\ injected' = [injected EXCEPT ![j] = {}]
    /\ arrived' = [arrived EXCEPT ![j] = {}]
    /\ open' = [open EXCEPT ![j] = NoParts]
    /\ closed' = [closed EXCEPT ![j] = {}]
    /\ snap' = [snap EXCEPT ![j] = {}]
    /\ faults' = faults + 1

\* A task fails: the job restarts (the default strategy never gives up).
FailTask(j) ==
    /\ faults < MaxFaults
    /\ status[j] = "running"
    /\ status' = [status EXCEPT ![j] = "restarting"]
    /\ DropExecution(j)
    /\ UNCHANGED <<log, attempt, pos, barrier, written, done, visible>>

\* Mutation: scan.startup.mode also applies to a restored job.
RestoreFromEarliest(j) ==
    /\ status[j] = "restarting"
    /\ done[j].files \subseteq visible
    /\ status' = [status EXCEPT ![j] = "running"]
    /\ attempt' = [attempt EXCEPT ![j] = @ + 1]
    /\ pos' = [pos EXCEPT ![j] = Earliest]
    /\ written' = [written EXCEPT ![j] = Earliest]
    /\ UNCHANGED <<log, injected, barrier, arrived, open, closed, snap, phase,
                   done, visible, faults>>

\* The restored execution has published the checkpoint's parts before it reads.
Restore(j) ==
    /\ status[j] = "restarting"
    /\ done[j].files \subseteq visible
    /\ status' = [status EXCEPT ![j] = "running"]
    /\ attempt' = [attempt EXCEPT ![j] = @ + 1]
    /\ pos' = [pos EXCEPT ![j] = done[j].pos]
    /\ written' = [written EXCEPT ![j] = done[j].pos]
    /\ UNCHANGED <<log, injected, barrier, arrived, open, closed, snap, phase,
                   done, visible, faults>>

\* The job manager container goes away.  There is no high-availability store,
\* so the job is forgotten and its checkpoint is never restored.
LoseJob(j) ==
    /\ faults < MaxFaults
    /\ status[j] \in {"running", "restarting"}
    /\ status' = [status EXCEPT ![j] = "lost"]
    /\ DropExecution(j)
    /\ UNCHANGED <<log, attempt, pos, barrier, written, done, visible>>

JobStep(j) ==
    \/ \E s \in Splits : \/ Read(j, s) \/ Write(j, s) \/ Roll(j, s)
                         \/ InjectBarrier(j, s) \/ BarrierArrives(j, s)
    \/ TriggerCheckpoint(j) \/ Snapshot(j) \/ CompleteCheckpoint(j)
    \/ CommitPart(j) \/ Restore(j)

Next == \/ \E s \in Splits : Produce(s)
        \/ \E j \in Jobs : \/ Submit(j) \/ JobStep(j)
                           \/ FailTask(j) \/ LoseJob(j)

Spec == Init /\ [][Next]_vars

\* Flink keeps every task of a scheduled job stepping, triggers checkpoints
\* at execution.checkpointing.interval and restarts a failed job.  Nothing
\* makes an operator submit, and nothing promises a roll between checkpoints.
JobFairness(j) ==
    /\ \A s \in Splits : /\ WF_vars(Read(j, s))
                         /\ WF_vars(Write(j, s))
                         /\ WF_vars(InjectBarrier(j, s))
                         /\ WF_vars(BarrierArrives(j, s))
    /\ WF_vars(TriggerCheckpoint(j))
    /\ WF_vars(Snapshot(j))
    /\ WF_vars(CompleteCheckpoint(j))
    /\ WF_vars(CommitPart(j))
    /\ WF_vars(Restore(j))

FairSpec == Spec /\ \A j \in Jobs : JobFairness(j)

-----------------------------------------------------------------------------
TypeOK ==
    /\ log \in [Splits -> 0 .. MaxOffset]
    /\ status \in [Jobs -> {"absent", "running", "restarting", "lost"}]
    /\ attempt \in [Jobs -> Nat]
    /\ pos \in [Jobs -> [Splits -> 0 .. MaxOffset]]
    /\ written \in [Jobs -> [Splits -> 0 .. MaxOffset]]
    /\ phase \in [Jobs -> {"idle", "barriers", "snapshot"}]
    /\ injected \in [Jobs -> SUBSET Splits]
    /\ arrived \in [Jobs -> SUBSET Splits]
    /\ barrier \in [Jobs -> [Splits -> 0 .. MaxOffset]]
    /\ open \in [Jobs -> [Splits -> SUBSET Offsets]]
    /\ closed \in [Jobs -> SUBSET File]
    /\ snap \in [Jobs -> SUBSET File]
    /\ done \in [Jobs -> [pos : [Splits -> 0 .. MaxOffset], files : SUBSET File]]
    /\ visible \subseteq File
    /\ faults \in 0 .. MaxFaults

\* Some part of job j among files holds row <<s, o>>.
Holds(files, j, s, o) ==
    \E f \in files : f.job = j /\ f.split = s /\ o \in f.rows

\* The parts job j still knows of, and those it has published.
Parts(j) == closed[j] \cup snap[j] \cup done[j].files \cup visible

(***************************************************************************)
(* No restore skips a row: whatever a completed checkpoint's positions     *)
(* have moved past is published, or named by that same checkpoint so that  *)
(* the restored sink publishes it first.  The sources, the unaligned       *)
(* barriers, the sink's snapshot and the part-by-part commit have to agree *)
(* for this to hold (checkpointing: bronze_sink_job.py:37-39).             *)
(***************************************************************************)
CheckpointCovers ==
    \A j \in Jobs, s \in Splits :
        \A o \in Offsets : o < done[j].pos[s] =>
            Holds(visible \cup done[j].files, j, s, o)

(***************************************************************************)
(* One execution of the job archives a row in at most one part file, even  *)
(* though rows behind a barrier are written early and a part may be rolled *)
(* between two checkpoints.  So duplicates in bronze come only from a      *)
(* restart or from a second submission.                                    *)
(***************************************************************************)
OncePerAttempt ==
    \A f, g \in visible :
        /\ f.job = g.job /\ f.attempt = g.attempt /\ f.split = g.split
        /\ f.rows \cap g.rows # {}
        => f = g

(***************************************************************************)
(* A row a restart may archive again is one the last completed checkpoint  *)
(* had not covered: the running sink is never behind that checkpoint, nor  *)
(* is a barrier on its way, so a replay goes back to it and no further.    *)
(***************************************************************************)
ReplayBounded ==
    \A j \in Jobs, s \in Splits :
        status[j] = "running" =>
            /\ done[j].pos[s] <= written[j][s]
            /\ phase[j] # "idle" /\ s \in injected[j] =>
                    done[j].pos[s] <= barrier[j][s]

(***************************************************************************)
(* The position a restart would resume from never moves back.              *)
(***************************************************************************)
CheckpointsAdvance ==
    [][\A j \in Jobs, s \in Splits : done[j].pos[s] <= done'[j].pos[s]]_vars

(***************************************************************************)
(* The job implements the archive: what a reader of the bucket sees is a   *)
(* growing set of produced rows, and a row the broker holds is eventually  *)
(* seen unless no job is left to write it.                                 *)
(***************************************************************************)
Archived == {r \in Rows : \E f \in visible : f.split = r[1] /\ r[2] \in f.rows}
Serving == \E j \in Jobs : status[j] \in {"running", "restarting"}

Archive == INSTANCE BronzeArchive WITH archived <- Archived, serving <- Serving

ImplementsArchive == Archive!ArchiveSafety
EventuallyArchived == Archive!EventuallyArchived

=============================================================================
