------------------------- MODULE BronzeSinkProofs -------------------------
(***************************************************************************)
(* Theorems about BronzeSink, for every set of splits and of jobs and for  *)
(* every value of the bounds.                                              *)
(***************************************************************************)
EXTENDS BronzeSink, TLAPS

\* Every step is one of the actions, for the case splits below.
LEMMA NextCases ==
    ASSUME Next
    PROVE \/ \E s \in Splits : Produce(s)
          \/ \E j \in Jobs : Submit(j)
          \/ \E j \in Jobs, s \in Splits : Read(j, s)
          \/ \E j \in Jobs, s \in Splits : Write(j, s)
          \/ \E j \in Jobs, s \in Splits : Roll(j, s)
          \/ \E j \in Jobs : TriggerCheckpoint(j)
          \/ \E j \in Jobs, s \in Splits : InjectBarrier(j, s)
          \/ \E j \in Jobs, s \in Splits : BarrierArrives(j, s)
          \/ \E j \in Jobs : Snapshot(j)
          \/ \E j \in Jobs : CompleteCheckpoint(j)
          \/ \E j \in Jobs : CommitPart(j)
          \/ \E j \in Jobs : FailTask(j)
          \/ \E j \in Jobs : Restore(j)
          \/ \E j \in Jobs : LoseJob(j)
BY Zenon DEF Next, JobStep

\* A closed part is a part file.
LEMMA PartType ==
    ASSUME TypeOK, NEW j \in Jobs, NEW s \in Splits
    PROVE Part(j, s) \in File
BY DEF TypeOK, Part, File

\* What a closed part says of itself.
LEMMA PartFields ==
    ASSUME NEW j, NEW s
    PROVE Part(j, s).job = j /\ Part(j, s).split = s /\ Part(j, s).rows = open[j][s]
BY DEF Part

\* More parts hold more rows.
LEMMA HoldsMonotone ==
    ASSUME NEW A, NEW B, A \subseteq B, NEW j, NEW s, NEW o, Holds(A, j, s, o)
    PROVE Holds(B, j, s, o)
BY DEF Holds

-----------------------------------------------------------------------------
\* A cluster with no job yet has the types.
LEMMA TypeInit == Init => TypeOK
BY MaxOffsetAssumption, MaxFaultsAssumption
   DEF Init, TypeOK, Earliest, NoParts, Fresh

\* Every step keeps the types.
LEMMA TypeStep == TypeOK /\ [Next]_vars => TypeOK'
<1> SUFFICES ASSUME TypeOK, [Next]_vars PROVE TypeOK'
  OBVIOUS
<1> USE MaxOffsetAssumption, MaxFaultsAssumption DEF sourceVars, sinkVars
<1>0. CASE UNCHANGED vars
  BY <1>0 DEF vars, TypeOK
<1>1. CASE \E s \in Splits : Produce(s)
  BY <1>1 DEF Produce, TypeOK
<1>2. CASE \E j \in Jobs : Submit(j)
  BY <1>2 DEF Submit, TypeOK
<1>3. CASE \E j \in Jobs, s \in Splits : Read(j, s)
  <2> PICK j \in Jobs, s \in Splits : Read(j, s)
    BY <1>3
  <2>1. pos[j][s] \in 0 .. MaxOffset /\ log[s] \in 0 .. MaxOffset
    BY DEF TypeOK
  <2>2. pos[j][s] + 1 \in 0 .. MaxOffset
    BY <2>1 DEF Read
  <2> QED BY <2>2 DEF Read, TypeOK
<1>4. CASE \E j \in Jobs, s \in Splits : Write(j, s)
  <2> PICK j \in Jobs, s \in Splits : Write(j, s)
    BY <1>4
  <2>1. pos[j][s] \in 0 .. MaxOffset /\ written[j][s] \in 0 .. MaxOffset
    BY DEF TypeOK
  <2>2. written[j][s] \in Offsets /\ written[j][s] + 1 \in 0 .. MaxOffset
    BY <2>1 DEF Write, Offsets
  <2> QED BY <2>2 DEF Write, TypeOK
<1>5. CASE \E j \in Jobs, s \in Splits : Roll(j, s)
  BY <1>5, PartType DEF Roll, TypeOK
<1>6. CASE \E j \in Jobs : TriggerCheckpoint(j)
  BY <1>6 DEF TriggerCheckpoint, TypeOK
<1>7. CASE \E j \in Jobs, s \in Splits : InjectBarrier(j, s)
  BY <1>7 DEF InjectBarrier, TypeOK
<1>8. CASE \E j \in Jobs, s \in Splits : BarrierArrives(j, s)
  BY <1>8 DEF BarrierArrives, TypeOK
<1>9. CASE \E j \in Jobs : Snapshot(j)
  <2> PICK j \in Jobs : Snapshot(j)
    BY <1>9
  <2>1. {Part(j, s) : s \in {t \in Splits : open[j][t] # {}}} \subseteq File
    BY PartType
  <2> QED BY <2>1 DEF Snapshot, TypeOK, NoParts
<1>10. CASE \E j \in Jobs : CompleteCheckpoint(j)
  BY <1>10 DEF CompleteCheckpoint, TypeOK
<1>11. CASE \E j \in Jobs : CommitPart(j)
  BY <1>11 DEF CommitPart, TypeOK
<1>12. CASE \E j \in Jobs : FailTask(j)
  BY <1>12 DEF FailTask, DropExecution, TypeOK, NoParts
<1>13. CASE \E j \in Jobs : Restore(j)
  BY <1>13 DEF Restore, TypeOK
<1>14. CASE \E j \in Jobs : LoseJob(j)
  BY <1>14 DEF LoseJob, DropExecution, TypeOK, NoParts
<1> QED
  BY NextCases, <1>0, <1>1, <1>2, <1>3, <1>4, <1>5, <1>6, <1>7, <1>8, <1>9,
     <1>10, <1>11, <1>12, <1>13, <1>14

\* Type correctness: the variables keep their types (bronze_sink_job.py, the
\* whole job).
THEOREM TypeCorrect == Spec => []TypeOK
<1>1. Init => TypeOK
  BY TypeInit
<1> QED
  BY <1>1, TypeStep, PTL DEF Spec

-----------------------------------------------------------------------------
(***************************************************************************)
(* The strengthening of CheckpointCovers that the steps preserve.          *)
(***************************************************************************)

\* Volatile state belongs to a running job; a checkpoint's sets fit its phase.
PhaseInv(j) ==
    /\ status[j] # "running" => /\ phase[j] = "idle"
                                /\ open[j] = NoParts
                                /\ closed[j] = {}
                                /\ snap[j] = {}
    /\ status[j] = "absent" => /\ pos[j] = Earliest
                               /\ written[j] = Earliest
                               /\ done[j] = Fresh
    /\ phase[j] = "idle" => injected[j] = {}
    /\ phase[j] # "snapshot" => snap[j] = {}
    /\ arrived[j] \subseteq injected[j]
    /\ phase[j] = "snapshot" => arrived[j] = Splits

\* Checkpointed position, barrier, sink, source and log end stand in order.
PositionInv(j) ==
    \A s \in Splits :
        /\ done[j].pos[s] <= log[s]
        /\ pos[j][s] <= log[s]
        /\ status[j] = "running" => /\ done[j].pos[s] <= written[j][s]
                                    /\ written[j][s] <= pos[j][s]
        /\ s \in injected[j] => /\ done[j].pos[s] <= barrier[j][s]
                                /\ barrier[j][s] <= pos[j][s]
        /\ s \in arrived[j] => barrier[j][s] <= written[j][s]

\* What the sink has written is in an in-progress part or in a closed one.
WrittenInv(j) ==
    status[j] = "running" =>
        \A s \in Splits : \A o \in Offsets : o < written[j][s] =>
            o \in open[j][s] \/ Holds(Parts(j), j, s, o)

\* A snapshot covers its barriers before it is complete, and takes over what
\* the previous one has not published.
SnapshotInv(j) ==
    phase[j] = "snapshot" =>
        /\ done[j].files \subseteq visible \cup snap[j]
        /\ \A s \in Splits : \A o \in Offsets : o < barrier[j][s] =>
               Holds(visible \cup snap[j], j, s, o)

CoverInv == /\ TypeOK
            /\ CheckpointCovers
            /\ \A j \in Jobs : /\ PhaseInv(j)
                               /\ PositionInv(j)
                               /\ WrittenInv(j)
                               /\ SnapshotInv(j)

(***************************************************************************)
(* The strengthening of OncePerAttempt, over the parts a job may publish.  *)
(***************************************************************************)

\* A job's parts are its own.
OwnInv(j) == \A f \in closed[j] \cup snap[j] \cup done[j].files : f.job = j

\* Rows in parts were produced, and rows in progress were just written.
ProducedInv(j) ==
    /\ \A f \in Parts(j) : \A o \in f.rows : o < log[f.split]
    /\ \A s \in Splits : \A o \in open[j][s] : o < written[j][s]

\* The current execution's parts hold rows already written and not in progress.
CurrentInv(j) ==
    /\ status[j] = "absent" => \A f \in visible : f.job # j
    /\ \A f \in Parts(j) : f.job = j =>
         /\ f.attempt <= attempt[j]
         /\ f.attempt = attempt[j] /\ status[j] = "running" =>
              \A o \in f.rows : o < written[j][f.split] /\ o \notin open[j][f.split]

\* One execution's parts are disjoint.
DisjointInv(j) ==
    \A f, g \in Parts(j) :
        /\ f.job = j /\ g.job = j
        /\ f.attempt = g.attempt /\ f.split = g.split
        /\ f.rows \cap g.rows # {}
        => f = g

PartsInv == /\ CoverInv
            /\ \A j \in Jobs : /\ OwnInv(j)
                               /\ ProducedInv(j)
                               /\ CurrentInv(j)
                               /\ DisjointInv(j)

\* A checkpoint's phase and its sets stay in step, and a failed or lost
\* execution leaves nothing behind (bronze_sink_job.py:36-39).
LEMMA PhaseStep ==
    ASSUME CoverInv, TypeOK', [Next]_vars, NEW k \in Jobs
    PROVE PhaseInv(k)'
<1>0. CASE UNCHANGED vars
  BY <1>0 DEF vars, sourceVars, sinkVars, CoverInv, PhaseInv
<1>1. CASE \E s \in Splits : Produce(s)
  BY <1>1 DEF Produce, sourceVars, sinkVars, CoverInv, PhaseInv
<1>2. CASE \E j \in Jobs : Submit(j)
  BY <1>2 DEF Submit, sourceVars, sinkVars, CoverInv, PhaseInv
<1>3. CASE \E j \in Jobs, s \in Splits : Read(j, s)
  BY <1>3 DEF Read, sinkVars, CoverInv, PhaseInv
<1>4. CASE \E j \in Jobs, s \in Splits : Write(j, s)
  <2> PICK j \in Jobs, s \in Splits : Write(j, s)
    BY <1>4
  <2>1. CASE k = j
    BY <2>1 DEF Write, sourceVars, CoverInv, PhaseInv
  <2>2. CASE k # j
    BY <2>2 DEF Write, sourceVars, CoverInv, PhaseInv
  <2> QED BY <2>1, <2>2
<1>5. CASE \E j \in Jobs, s \in Splits : Roll(j, s)
  <2> PICK j \in Jobs, s \in Splits : Roll(j, s)
    BY <1>5
  <2>1. CASE k = j
    BY <2>1 DEF Roll, sourceVars, CoverInv, PhaseInv
  <2>2. CASE k # j
    BY <2>2 DEF Roll, sourceVars, CoverInv, PhaseInv
  <2> QED BY <2>1, <2>2
<1>6. CASE \E j \in Jobs : TriggerCheckpoint(j)
  BY <1>6 DEF TriggerCheckpoint, CoverInv, PhaseInv
<1>7. CASE \E j \in Jobs, s \in Splits : InjectBarrier(j, s)
  BY <1>7 DEF InjectBarrier, sinkVars, CoverInv, PhaseInv
<1>8. CASE \E j \in Jobs, s \in Splits : BarrierArrives(j, s)
  BY <1>8 DEF BarrierArrives, sourceVars, CoverInv, PhaseInv
<1>9. CASE \E j \in Jobs : Snapshot(j)
  <2> PICK j \in Jobs : Snapshot(j)
    BY <1>9
  <2>1. CASE k = j
    BY <2>1 DEF Snapshot, sourceVars, CoverInv, PhaseInv, TypeOK
  <2>2. CASE k # j
    BY <2>2 DEF Snapshot, sourceVars, CoverInv, PhaseInv
  <2> QED BY <2>1, <2>2
<1>10. CASE \E j \in Jobs : CompleteCheckpoint(j)
  <2> PICK j \in Jobs : CompleteCheckpoint(j)
    BY <1>10
  <2>1. CASE k = j
    BY <2>1 DEF CompleteCheckpoint, CoverInv, PhaseInv, TypeOK
  <2>2. CASE k # j
    BY <2>2 DEF CompleteCheckpoint, CoverInv, PhaseInv
  <2> QED BY <2>1, <2>2
<1>11. CASE \E j \in Jobs : CommitPart(j)
  BY <1>11 DEF CommitPart, sourceVars, sinkVars, CoverInv, PhaseInv
<1>12. CASE \E j \in Jobs : FailTask(j)
  BY <1>12 DEF FailTask, DropExecution, CoverInv, PhaseInv, TypeOK
<1>13. CASE \E j \in Jobs : Restore(j)
  BY <1>13 DEF Restore, CoverInv, PhaseInv
<1>14. CASE \E j \in Jobs : LoseJob(j)
  BY <1>14 DEF LoseJob, DropExecution, CoverInv, PhaseInv, TypeOK
<1> QED
  BY NextCases, <1>0, <1>1, <1>2, <1>3, <1>4, <1>5, <1>6, <1>7, <1>8, <1>9,
     <1>10, <1>11, <1>12, <1>13, <1>14

\* No row the sink has written is mislaid between the in-progress parts, the
\* rolled ones, the snapshot, the checkpoint and the bucket.
LEMMA WrittenStep ==
    ASSUME CoverInv, TypeOK', [Next]_vars, NEW k \in Jobs
    PROVE WrittenInv(k)'
<1>a. ASSUME status'[k] = status[k], written'[k] = written[k],
             open'[k] = open[k], Parts(k) \subseteq Parts(k)'
      PROVE WrittenInv(k)'
  <2>1. \A s \in Splits, o \in Offsets :
            Holds(Parts(k), k, s, o) => Holds(Parts(k)', k, s, o)
    BY <1>a, HoldsMonotone
  <2>2. WrittenInv(k)
    BY DEF CoverInv
  <2> QED BY <1>a, <2>1, <2>2 DEF WrittenInv
<1>b. ASSUME NEW j \in Jobs, k # j,
             \A i \in Jobs : i # j => /\ status'[i] = status[i]
                                     /\ written'[i] = written[i]
                                     /\ open'[i] = open[i]
                                     /\ closed'[i] = closed[i]
                                     /\ snap'[i] = snap[i]
                                     /\ done'[i] = done[i],
             visible \subseteq visible'
      PROVE WrittenInv(k)'
  BY <1>a, <1>b DEF Parts
<1>0. CASE UNCHANGED vars
  BY <1>0, <1>a DEF vars, sinkVars, Parts
<1>1. CASE \E s \in Splits : Produce(s)
  BY <1>1, <1>a DEF Produce, sinkVars, Parts
<1>2. CASE \E j \in Jobs : Submit(j)
  <2> PICK j \in Jobs : Submit(j)
    BY <1>2
  <2>1. CASE k = j
    <3>1. written'[k] = Earliest
      BY <2>1 DEF Submit, sinkVars, CoverInv, PhaseInv
    <3> QED BY <3>1 DEF WrittenInv, Earliest, Offsets
  <2>2. CASE k # j
    BY <2>2, <1>b DEF Submit, sinkVars, CoverInv
  <2> QED BY <2>1, <2>2
<1>3. CASE \E j \in Jobs, s \in Splits : Read(j, s)
  BY <1>3, <1>a DEF Read, sinkVars, Parts
<1>4. CASE \E j \in Jobs, s \in Splits : Write(j, s)
  <2> PICK j \in Jobs, s \in Splits : Write(j, s)
    BY <1>4
  <2>1. Parts(k)' = Parts(k)
    BY DEF Write, Parts
  <2>2. ASSUME status[k] = "running", NEW t \in Splits, NEW o \in Offsets,
               o < written'[k][t]
        PROVE o \in open'[k][t] \/ Holds(Parts(k), k, t, o)
    <3>1. CASE o < written[k][t]
      <4>1. o \in open[k][t] \/ Holds(Parts(k), k, t, o)
        BY <3>1, <2>2 DEF CoverInv, WrittenInv
      <4>2. open[k][t] \subseteq open'[k][t]
        BY DEF Write, CoverInv, TypeOK
      <4> QED BY <4>1, <4>2
    <3>2. CASE ~(o < written[k][t])
      <4>1. k = j /\ t = s
        BY <3>2, <2>2 DEF Write, CoverInv, TypeOK
      <4>2. written'[j][s] = written[j][s] + 1 /\ written[j][s] \in Nat
        BY DEF Write, CoverInv, TypeOK
      <4>3. o \in Nat
        BY DEF Offsets
      <4>4. o = written[j][s]
        BY <3>2, <4>1, <4>2, <4>3, <2>2
      <4> QED BY <4>1, <4>4 DEF Write, CoverInv, TypeOK
    <3> QED BY <3>1, <3>2
  <2>3. status' = status
    BY DEF Write
  <2> QED BY <2>1, <2>2, <2>3 DEF WrittenInv, Holds
<1>5. CASE \E j \in Jobs, s \in Splits : Roll(j, s)
  <2> PICK j \in Jobs, s \in Splits : Roll(j, s)
    BY <1>5
  <2>1. CASE k = j
    <3>1. Parts(k)' = Parts(k) \cup {Part(j, s)}
      BY <2>1 DEF Roll, CoverInv, TypeOK, Parts
    <3>2. \A t \in Splits : t # s => open'[k][t] = open[k][t]
      BY <2>1 DEF Roll, CoverInv, TypeOK
    <3>3. \A o \in open[k][s] : Holds(Parts(k)', k, s, o)
      BY <2>1, <3>1, PartFields DEF Holds
    <3>4. status' = status /\ written' = written
      BY DEF Roll
    <3> QED BY <3>1, <3>2, <3>3, <3>4 DEF CoverInv, WrittenInv, Holds
  <2>2. CASE k # j
    BY <2>2, <1>b DEF Roll, CoverInv, TypeOK
  <2> QED BY <2>1, <2>2
<1>6. CASE \E j \in Jobs : TriggerCheckpoint(j)
  BY <1>6, <1>a DEF TriggerCheckpoint, Parts
<1>7. CASE \E j \in Jobs, s \in Splits : InjectBarrier(j, s)
  BY <1>7, <1>a DEF InjectBarrier, sinkVars, Parts
<1>8. CASE \E j \in Jobs, s \in Splits : BarrierArrives(j, s)
  BY <1>8, <1>a DEF BarrierArrives, Parts
<1>9. CASE \E j \in Jobs : Snapshot(j)
  <2> PICK j \in Jobs : Snapshot(j)
    BY <1>9
  <2>1. CASE k = j
    <3>1. \A s \in Splits : open[j][s] # {} => Part(j, s) \in snap'[j]
      BY DEF Snapshot, CoverInv, TypeOK
    <3>2. \A s \in Splits : \A o \in open[j][s] : Holds(Parts(j)', j, s, o)
      BY <3>1, PartFields DEF Holds, Parts
    <3>3. snap[j] = {}
      BY DEF Snapshot, CoverInv, PhaseInv
    <3>4. Parts(j) \subseteq Parts(j)'
      BY <3>3 DEF Snapshot, CoverInv, TypeOK, Parts
    <3>5. status' = status /\ written' = written
      BY DEF Snapshot
    <3> QED BY <2>1, <3>2, <3>4, <3>5 DEF CoverInv, WrittenInv, Holds
  <2>2. CASE k # j
    BY <2>2, <1>b DEF Snapshot, CoverInv, TypeOK
  <2> QED BY <2>1, <2>2
<1>10. CASE \E j \in Jobs : CompleteCheckpoint(j)
  <2> PICK j \in Jobs : CompleteCheckpoint(j)
    BY <1>10
  <2>1. CASE k = j
    <3>1. done[j].files \subseteq visible \cup snap[j]
      BY DEF CompleteCheckpoint, CoverInv, SnapshotInv
    <3>2. done'[j].files = snap[j] /\ visible' = visible /\ closed' = closed
      BY DEF CompleteCheckpoint, CoverInv, TypeOK
    <3>3. Parts(k) \subseteq Parts(k)'
      BY <2>1, <3>1, <3>2 DEF Parts
    <3> QED BY <3>3, <1>a DEF CompleteCheckpoint
  <2>2. CASE k # j
    BY <2>2, <1>b DEF CompleteCheckpoint, CoverInv, TypeOK
  <2> QED BY <2>1, <2>2
<1>11. CASE \E j \in Jobs : CommitPart(j)
  BY <1>11, <1>a DEF CommitPart, sinkVars, Parts
<1>12. CASE \E j \in Jobs : FailTask(j)
  <2> PICK j \in Jobs : FailTask(j)
    BY <1>12
  <2>1. k = j => status'[k] # "running"
    BY DEF FailTask, CoverInv, TypeOK
  <2>2. CASE k # j
    BY <2>2, <1>b DEF FailTask, DropExecution, CoverInv
  <2> QED BY <2>1, <2>2 DEF WrittenInv
<1>13. CASE \E j \in Jobs : Restore(j)
  <2> PICK j \in Jobs : Restore(j)
    BY <1>13
  <2>1. CASE k = j
    <3>1. visible \cup done[j].files \subseteq Parts(k)'
      BY <2>1 DEF Restore, sinkVars, Parts
    <3>2. written'[k] = done[j].pos
      BY <2>1 DEF Restore, CoverInv, TypeOK
    <3> QED
      BY <2>1, <3>1, <3>2 DEF CoverInv, CheckpointCovers, WrittenInv, Holds
  <2>2. CASE k # j
    BY <2>2, <1>b DEF Restore, CoverInv, TypeOK
  <2> QED BY <2>1, <2>2
<1>14. CASE \E j \in Jobs : LoseJob(j)
  <2> PICK j \in Jobs : LoseJob(j)
    BY <1>14
  <2>1. k = j => status'[k] # "running"
    BY DEF LoseJob, CoverInv, TypeOK
  <2>2. CASE k # j
    BY <2>2, <1>b DEF LoseJob, DropExecution, CoverInv
  <2> QED BY <2>1, <2>2 DEF WrittenInv
<1> QED
  BY NextCases, <1>0, <1>1, <1>2, <1>3, <1>4, <1>5, <1>6, <1>7, <1>8, <1>9,
     <1>10, <1>11, <1>12, <1>13, <1>14

\* The unaligned barriers and the cut of the parts agree: rows behind a
\* barrier are in the snapshot, and so is what is still to be published.
LEMMA SnapshotStep ==
    ASSUME CoverInv, TypeOK', [Next]_vars, NEW k \in Jobs
    PROVE SnapshotInv(k)'
<1>0. CASE UNCHANGED vars
  BY <1>0 DEF vars, sourceVars, sinkVars, CoverInv, SnapshotInv
<1>1. CASE \E s \in Splits : Produce(s)
  BY <1>1 DEF Produce, sourceVars, sinkVars, CoverInv, SnapshotInv
<1>2. CASE \E j \in Jobs : Submit(j)
  BY <1>2 DEF Submit, sourceVars, sinkVars, CoverInv, SnapshotInv
<1>3. CASE \E j \in Jobs, s \in Splits : Read(j, s)
  BY <1>3 DEF Read, sinkVars, CoverInv, SnapshotInv
<1>4. CASE \E j \in Jobs, s \in Splits : Write(j, s)
  BY <1>4 DEF Write, sourceVars, CoverInv, SnapshotInv
<1>5. CASE \E j \in Jobs, s \in Splits : Roll(j, s)
  BY <1>5 DEF Roll, sourceVars, CoverInv, SnapshotInv
<1>6. CASE \E j \in Jobs : TriggerCheckpoint(j)
  BY <1>6 DEF TriggerCheckpoint, CoverInv, SnapshotInv, Holds
<1>7. CASE \E j \in Jobs, s \in Splits : InjectBarrier(j, s)
  BY <1>7 DEF InjectBarrier, sinkVars, CoverInv, SnapshotInv, Holds
<1>8. CASE \E j \in Jobs, s \in Splits : BarrierArrives(j, s)
  BY <1>8 DEF BarrierArrives, sourceVars, CoverInv, SnapshotInv
<1>9. CASE \E j \in Jobs : Snapshot(j)
  <2> PICK j \in Jobs : Snapshot(j)
    BY <1>9
  <2>1. CASE k = j
    <3> DEFINE cut == {Part(j, s) : s \in {t \in Splits : open[j][t] # {}}}
    <3>1. snap'[j] = closed[j] \cup cut \cup (done[j].files \ visible)
      BY DEF Snapshot, CoverInv, TypeOK
    <3>2. ASSUME NEW s \in Splits, NEW o \in Offsets, o < barrier[j][s]
          PROVE Holds(visible \cup snap'[j], j, s, o)
      <4>1. o < written[j][s]
        BY <3>2 DEF Snapshot, CoverInv, PositionInv, TypeOK, Offsets
      <4>2. o \in open[j][s] \/ Holds(Parts(j), j, s, o)
        BY <4>1 DEF Snapshot, CoverInv, WrittenInv
      <4>3. CASE o \in open[j][s]
        <5>1. Part(j, s) \in snap'[j]
          BY <3>1, <4>3
        <5> QED BY <4>3, <5>1 DEF Holds, Part
      <4>4. CASE Holds(Parts(j), j, s, o)
        <5>1. snap[j] = {}
          BY DEF Snapshot, CoverInv, PhaseInv
        <5>2. Parts(j) \subseteq visible \cup snap'[j]
          BY <3>1, <5>1 DEF Parts
        <5> QED BY <4>4, <5>2 DEF Holds
      <4> QED BY <4>2, <4>3, <4>4
    <3>3. done'[j].files \subseteq visible \cup snap'[j]
      BY <3>1 DEF Snapshot
    <3>4. visible' = visible /\ barrier' = barrier
      BY DEF Snapshot, sourceVars
    <3> QED BY <2>1, <3>2, <3>3, <3>4 DEF SnapshotInv
  <2>2. CASE k # j
    BY <2>2 DEF Snapshot, sourceVars, CoverInv, SnapshotInv
  <2> QED BY <2>1, <2>2
<1>10. CASE \E j \in Jobs : CompleteCheckpoint(j)
  BY <1>10 DEF CompleteCheckpoint, CoverInv, SnapshotInv, TypeOK, Holds
<1>11. CASE \E j \in Jobs : CommitPart(j)
  BY <1>11 DEF CommitPart, sourceVars, sinkVars, CoverInv, SnapshotInv, Holds
<1>12. CASE \E j \in Jobs : FailTask(j)
  BY <1>12 DEF FailTask, DropExecution, CoverInv, SnapshotInv, TypeOK, Holds
<1>13. CASE \E j \in Jobs : Restore(j)
  BY <1>13 DEF Restore, CoverInv, SnapshotInv
<1>14. CASE \E j \in Jobs : LoseJob(j)
  BY <1>14 DEF LoseJob, DropExecution, CoverInv, SnapshotInv, TypeOK, Holds
<1> QED
  BY NextCases, <1>0, <1>1, <1>2, <1>3, <1>4, <1>5, <1>6, <1>7, <1>8, <1>9,
     <1>10, <1>11, <1>12, <1>13, <1>14

\* Only completing a checkpoint moves its positions, and then they are covered.
LEMMA CoversStep ==
    ASSUME CoverInv, TypeOK', [Next]_vars
    PROVE CheckpointCovers'
<1>0. CASE UNCHANGED vars
  BY <1>0 DEF vars, CoverInv, CheckpointCovers
<1>1. CASE \E s \in Splits : Produce(s)
  BY <1>1 DEF Produce, CoverInv, CheckpointCovers
<1>2. CASE \E j \in Jobs : Submit(j)
  BY <1>2 DEF Submit, CoverInv, CheckpointCovers
<1>3. CASE \E j \in Jobs, s \in Splits : Read(j, s)
  BY <1>3 DEF Read, CoverInv, CheckpointCovers
<1>4. CASE \E j \in Jobs, s \in Splits : Write(j, s)
  BY <1>4 DEF Write, CoverInv, CheckpointCovers
<1>5. CASE \E j \in Jobs, s \in Splits : Roll(j, s)
  BY <1>5 DEF Roll, CoverInv, CheckpointCovers
<1>6. CASE \E j \in Jobs : TriggerCheckpoint(j)
  BY <1>6 DEF TriggerCheckpoint, CoverInv, CheckpointCovers
<1>7. CASE \E j \in Jobs, s \in Splits : InjectBarrier(j, s)
  BY <1>7 DEF InjectBarrier, CoverInv, CheckpointCovers
<1>8. CASE \E j \in Jobs, s \in Splits : BarrierArrives(j, s)
  BY <1>8 DEF BarrierArrives, CoverInv, CheckpointCovers
<1>9. CASE \E j \in Jobs : Snapshot(j)
  BY <1>9 DEF Snapshot, CoverInv, CheckpointCovers
<1>10. CASE \E j \in Jobs : CompleteCheckpoint(j)
  <2> PICK j \in Jobs : CompleteCheckpoint(j)
    BY <1>10
  <2>1. done'[j] = [pos |-> barrier[j], files |-> snap[j]] /\ visible' = visible
    BY DEF CompleteCheckpoint, CoverInv, TypeOK
  <2>2. SnapshotInv(j) /\ phase[j] = "snapshot"
    BY DEF CompleteCheckpoint, CoverInv
  <2>3. \A i \in Jobs : i # j => done'[i] = done[i]
    BY DEF CompleteCheckpoint, CoverInv, TypeOK
  <2> QED BY <2>1, <2>2, <2>3 DEF CoverInv, CheckpointCovers, SnapshotInv
<1>11. CASE \E j \in Jobs : CommitPart(j)
  <2>1. visible \subseteq visible' /\ done' = done
    BY <1>11 DEF CommitPart
  <2> QED BY <2>1 DEF CoverInv, CheckpointCovers, Holds
<1>12. CASE \E j \in Jobs : FailTask(j)
  BY <1>12 DEF FailTask, DropExecution, CoverInv, CheckpointCovers
<1>13. CASE \E j \in Jobs : Restore(j)
  BY <1>13 DEF Restore, CoverInv, CheckpointCovers
<1>14. CASE \E j \in Jobs : LoseJob(j)
  BY <1>14 DEF LoseJob, DropExecution, CoverInv, CheckpointCovers
<1> QED
  BY NextCases, <1>0, <1>1, <1>2, <1>3, <1>4, <1>5, <1>6, <1>7, <1>8, <1>9,
     <1>10, <1>11, <1>12, <1>13, <1>14

\* Parts hold rows of the log only.
LEMMA ProducedStep ==
    ASSUME PartsInv, CoverInv', [Next]_vars, NEW k \in Jobs
    PROVE ProducedInv(k)'
<1>0. CASE UNCHANGED vars
  BY <1>0 DEF vars, sinkVars, PartsInv, CoverInv, ProducedInv, Parts
<1>1. CASE \E s \in Splits : Produce(s)
  BY <1>1
     DEF Produce, sinkVars, PartsInv, CoverInv, ProducedInv, TypeOK, Parts,
         File, Offsets
<1>2. CASE \E j \in Jobs : Submit(j)
  BY <1>2 DEF Submit, sinkVars, PartsInv, CoverInv, ProducedInv, Parts
<1>3. CASE \E j \in Jobs, s \in Splits : Read(j, s)
  BY <1>3 DEF Read, sinkVars, PartsInv, CoverInv, ProducedInv, Parts
<1>4. CASE \E j \in Jobs, s \in Splits : Write(j, s)
  BY <1>4 DEF Write, PartsInv, CoverInv, ProducedInv, TypeOK, Parts, Offsets
<1>5. CASE \E j \in Jobs, s \in Splits : Roll(j, s)
  BY <1>5
     DEF Roll, PartsInv, CoverInv, PositionInv, ProducedInv, TypeOK, Part,
         Parts, Offsets
<1>6. CASE \E j \in Jobs : TriggerCheckpoint(j)
  BY <1>6 DEF TriggerCheckpoint, PartsInv, CoverInv, ProducedInv, Parts
<1>7. CASE \E j \in Jobs, s \in Splits : InjectBarrier(j, s)
  BY <1>7 DEF InjectBarrier, sinkVars, PartsInv, CoverInv, ProducedInv, Parts
<1>8. CASE \E j \in Jobs, s \in Splits : BarrierArrives(j, s)
  BY <1>8 DEF BarrierArrives, PartsInv, CoverInv, ProducedInv, Parts
<1>9. CASE \E j \in Jobs : Snapshot(j)
  BY <1>9
     DEF Snapshot, PartsInv, CoverInv, PositionInv, ProducedInv, TypeOK, Part,
         Parts, Offsets, NoParts
<1>10. CASE \E j \in Jobs : CompleteCheckpoint(j)
  BY <1>10 DEF CompleteCheckpoint, PartsInv, CoverInv, ProducedInv, Parts
<1>11. CASE \E j \in Jobs : CommitPart(j)
  BY <1>11 DEF CommitPart, sinkVars, PartsInv, CoverInv, ProducedInv, Parts
<1>12. CASE \E j \in Jobs : FailTask(j)
  BY <1>12
     DEF FailTask, DropExecution, PartsInv, CoverInv, ProducedInv, Parts,
         NoParts
<1>13. CASE \E j \in Jobs : Restore(j)
  <2> PICK j \in Jobs : Restore(j)
    BY <1>13
  <2>1. Parts(k)' = Parts(k) /\ log' = log /\ open' = open
    BY DEF Restore, sinkVars, Parts
  <2>2. k = j => open[k] = NoParts
    BY DEF Restore, PartsInv, CoverInv, PhaseInv
  <2>3. k # j => written'[k] = written[k]
    BY DEF Restore, PartsInv, CoverInv
  <2> QED BY <2>1, <2>2, <2>3 DEF PartsInv, ProducedInv, NoParts
<1>14. CASE \E j \in Jobs : LoseJob(j)
  BY <1>14
     DEF LoseJob, DropExecution, PartsInv, CoverInv, ProducedInv, Parts,
         NoParts
<1> QED
  BY NextCases, <1>0, <1>1, <1>2, <1>3, <1>4, <1>5, <1>6, <1>7, <1>8, <1>9,
     <1>10, <1>11, <1>12, <1>13, <1>14

\* No step lets the sink, a barrier or a source overtake the one ahead of it.
LEMMA PositionStep ==
    ASSUME CoverInv, TypeOK', [Next]_vars, NEW k \in Jobs
    PROVE PositionInv(k)'
<1>0. CASE UNCHANGED vars
  BY <1>0 DEF vars, sourceVars, sinkVars, CoverInv, PositionInv
<1>1. CASE \E s \in Splits : Produce(s)
  BY <1>1 DEF Produce, sourceVars, sinkVars, CoverInv, PositionInv, TypeOK
<1>2. CASE \E j \in Jobs : Submit(j)
  BY <1>2
     DEF Submit, sourceVars, sinkVars, CoverInv, PhaseInv, PositionInv, TypeOK,
         Fresh
<1>3. CASE \E j \in Jobs, s \in Splits : Read(j, s)
  BY <1>3 DEF Read, sinkVars, CoverInv, PositionInv, TypeOK
<1>4. CASE \E j \in Jobs, s \in Splits : Write(j, s)
  BY <1>4 DEF Write, sourceVars, CoverInv, PositionInv, TypeOK
<1>5. CASE \E j \in Jobs, s \in Splits : Roll(j, s)
  BY <1>5 DEF Roll, sourceVars, CoverInv, PositionInv
<1>6. CASE \E j \in Jobs : TriggerCheckpoint(j)
  BY <1>6 DEF TriggerCheckpoint, CoverInv, PositionInv
<1>7. CASE \E j \in Jobs, s \in Splits : InjectBarrier(j, s)
  BY <1>7 DEF InjectBarrier, sinkVars, CoverInv, PhaseInv, PositionInv, TypeOK
<1>8. CASE \E j \in Jobs, s \in Splits : BarrierArrives(j, s)
  BY <1>8 DEF BarrierArrives, sourceVars, CoverInv, PositionInv, TypeOK
<1>9. CASE \E j \in Jobs : Snapshot(j)
  BY <1>9 DEF Snapshot, sourceVars, CoverInv, PositionInv
<1>10. CASE \E j \in Jobs : CompleteCheckpoint(j)
  BY <1>10 DEF CompleteCheckpoint, CoverInv, PhaseInv, PositionInv, TypeOK
<1>11. CASE \E j \in Jobs : CommitPart(j)
  BY <1>11 DEF CommitPart, sourceVars, sinkVars, CoverInv, PositionInv
<1>12. CASE \E j \in Jobs : FailTask(j)
  BY <1>12 DEF FailTask, DropExecution, CoverInv, PositionInv
<1>13. CASE \E j \in Jobs : Restore(j)
  BY <1>13 DEF Restore, CoverInv, PhaseInv, PositionInv, TypeOK
<1>14. CASE \E j \in Jobs : LoseJob(j)
  BY <1>14 DEF LoseJob, DropExecution, CoverInv, PositionInv
<1> QED
  BY NextCases, <1>0, <1>1, <1>2, <1>3, <1>4, <1>5, <1>6, <1>7, <1>8, <1>9,
     <1>10, <1>11, <1>12, <1>13, <1>14

\* A job knows of no other job's parts.
LEMMA OwnStep ==
    ASSUME PartsInv, CoverInv', [Next]_vars, NEW k \in Jobs
    PROVE OwnInv(k)'
<1>0. CASE UNCHANGED vars
  BY <1>0 DEF vars, sinkVars, PartsInv, CoverInv, OwnInv
<1>1. CASE \E s \in Splits : Produce(s)
  BY <1>1 DEF Produce, sinkVars, PartsInv, CoverInv, OwnInv
<1>2. CASE \E j \in Jobs : Submit(j)
  BY <1>2 DEF Submit, sinkVars, PartsInv, CoverInv, OwnInv
<1>3. CASE \E j \in Jobs, s \in Splits : Read(j, s)
  BY <1>3 DEF Read, sinkVars, PartsInv, CoverInv, OwnInv
<1>4. CASE \E j \in Jobs, s \in Splits : Write(j, s)
  BY <1>4 DEF Write, PartsInv, CoverInv, OwnInv
<1>5. CASE \E j \in Jobs, s \in Splits : Roll(j, s)
  BY <1>5 DEF Roll, PartsInv, CoverInv, OwnInv, Part
<1>6. CASE \E j \in Jobs : TriggerCheckpoint(j)
  BY <1>6 DEF TriggerCheckpoint, PartsInv, CoverInv, OwnInv
<1>7. CASE \E j \in Jobs, s \in Splits : InjectBarrier(j, s)
  BY <1>7 DEF InjectBarrier, sinkVars, PartsInv, CoverInv, OwnInv
<1>8. CASE \E j \in Jobs, s \in Splits : BarrierArrives(j, s)
  BY <1>8 DEF BarrierArrives, PartsInv, CoverInv, OwnInv
<1>9. CASE \E j \in Jobs : Snapshot(j)
  BY <1>9 DEF Snapshot, PartsInv, CoverInv, OwnInv, Part
<1>10. CASE \E j \in Jobs : CompleteCheckpoint(j)
  BY <1>10 DEF CompleteCheckpoint, PartsInv, CoverInv, OwnInv
<1>11. CASE \E j \in Jobs : CommitPart(j)
  BY <1>11 DEF CommitPart, sinkVars, PartsInv, CoverInv, OwnInv
<1>12. CASE \E j \in Jobs : FailTask(j)
  BY <1>12 DEF FailTask, DropExecution, PartsInv, CoverInv, OwnInv
<1>13. CASE \E j \in Jobs : Restore(j)
  BY <1>13 DEF Restore, PartsInv, CoverInv, OwnInv
<1>14. CASE \E j \in Jobs : LoseJob(j)
  BY <1>14 DEF LoseJob, DropExecution, PartsInv, CoverInv, OwnInv
<1> QED
  BY NextCases, <1>0, <1>1, <1>2, <1>3, <1>4, <1>5, <1>6, <1>7, <1>8, <1>9,
     <1>10, <1>11, <1>12, <1>13, <1>14

\* Rows go from an in-progress part to a closed one, never back, and a
\* restart's new parts carry a new attempt.
LEMMA CurrentStep ==
    ASSUME PartsInv, CoverInv', [Next]_vars, NEW k \in Jobs
    PROVE CurrentInv(k)'
<1>0. CASE UNCHANGED vars
  BY <1>0 DEF vars, sinkVars, PartsInv, CoverInv, CurrentInv, Parts
<1>1. CASE \E s \in Splits : Produce(s)
  BY <1>1 DEF Produce, sinkVars, PartsInv, CoverInv, CurrentInv, Parts
<1>2. CASE \E j \in Jobs : Submit(j)
  BY <1>2
     DEF Submit, sinkVars, PartsInv, CoverInv, PhaseInv, CurrentInv, Parts,
         Fresh
<1>3. CASE \E j \in Jobs, s \in Splits : Read(j, s)
  BY <1>3 DEF Read, sinkVars, PartsInv, CoverInv, CurrentInv, Parts
<1>4. CASE \E j \in Jobs, s \in Splits : Write(j, s)
  BY <1>4
     DEF Write, PartsInv, CoverInv, CurrentInv, TypeOK, Parts, File, Offsets
<1>5. CASE \E j \in Jobs, s \in Splits : Roll(j, s)
  BY <1>5
     DEF Roll, PartsInv, CoverInv, ProducedInv, CurrentInv, TypeOK, Part, Parts
<1>6. CASE \E j \in Jobs : TriggerCheckpoint(j)
  BY <1>6 DEF TriggerCheckpoint, PartsInv, CoverInv, CurrentInv, Parts
<1>7. CASE \E j \in Jobs, s \in Splits : InjectBarrier(j, s)
  BY <1>7 DEF InjectBarrier, sinkVars, PartsInv, CoverInv, CurrentInv, Parts
<1>8. CASE \E j \in Jobs, s \in Splits : BarrierArrives(j, s)
  BY <1>8 DEF BarrierArrives, PartsInv, CoverInv, CurrentInv, Parts
<1>9. CASE \E j \in Jobs : Snapshot(j)
  BY <1>9
     DEF Snapshot, PartsInv, CoverInv, ProducedInv, CurrentInv, TypeOK, Part,
         Parts, File, NoParts
<1>10. CASE \E j \in Jobs : CompleteCheckpoint(j)
  BY <1>10 DEF CompleteCheckpoint, PartsInv, CoverInv, CurrentInv, Parts
<1>11. CASE \E j \in Jobs : CommitPart(j)
  BY <1>11
     DEF CommitPart, sinkVars, PartsInv, CoverInv, OwnInv, CurrentInv, Parts
<1>12. CASE \E j \in Jobs : FailTask(j)
  BY <1>12
     DEF FailTask, DropExecution, PartsInv, CoverInv, CurrentInv, TypeOK, Parts
<1>13. CASE \E j \in Jobs : Restore(j)
  BY <1>13 DEF Restore, PartsInv, CoverInv, CurrentInv, TypeOK, Parts, File
<1>14. CASE \E j \in Jobs : LoseJob(j)
  BY <1>14
     DEF LoseJob, DropExecution, PartsInv, CoverInv, CurrentInv, TypeOK, Parts
<1> QED
  BY NextCases, <1>0, <1>1, <1>2, <1>3, <1>4, <1>5, <1>6, <1>7, <1>8, <1>9,
     <1>10, <1>11, <1>12, <1>13, <1>14

\* A part is closed with rows that no other part of the execution holds.
LEMMA DisjointStep ==
    ASSUME PartsInv, CoverInv', [Next]_vars, NEW k \in Jobs
    PROVE DisjointInv(k)'
<1>0. CASE UNCHANGED vars
  BY <1>0 DEF vars, sinkVars, PartsInv, CoverInv, DisjointInv, Parts
<1>1. CASE \E s \in Splits : Produce(s)
  BY <1>1 DEF Produce, sinkVars, PartsInv, CoverInv, DisjointInv, Parts
<1>2. CASE \E j \in Jobs : Submit(j)
  BY <1>2 DEF Submit, sinkVars, PartsInv, CoverInv, DisjointInv, Parts
<1>3. CASE \E j \in Jobs, s \in Splits : Read(j, s)
  BY <1>3 DEF Read, sinkVars, PartsInv, CoverInv, DisjointInv, Parts
<1>4. CASE \E j \in Jobs, s \in Splits : Write(j, s)
  BY <1>4 DEF Write, PartsInv, CoverInv, DisjointInv, Parts
<1>5. CASE \E j \in Jobs, s \in Splits : Roll(j, s)
  BY <1>5 DEF Roll, PartsInv, CoverInv, CurrentInv, DisjointInv, Part, Parts
<1>6. CASE \E j \in Jobs : TriggerCheckpoint(j)
  BY <1>6 DEF TriggerCheckpoint, PartsInv, CoverInv, DisjointInv, Parts
<1>7. CASE \E j \in Jobs, s \in Splits : InjectBarrier(j, s)
  BY <1>7 DEF InjectBarrier, sinkVars, PartsInv, CoverInv, DisjointInv, Parts
<1>8. CASE \E j \in Jobs, s \in Splits : BarrierArrives(j, s)
  BY <1>8 DEF BarrierArrives, PartsInv, CoverInv, DisjointInv, Parts
<1>9. CASE \E j \in Jobs : Snapshot(j)
  BY <1>9 DEF Snapshot, PartsInv, CoverInv, CurrentInv, DisjointInv, Part, Parts
<1>10. CASE \E j \in Jobs : CompleteCheckpoint(j)
  BY <1>10 DEF CompleteCheckpoint, PartsInv, CoverInv, DisjointInv, Parts
<1>11. CASE \E j \in Jobs : CommitPart(j)
  BY <1>11
     DEF CommitPart, sinkVars, PartsInv, CoverInv, OwnInv, DisjointInv, Parts
<1>12. CASE \E j \in Jobs : FailTask(j)
  BY <1>12 DEF FailTask, DropExecution, PartsInv, CoverInv, DisjointInv, Parts
<1>13. CASE \E j \in Jobs : Restore(j)
  BY <1>13 DEF Restore, PartsInv, CoverInv, DisjointInv, Parts
<1>14. CASE \E j \in Jobs : LoseJob(j)
  BY <1>14 DEF LoseJob, DropExecution, PartsInv, CoverInv, DisjointInv, Parts
<1> QED
  BY NextCases, <1>0, <1>1, <1>2, <1>3, <1>4, <1>5, <1>6, <1>7, <1>8, <1>9,
     <1>10, <1>11, <1>12, <1>13, <1>14

-----------------------------------------------------------------------------
\* Nothing has been read, written or checkpointed at first.
LEMMA CoverInit == Init => CoverInv
<1> SUFFICES ASSUME Init PROVE CoverInv
  OBVIOUS
<1>1. TypeOK
  BY TypeInit
<1>2. CheckpointCovers
  BY DEF Init, CheckpointCovers, Fresh, Earliest, Offsets
<1>3. \A j \in Jobs : PhaseInv(j) /\ WrittenInv(j) /\ SnapshotInv(j)
  BY DEF Init, PhaseInv, WrittenInv, SnapshotInv
<1>4. ASSUME NEW j \in Jobs PROVE PositionInv(j)
  <2>1. \A s \in Splits : log[s] = 0 /\ pos[j][s] = 0 /\ done[j].pos[s] = 0
    BY DEF Init, Fresh, Earliest
  <2>2. status[j] # "running"
    BY DEF Init
  <2>3. \A s \in Splits : s \notin injected[j] /\ s \notin arrived[j]
    BY DEF Init
  <2>4. 0 <= 0
    OBVIOUS
  <2> QED BY <2>1, <2>2, <2>3, <2>4 DEF PositionInv
<1> QED BY <1>1, <1>2, <1>3, <1>4 DEF CoverInv

\* The strengthening is an invariant: positions, barriers, parts and phases
\* of every job stay consistent through checkpoints and restarts.
THEOREM CoverInvariant == Spec => []CoverInv
<1>1. Init => CoverInv
  BY CoverInit
<1>2. CoverInv /\ [Next]_vars => CoverInv'
  <2> SUFFICES ASSUME CoverInv, [Next]_vars PROVE CoverInv'
    OBVIOUS
  <2>1. TypeOK'
    BY TypeStep DEF CoverInv
  <2>2. CheckpointCovers'
    BY <2>1, CoversStep
  <2>3. ASSUME NEW k \in Jobs
        PROVE PhaseInv(k)' /\ PositionInv(k)' /\ WrittenInv(k)' /\ SnapshotInv(k)'
    BY <2>1, PhaseStep, PositionStep, WrittenStep, SnapshotStep
  <2> QED BY <2>1, <2>2, <2>3 DEF CoverInv
<1> QED
  BY <1>1, <1>2, PTL DEF Spec

\* No restore of the bronze job skips a row (bronze_sink_job.py:33-40).
THEOREM NoRestoreSkips == Spec => []CheckpointCovers
<1>1. CoverInv => CheckpointCovers
  BY DEF CoverInv
<1> QED
  BY <1>1, CoverInvariant, PTL

\* The sink is never behind the checkpoint it would be restored from, so a
\* restart replays what came after it and no more (bronze_sink_job.py:37).
THEOREM ReplayStaysBounded == Spec => []ReplayBounded
<1>1. CoverInv => ReplayBounded
  BY DEF CoverInv, PositionInv, ReplayBounded
<1> QED
  BY <1>1, CoverInvariant, PTL

\* A completed checkpoint never moves a restart's position back
\* (bronze_sink_job.py:37-39).
THEOREM CheckpointsOnlyAdvance == Spec => CheckpointsAdvance
<1>1. CoverInv /\ CoverInv' /\ [Next]_vars =>
        [\A j \in Jobs, s \in Splits : done[j].pos[s] <= done'[j].pos[s]]_vars
  <2> SUFFICES ASSUME CoverInv, [Next]_vars, NEW j \in Jobs, NEW s \in Splits
               PROVE done[j].pos[s] <= done'[j].pos[s]
    OBVIOUS
  <2>1. done[j].pos[s] \in Nat
    BY DEF CoverInv, TypeOK
  <2>2. CASE \E i \in Jobs : CompleteCheckpoint(i)
    <3> PICK i \in Jobs : CompleteCheckpoint(i)
      BY <2>2
    <3>1. CASE i = j
      <4>1. done'[j].pos = barrier[j]
        BY <3>1 DEF CompleteCheckpoint, CoverInv, TypeOK
      <4>2. s \in injected[j]
        BY <3>1 DEF CompleteCheckpoint, CoverInv, PhaseInv
      <4> QED BY <4>1, <4>2 DEF CoverInv, PositionInv
    <3>2. CASE i # j
      BY <2>1, <3>2 DEF CompleteCheckpoint, CoverInv, TypeOK
    <3> QED BY <3>1, <3>2
  <2>3. CASE done' = done
    BY <2>1, <2>3
  <2>4. (\E i \in Jobs : CompleteCheckpoint(i)) \/ done' = done
    BY NextCases
       DEF vars, Produce, Submit, Read, Write, Roll, TriggerCheckpoint,
           InjectBarrier, BarrierArrives, Snapshot, CommitPart, FailTask,
           Restore, LoseJob
  <2> QED BY <2>2, <2>3, <2>4
<1> QED
  BY <1>1, CoverInvariant, PTL DEF CheckpointsAdvance, Spec

-----------------------------------------------------------------------------
\* Every part's rows were produced, belong to one execution and to no other
\* part of it (bronze_sink_job.py:133-140).
THEOREM PartsInvariant == Spec => []PartsInv
<1>1. Init => PartsInv
  <2> SUFFICES ASSUME Init, CoverInv PROVE PartsInv
    BY CoverInit
  <2>1. \A j \in Jobs : Parts(j) = {}
    BY DEF Init, Parts, Fresh
  <2>2. \A j \in Jobs, s \in Splits : open[j][s] = {}
    BY DEF Init, NoParts
  <2> QED
    BY <2>1, <2>2
       DEF PartsInv, OwnInv, ProducedInv, CurrentInv, DisjointInv, Parts
<1>2. PartsInv /\ CoverInv' /\ [Next]_vars => PartsInv'
  <2> SUFFICES ASSUME PartsInv, CoverInv', [Next]_vars PROVE PartsInv'
    OBVIOUS
  <2>1. ASSUME NEW k \in Jobs
        PROVE OwnInv(k)' /\ ProducedInv(k)' /\ CurrentInv(k)' /\ DisjointInv(k)'
    BY OwnStep, ProducedStep, CurrentStep, DisjointStep
  <2> QED BY <2>1 DEF PartsInv
<1> QED
  BY <1>1, <1>2, CoverInvariant, PTL DEF Spec

\* One execution archives a row at most once (bronze_sink_job.py:133-140).
THEOREM ArchivedOncePerAttempt == Spec => []OncePerAttempt
<1>1. PartsInv => OncePerAttempt
  <2> SUFFICES ASSUME PartsInv, NEW f \in visible, NEW g \in visible,
                      f.job = g.job, f.attempt = g.attempt, f.split = g.split,
                      f.rows \cap g.rows # {}
               PROVE f = g
    BY DEF OncePerAttempt
  <2>1. f.job \in Jobs
    BY DEF PartsInv, CoverInv, TypeOK, File
  <2>2. f \in Parts(f.job) /\ g \in Parts(f.job)
    BY DEF Parts
  <2> QED BY <2>1, <2>2 DEF PartsInv, DisjointInv
<1> QED
  BY <1>1, PartsInvariant, PTL

(***************************************************************************)
(* The job implements the archive's safety half: commits publish produced  *)
(* rows, nothing else changes what a reader sees.                          *)
(***************************************************************************)
THEOREM JobImplementsArchive == Spec => ImplementsArchive
<1>1. Init => Archive!ArchiveInit
  BY DEF Init, Archive!ArchiveInit, Archived, Serving, Earliest
<1>2. PartsInv /\ [Next]_vars => [Archive!ArchiveNext]_(Archive!archiveVars)
  <2> SUFFICES ASSUME PartsInv, [Next]_vars
               PROVE [Archive!ArchiveNext]_(Archive!archiveVars)
    OBVIOUS
  <2>1. CASE \E s \in Splits : Produce(s)
    <3> PICK s \in Splits : Produce(s)
      BY <2>1
    <3>1. Archived' = Archived /\ Serving' = Serving
      BY DEF Produce, Archived, Serving
    <3> QED BY <3>1 DEF Produce, Archive!ArchiveNext, Archive!Produced
  <2>2. CASE \E j \in Jobs : CommitPart(j)
    <3> PICK j \in Jobs : CommitPart(j)
      BY <2>2
    <3> PICK f \in done[j].files : visible' = visible \cup {f}
      BY DEF CommitPart
    <3> DEFINE new == {f.split} \X f.rows
    <3>1. f \in File
      BY DEF PartsInv, CoverInv, TypeOK
    <3>2. new \in SUBSET Rows
      BY <3>1 DEF File, Rows
    <3>3. Archived' = Archived \cup new
      BY <3>1 DEF Archived, Rows, File
    <3>4. \A r \in new : r[2] < log[r[1]]
      BY DEF PartsInv, ProducedInv, Parts
    <3>5. Serving /\ Serving' = Serving /\ log' = log
      BY DEF CommitPart, Serving
    <3> HIDE DEF new
    <3>6. Archive!Archive(new)
      BY <3>3, <3>4, <3>5 DEF Archive!Archive
    <3> QED
      BY <3>2, <3>6 DEF Archive!ArchiveNext, Archive!Offsets, Rows, Offsets
  <2>3. CASE UNCHANGED <<log, visible>>
    <3>1. Archived' = Archived
      BY <2>3 DEF Archived
    <3>2. Serving' \in BOOLEAN
      BY DEF Serving
    <3>3. Archive!Serve(Serving')
      BY <2>3, <3>1 DEF Archive!Serve
    <3> QED BY <3>2, <3>3 DEF Archive!ArchiveNext
  <2>4. \/ \E s \in Splits : Produce(s)
        \/ \E j \in Jobs : CommitPart(j)
        \/ UNCHANGED <<log, visible>>
    BY NextCases
       DEF vars, Submit, Read, Write, Roll, TriggerCheckpoint, InjectBarrier,
           BarrierArrives, Snapshot, CompleteCheckpoint, FailTask, Restore,
           LoseJob
  <2> QED BY <2>1, <2>2, <2>3, <2>4
<1> QED
  BY <1>1, <1>2, PartsInvariant, PTL
     DEF Spec, ImplementsArchive, Archive!ArchiveSafety

=============================================================================
