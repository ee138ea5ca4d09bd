---------------------------- MODULE BatchProofs ----------------------------
(***************************************************************************)
(* Theorems about Batch, for every set of parts, of runs and of models and *)
(* any number of failures.                                                 *)
(***************************************************************************)
EXTENDS Batch, TLAPS

\* At most one run at a time gets as far as dbt; any number of others sync.
OneBuilder == \A q, r \in Runs \ Syncs : q = r

\* Every step is one of the actions, for the case splits below.
LEMMA NextCases ==
    ASSUME Next
    PROVE \/ \E f \in Files : Publish(f)
          \/ Tick
          \/ \E f \in Files : Expire(f)
          \/ \E r \in Runs : StartRun(r)
          \/ \E r \in Runs : CopyPart(r)
          \/ \E r \in Runs : MirrorEnds(r)
          \/ \E r \in Runs : StatFails(r)
          \/ \E r \in Runs : UploadPart(r)
          \/ \E r \in Runs : UploadEnds(r)
          \/ \E r \in Runs : RefreshTable(r)
          \/ \E r \in Runs : EndSync(r)
          \/ \E r \in Runs, m \in Models : Query(r, m)
          \/ \E r \in Runs, m \in Models : Commit(r, m)
          \/ \E r \in Runs, m \in Models : QueryFails(r, m)
          \/ \E r \in Runs, m \in Models : TestFails(r, m)
          \/ \E r \in Runs : RunEnds(r)
          \/ \E r \in Runs : SyncFails(r)
          \/ \E r \in Runs : RefreshFails(r)
          \/ \E r \in Runs : DbtRefuses(r) \/ DbtFails(r)
          \/ \E r \in Runs : Retry(r)
BY Zenon DEF Next, RunStep

\* The steps of one run.
Acts(r) == \/ StartRun(r) \/ CopyPart(r) \/ MirrorEnds(r) \/ StatFails(r)
           \/ UploadPart(r) \/ UploadEnds(r) \/ RefreshTable(r) \/ EndSync(r)
           \/ \E m \in Models : \/ Query(r, m) \/ Commit(r, m)
                               \/ QueryFails(r, m) \/ TestFails(r, m)
           \/ RunEnds(r) \/ SyncFails(r) \/ RefreshFails(r) \/ DbtRefuses(r)
           \/ DbtFails(r) \/ Retry(r)

LEMMA NextActs ==
    ASSUME Next
    PROVE \/ \E f \in Files : Publish(f) \/ Expire(f)
          \/ Tick
          \/ \E r \in Runs : Acts(r)
BY Zenon DEF Next, RunStep, Acts

\* A query reads parts.
LEMMA SnapshotType ==
    ASSUME TypeOK, NEW m \in Models
    PROVE Snapshot(m) \subseteq Files
<1>1. CASE m \in Ints
  BY <1>1 DEF Snapshot, TypeOK
<1>2. CASE m \notin Ints
  <2>1. Refs(m) \subseteq Models
    BY <1>2, IntsAssumption DEF Refs, Models, Fct, Rpt
  <2>2. \A k \in Refs(m) : table[k] \subseteq Files
    BY <2>1 DEF TypeOK
  <2> QED BY <1>2, <2>2 DEF Snapshot
<1> QED BY <1>1, <1>2

\* The bound on failures is kept.
LEMMA FaultType ==
    ASSUME TypeOK, faults < MaxFaults, faults' = faults + 1
    PROVE faults' \in 0 .. MaxFaults
BY FaultsAssumption DEF TypeOK

\* A failed task leaves its run idle or waiting for the retry.
LEMMA FailType ==
    ASSUME TypeOK, NEW r \in Runs, NEW again \in Tasks, Fail(r, again),
           faults' \in 0 .. MaxFaults,
           Cleanup(r) \/ UNCHANGED syncVars,
           DbtExits(r) \/ UNCHANGED dbtVars
    PROVE TypeOK'
<1>1. task' \in [Runs -> Tasks]
  BY DEF Fail, TypeOK, Tasks
<1>2. UNCHANGED <<minio, retrying, gcs, age, started>>
  BY DEF Fail, clockVars
<1>3. UNCHANGED <<deleted, listed>> /\ staged' \in [Runs -> SUBSET Files]
      /\ sent' \in [Runs -> SUBSET Files]
  BY DEF Cleanup, syncVars, TypeOK
<1>4. UNCHANGED <<read, table>>
  BY DEF DbtExits, dbtVars
<1>5. model' \in [Runs -> [Models -> {"todo", "running", "done", "failed"}]]
  <2>1. Todo \in [Models -> {"todo", "running", "done", "failed"}]
    BY DEF Todo
  <2>2. model' = [model EXCEPT ![r] = Todo] \/ model' = model
    BY DEF DbtExits, dbtVars
  <2> QED BY <2>1, <2>2 DEF TypeOK
<1> QED BY <1>1, <1>2, <1>3, <1>4, <1>5 DEF TypeOK

\* An empty lane has the types.
LEMMA TypeInit == Init => TypeOK
BY FaultsAssumption, LifetimeAssumption DEF Init, TypeOK, Todo, Nothing, Tasks

\* Every step keeps the types.
LEMMA TypeStep == TypeOK /\ [Next]_vars => TypeOK'
<1> SUFFICES ASSUME TypeOK, [Next]_vars PROVE TypeOK'
  OBVIOUS
<1> USE FaultsAssumption DEF syncVars, clockVars, dbtVars
<1>0. CASE UNCHANGED vars
  BY <1>0 DEF vars, TypeOK
<1>1. CASE \E f \in Files : Publish(f)
  BY <1>1 DEF Publish, TypeOK
<1>2. CASE \E f \in Files : Expire(f)
  BY <1>2, LifetimeAssumption DEF Expire, TypeOK
<1>19. CASE Tick
  <2>1. ASSUME NEW f \in Files
        PROVE (IF f \in gcs /\ age[f] < Lifetime THEN age[f] + 1 ELSE age[f]) \in 0 .. Lifetime
    BY LifetimeAssumption DEF TypeOK
  <2> QED BY <1>19, <2>1 DEF Tick, TypeOK
<1>20. CASE \E r \in Runs : EndSync(r)
  BY <1>20 DEF EndSync, TypeOK, Tasks
<1>3. CASE \E r \in Runs : StartRun(r)
  BY <1>3 DEF StartRun, BeginSync, TypeOK, Tasks
<1>4. CASE \E r \in Runs : CopyPart(r)
  BY <1>4 DEF CopyPart, TypeOK
<1>5. CASE \E r \in Runs : MirrorEnds(r)
  BY <1>5 DEF MirrorEnds, TypeOK, Tasks
<1>6. CASE \E r \in Runs : StatFails(r)
  <2> PICK r \in Runs : StatFails(r)
    BY <1>6
  <2>1. task' \in [Runs -> Tasks]
    BY DEF StatFails, TypeOK, Tasks
  <2>2. faults' \in 0 .. MaxFaults
    BY DEF StatFails, TypeOK
  <2> QED BY <2>1, <2>2 DEF StatFails, TypeOK
<1>7. CASE \E r \in Runs : UploadPart(r)
  BY <1>7, LifetimeAssumption DEF UploadPart, Local, TypeOK
<1>8. CASE \E r \in Runs : UploadEnds(r)
  BY <1>8 DEF UploadEnds, Cleanup, TypeOK, Tasks
<1>9. CASE \E r \in Runs : RefreshTable(r)
  <2> PICK r \in Runs : RefreshTable(r)
    BY <1>9
  <2>1. retrying' \in [Runs -> BOOLEAN] /\ UNCHANGED clockVars
    BY DEF RefreshTable, TypeOK
  <2>2. BeginDbt(r)
    BY DEF RefreshTable
  <2> QED BY <2>1, <2>2 DEF BeginDbt, Todo, TypeOK, Tasks
<1>10. CASE \E r \in Runs, m \in Models : Query(r, m)
  BY <1>10, SnapshotType DEF Query, TypeOK
<1>11. CASE \E r \in Runs, m \in Models : Commit(r, m)
  BY <1>11 DEF Commit, TypeOK
<1>12. CASE \E r \in Runs, m \in Models : QueryFails(r, m)
  BY <1>12 DEF QueryFails, TypeOK
<1>13. CASE \E r \in Runs, m \in Models : TestFails(r, m)
  BY <1>13 DEF TestFails, TypeOK
<1>14. CASE \E r \in Runs : RunEnds(r)
  BY <1>14 DEF RunEnds, DbtExits, Todo, TypeOK, Tasks
<1>15. CASE \E r \in Runs : SyncFails(r)
  BY <1>15, FaultType, FailType, Zenon DEF SyncFails, Tasks
<1>16. CASE \E r \in Runs : RefreshFails(r)
  BY <1>16, FaultType, FailType, Zenon DEF RefreshFails, Tasks
<1>17. CASE \E r \in Runs : DbtRefuses(r) \/ DbtFails(r)
  <2>1. faults \in 0 .. MaxFaults
    BY DEF TypeOK
  <2> QED
    BY <1>17, <2>1, FaultType, FailType, Zenon DEF DbtRefuses, DbtFails, Tasks
<1>18. CASE \E r \in Runs : Retry(r)
  <2> PICK r \in Runs : Retry(r)
    BY <1>18
  <2>1. retrying' \in [Runs -> BOOLEAN] /\ UNCHANGED clockVars
    BY DEF Retry, TypeOK
  <2>2. CASE BeginSync(r)
    BY <2>1, <2>2 DEF BeginSync, TypeOK, Tasks
  <2>3. CASE /\ task' = [task EXCEPT ![r] = "refresh"]
             /\ UNCHANGED <<minio, syncVars, dbtVars, faults>>
    BY <2>1, <2>3 DEF TypeOK, Tasks
  <2>4. CASE BeginDbt(r)
    BY <2>1, <2>4 DEF BeginDbt, Todo, TypeOK, Tasks
  <2> QED BY <2>2, <2>3, <2>4, Zenon DEF Retry
<1> QED
  BY NextCases, <1>19, <1>20, <1>0, <1>1, <1>2, <1>3, <1>4, <1>5, <1>6, <1>7, <1>8, <1>9,
     <1>10, <1>11, <1>12, <1>13, <1>14, <1>15, <1>16, <1>17, <1>18

\* Type correctness: the variables keep their types (the scripts and the DAG).
THEOREM TypeCorrect == Spec => []TypeOK
BY TypeInit, TypeStep, PTL DEF Spec

-----------------------------------------------------------------------------
(***************************************************************************)
(* What the refinements rest on.                                           *)
(***************************************************************************)

\* Whatever a run has listed or staged, and what has reached GCS, is MinIO's.
BronzeInv == /\ TypeOK
             /\ gcs \cup deleted \subseteq minio
             /\ \A r \in Runs : listed[r] \cup staged[r] \subseteq minio

\* A mirror that gets to the upload has all it listed, or it has nothing; and
\* what rsync has found or sent is still there, if no rule deletes it.
SyncInv == /\ TypeOK
           /\ \A r \in Runs :
                task[r] = "upload" => listed[r] \subseteq staged[r] \/ staged[r] = {}
           /\ ~Rule => \A r \in Runs : sent[r] \subseteq gcs

\* Models are built only by the dbt task of a run that gets there.
DbtInv == /\ TypeOK
          /\ \A r \in Runs : task[r] # "dbt" => model[r] = Todo
          /\ \A r \in Syncs : task[r] \notin {"dbt", "dbt_again"}

\* The parts of a model's stream, and what the intermediate tables hold.
Stream(m) == {f \in Files : Reader[f] = m}
IntRows == UNION {table[k] : k \in Ints}

\* A running query has read all its table has, and no more than is there.
MartInv == /\ DbtInv
           /\ \A k \in Ints : /\ table[k] \subseteq gcs \cap Stream(k)
                              /\ \A r \in Runs : model[r][k] = "running" =>
                                    /\ table[k] \subseteq read[r][k]
                                    /\ read[r][k] \subseteq gcs \cap Stream(k)
           /\ table[Fct] \subseteq IntRows
           /\ \A r \in Runs : model[r][Fct] = "running" =>
                 /\ table[Fct] \subseteq read[r][Fct]
                 /\ read[r][Fct] \subseteq IntRows

\* What a run listed is on its way: staged, uploaded, read, in a table.
Carries(r, m, parts) ==
    /\ model[r][m] = "running" => parts \subseteq read[r][m]
    /\ model[r][m] = "done" => parts \subseteq table[m]

AfterSync == {"refresh", "refresh_again", "dbt", "dbt_again"}

DeliveryInv ==
    /\ DbtInv /\ SyncInv
    /\ \A r \in Runs :
          /\ task[r] = "upload" => listed[r] \subseteq staged[r]
          /\ task[r] \in AfterSync => listed[r] \subseteq gcs
          /\ task[r] = "dbt" =>
                /\ \A k \in Ints : Carries(r, k, listed[r] \cap Stream(k))
                /\ Carries(r, Fct, listed[r]) /\ Carries(r, Rpt, listed[r])

-----------------------------------------------------------------------------
\* A listing starts with a run or with the retry of its sync.
LEMMA BeginSyncCases ==
    ASSUME TypeOK, NEW r \in Runs, StartRun(r) \/ Retry(r)
    PROVE \/ BeginSync(r) /\ task[r] \in {"idle", "sync_again"}
          \/ /\ \/ task' = [task EXCEPT ![r] = "refresh"]
                \/ task' = [task EXCEPT ![r] = "dbt"] /\ task[r] = "dbt_again"
             /\ task[r] \in AfterSync \ {"dbt"}
             /\ UNCHANGED <<minio, syncVars, dbtVars>>
BY DEF StartRun, Retry, BeginDbt, AfterSync

\* Only these steps touch what is in MinIO, on its way or in GCS.
LEMMA SyncFrame ==
    ASSUME TypeOK, [Next]_vars
    PROVE \/ \E f \in Files : Publish(f)
          \/ \E f \in Files : Expire(f)
          \/ \E r \in Runs : BeginSync(r)
          \/ \E r \in Runs : CopyPart(r)
          \/ \E r \in Runs : MirrorEnds(r)
          \/ \E r \in Runs : UploadPart(r)
          \/ \E r \in Runs : /\ Cleanup(r) /\ UNCHANGED <<minio, gcs>>
                             /\ task' = [task EXCEPT ![r] = task'[r]]
                             /\ task'[r] # "upload"
          \/ /\ UNCHANGED <<minio, gcs, deleted, listed, staged, sent>>
             /\ \A q \in Runs : task'[q] = "upload" => task[q] = "upload" \/ StatFails(q)
<1>1. CASE UNCHANGED vars \/ Tick
  BY <1>1 DEF vars, Tick, syncVars
<1>2. CASE \E r \in Runs : StartRun(r) \/ Retry(r)
  BY <1>2, BeginSyncCases DEF syncVars, TypeOK
<1>3. CASE \E r \in Runs : \/ StatFails(r) \/ RefreshTable(r) \/ EndSync(r)
                           \/ RunEnds(r)
  BY <1>3 DEF StatFails, RefreshTable, EndSync, RunEnds, BeginDbt, syncVars, TypeOK
<1>4. CASE \E r \in Runs, m \in Models : \/ Query(r, m) \/ Commit(r, m)
                                         \/ QueryFails(r, m) \/ TestFails(r, m)
  BY <1>4 DEF Query, Commit, QueryFails, TestFails, syncVars
<1>5. CASE \E r \in Runs : RefreshFails(r) \/ DbtRefuses(r) \/ DbtFails(r)
  <2> PICK r \in Runs, again \in {"refresh_again", "dbt_again"} :
               Fail(r, again) /\ UNCHANGED syncVars
    BY <1>5 DEF RefreshFails, DbtRefuses, DbtFails
  <2> QED BY DEF Fail, syncVars, TypeOK
<1>6. CASE \E r \in Runs : SyncFails(r) \/ UploadEnds(r)
  BY <1>6 DEF SyncFails, UploadEnds, Fail, TypeOK
<1> QED
  BY NextCases, <1>1, <1>2, <1>3, <1>4, <1>5, <1>6

\* Nothing is listed, staged or uploaded that MinIO does not show.
THEOREM BronzeInvariant == Spec => []BronzeInv
<1>1. Init => BronzeInv
  BY TypeInit DEF Init, BronzeInv
<1>2. BronzeInv /\ [Next]_vars => BronzeInv'
  <2> SUFFICES ASSUME BronzeInv, [Next]_vars PROVE BronzeInv'
    OBVIOUS
  <2>0. TypeOK /\ TypeOK'
    BY TypeStep DEF BronzeInv
  <2>1. CASE \E f \in Files : Publish(f)
    BY <2>0, <2>1 DEF Publish, syncVars, BronzeInv
  <2>2. CASE \E f \in Files : Expire(f)
    BY <2>0, <2>2 DEF Expire, BronzeInv
  <2>3. CASE \E r \in Runs : BeginSync(r)
    BY <2>0, <2>3 DEF BeginSync, BronzeInv, TypeOK
  <2>4. CASE \E r \in Runs : CopyPart(r)
    BY <2>0, <2>4 DEF CopyPart, BronzeInv, TypeOK
  <2>5. CASE \E r \in Runs : UploadPart(r)
    BY <2>0, <2>5 DEF UploadPart, Local, BronzeInv, TypeOK
  <2>6. CASE \E r \in Runs : Cleanup(r) /\ UNCHANGED <<minio, gcs>>
    BY <2>0, <2>6 DEF Cleanup, BronzeInv, TypeOK
  <2>7. CASE \/ UNCHANGED <<minio, gcs, deleted, listed, staged>>
             \/ \E r \in Runs : MirrorEnds(r)
    BY <2>0, <2>7 DEF MirrorEnds, BronzeInv
  <2> QED
    BY <2>0, SyncFrame, <2>1, <2>2, <2>3, <2>4, <2>5, <2>6, <2>7
<1> QED
  BY <1>1, <1>2, PTL DEF Spec

(***************************************************************************)
(* GCS implements a replica of MinIO: however many runs overlap, are blind *)
(* to their source, fail or are retried, and whatever the lifecycle rule   *)
(* deletes (sync_bronze_minio_to_gcs.sh:69-117).                           *)
(***************************************************************************)
THEOREM GcsReplicatesMinio == Spec => BronzeIsReplicated
<1>1. Init => Bronze!ReplicaInit
  BY DEF Init, Bronze!ReplicaInit
<1>2. BronzeInv /\ BronzeInv' /\ [Next]_vars
         => [Bronze!Grow \/ Bronze!Refresh]_(Bronze!replicaVars)
  <2> SUFFICES ASSUME BronzeInv, BronzeInv', [Next]_vars
               PROVE [Bronze!Grow \/ Bronze!Refresh]_(Bronze!replicaVars)
    OBVIOUS
  <2> USE DEF Bronze!Grow, Bronze!Refresh, Bronze!replicaVars
  <2>0. TypeOK /\ TypeOK'
    BY DEF BronzeInv
  <2>1. CASE \E f \in Files : Publish(f)
    BY <2>0, <2>1 DEF Publish, syncVars, TypeOK
  <2>2. CASE \E f \in Files : Expire(f)
    BY <2>2 DEF Expire
  <2>3. CASE \E r \in Runs : UploadPart(r)
    BY <2>3 DEF UploadPart, BronzeInv
  <2>4. CASE UNCHANGED <<minio, gcs, deleted>>
    BY <2>4
  <2> QED
    BY <2>0, SyncFrame, <2>1, <2>2, <2>3, <2>4 DEF BeginSync, CopyPart, MirrorEnds, Cleanup
<1> QED
  BY <1>1, <1>2, BronzeInvariant, PTL
     DEF Spec, BronzeIsReplicated, Bronze!ReplicaSafety

-----------------------------------------------------------------------------
\* A script that reaches its upload has mirrored its listing, or nothing.
LEMMA SyncStep == SyncInv /\ [Next]_vars => SyncInv'
<1> SUFFICES ASSUME SyncInv, [Next]_vars PROVE SyncInv'
  OBVIOUS
<1>0. TypeOK /\ TypeOK'
  BY TypeStep DEF SyncInv
<1>1. CASE \E r \in Runs : BeginSync(r)
  BY <1>0, <1>1 DEF BeginSync, SyncInv, TypeOK
<1>2. CASE \E r \in Runs : CopyPart(r)
  BY <1>0, <1>2 DEF CopyPart, SyncInv, TypeOK
<1>3. CASE \E r \in Runs : MirrorEnds(r)
  BY <1>0, <1>3 DEF MirrorEnds, SyncInv, TypeOK
<1>4. CASE \E r \in Runs : UploadPart(r)
  <2> PICK r \in Runs : UploadPart(r)
    BY <1>4
  <2>1. PICK f \in Local(r) : /\ gcs' = gcs \cup {f}
                              /\ sent' = [sent EXCEPT ![r] = @ \cup {f}]
    BY DEF UploadPart
  <2>2. ~Rule => \A q \in Runs : sent'[q] \subseteq gcs'
    BY <1>0, <2>1 DEF SyncInv, TypeOK
  <2>3. UNCHANGED <<task, listed, staged>>
    BY DEF UploadPart
  <2> QED BY <1>0, <2>2, <2>3 DEF SyncInv
<1>5. CASE \E r \in Runs : /\ Cleanup(r) /\ UNCHANGED <<minio, gcs>>
                           /\ task' = [task EXCEPT ![r] = task'[r]]
                           /\ task'[r] # "upload"
  BY <1>0, <1>5 DEF Cleanup, SyncInv, TypeOK
<1>6. CASE \/ \E f \in Files : Publish(f)
           \/ \E f \in Files : Expire(f)
  BY <1>0, <1>6 DEF Publish, Expire, syncVars, SyncInv
<1>7. CASE /\ UNCHANGED <<minio, gcs, deleted, listed, staged, sent>>
           /\ \A q \in Runs : task'[q] = "upload" => task[q] = "upload" \/ StatFails(q)
  BY <1>0, <1>7 DEF StatFails, SyncInv
<1> QED
  BY <1>0, SyncFrame, <1>1, <1>2, <1>3, <1>4, <1>5, <1>6, <1>7

THEOREM SyncInvariant == Spec => []SyncInv
<1>1. Init => SyncInv
  BY TypeInit DEF Init, SyncInv
<1> QED
  BY <1>1, SyncStep, PTL DEF Spec

(***************************************************************************)
(* A sync that ends without its warning has brought its whole listing to   *)
(* GCS, also where mc stat can fail unseen and runs overlap                *)
(* (sync_bronze_minio_to_gcs.sh:94-116).  Without the rule: rsync does not *)
(* look again at what it has found there.                                  *)
(***************************************************************************)
THEOREM UnwarnedSyncDelivers ==
    ASSUME ~Rule
    PROVE Spec => SyncDelivers
<1>1. SyncInv /\ [Next]_vars =>
         [\A r \in Runs : UploadEnds(r) /\ Local(r) # {} => listed[r] \subseteq gcs']_vars
  <2> SUFFICES ASSUME SyncInv, NEW r \in Runs, UploadEnds(r), Local(r) # {}
               PROVE listed[r] \subseteq gcs'
    OBVIOUS
  <2>1. Local(r) = staged[r]
    BY DEF Local
  <2> QED BY <2>1 DEF SyncInv, UploadEnds
<1> QED
  BY <1>1, SyncInvariant, PTL DEF Spec, SyncDelivers

-----------------------------------------------------------------------------
\* A table is replaced by what its query has read.
Replaces(r, m) ==
    /\ model[r][m] = "running"
    /\ model' = [model EXCEPT ![r][m] = "done"] \/ model' = [model EXCEPT ![r][m] = "failed"]
    /\ table' = [table EXCEPT ![m] = read[r][m]]
    /\ read' = [read EXCEPT ![r][m] = {}]
    /\ UNCHANGED <<task, gcs, listed, staged, sent>>

\* Only these steps touch the models and their tables.
LEMMA DbtFrame ==
    ASSUME TypeOK, [Next]_vars
    PROVE \/ \E r \in Runs : DbtExits(r)
          \/ \E r \in Runs, m \in Models : Query(r, m)
          \/ \E r \in Runs, m \in Models : Replaces(r, m)
          \/ \E r \in Runs, m \in Models : QueryFails(r, m)
          \/ UNCHANGED <<model, read, table>>
<1>1. CASE UNCHANGED vars \/ Tick
  BY <1>1 DEF vars, Tick, dbtVars
<1>2. CASE \E r \in Runs : StartRun(r) \/ Retry(r)
  BY <1>2, BeginSyncCases DEF BeginSync, dbtVars
<1>3. CASE \/ \E f \in Files : Publish(f) \/ Expire(f)
           \/ \E r \in Runs : \/ CopyPart(r) \/ MirrorEnds(r) \/ StatFails(r)
                              \/ UploadPart(r) \/ UploadEnds(r) \/ EndSync(r)
                              \/ RefreshTable(r)
  BY <1>3 DEF Publish, Expire, CopyPart, MirrorEnds, StatFails, UploadPart,
              UploadEnds, EndSync, RefreshTable, BeginDbt, dbtVars
<1>4. CASE \E r \in Runs : RunEnds(r) \/ DbtFails(r)
  BY <1>4 DEF RunEnds, DbtFails
<1>5. CASE \E r \in Runs, m \in Models : Commit(r, m) \/ TestFails(r, m)
  BY <1>5 DEF Commit, TestFails, Replaces, syncVars
<1>6. CASE \E r \in Runs : SyncFails(r) \/ RefreshFails(r) \/ DbtRefuses(r)
  BY <1>6 DEF SyncFails, RefreshFails, DbtRefuses, dbtVars
<1> QED
  BY NextCases, <1>1, <1>2, <1>3, <1>4, <1>5, <1>6

\* Without the lifecycle rule GCS only grows.
LEMMA GcsGrows ==
    ASSUME TypeOK, [Next]_vars, ~Rule
    PROVE gcs \subseteq gcs'
BY SyncFrame DEF Publish, Expire, BeginSync, CopyPart, MirrorEnds, UploadPart, syncVars

\* Models are at rest outside the dbt task, where a sync never gets.
LEMMA DbtStep == DbtInv /\ [Next]_vars => DbtInv'
<1> SUFFICES ASSUME DbtInv, [Next]_vars PROVE DbtInv'
  OBVIOUS
<1>0. TypeOK /\ TypeOK' /\ Syncs \subseteq Runs
  BY TypeStep, SyncsAssumption DEF DbtInv
<1>1. CASE UNCHANGED <<task, model>>
  BY <1>0, <1>1 DEF DbtInv
<1>2. CASE \E r \in Runs : /\ task' = [task EXCEPT ![r] = task'[r]]
                           /\ r \in Syncs => task'[r] \notin {"dbt", "dbt_again"}
                           /\ model' = model /\ model[r] = Todo
  BY <1>0, <1>2 DEF DbtInv, TypeOK, Todo
<1>3. CASE \E r \in Runs : DbtExits(r) /\ r \notin Syncs
                           /\ task' = [task EXCEPT ![r] = task'[r]]
  BY <1>0, <1>3 DEF DbtExits, DbtInv, TypeOK, Todo
<1>4. CASE \E r \in Runs, m \in Models : /\ model' = [model EXCEPT ![r] = model'[r]]
                                        /\ task[r] = "dbt" /\ task' = task
  BY <1>0, <1>4 DEF DbtInv, TypeOK, Todo
<1>5. ASSUME NEW r \in Runs, Acts(r) PROVE DbtInv'
  <2> USE DEF TypeOK
  <2>1. model[r] = Todo \/ (task[r] = "dbt" /\ r \notin Syncs)
    BY DEF DbtInv
  <2>2. CASE CopyPart(r) \/ UploadPart(r)
    BY <1>1, <2>2 DEF CopyPart, UploadPart, dbtVars
  <2>3. CASE StartRun(r) \/ MirrorEnds(r) \/ StatFails(r) \/ UploadEnds(r)
    BY <1>0, <1>2, <2>1, <2>3
       DEF StartRun, BeginSync, MirrorEnds, StatFails, UploadEnds, dbtVars
  <2>4. CASE RefreshTable(r) \/ EndSync(r)
    BY <1>0, <1>2, <2>1, <2>4 DEF RefreshTable, BeginDbt, EndSync, dbtVars
  <2>5. CASE SyncFails(r) \/ RefreshFails(r)
    BY <1>0, <1>2, <2>1, <2>5 DEF SyncFails, RefreshFails, Fail, dbtVars
  <2>6. CASE DbtRefuses(r)
    BY <1>0, <1>2, <2>6 DEF DbtRefuses, Fail, dbtVars
  <2>7. CASE RunEnds(r) \/ DbtFails(r)
    BY <1>0, <1>3, <2>7 DEF RunEnds, DbtFails, Fail, DbtInv
  <2>8. CASE Retry(r)
    <3>1. task[r] = "dbt_again" => r \notin Syncs
      BY DEF DbtInv
    <3> QED
      BY <1>0, <1>2, <2>1, <2>8, <3>1 DEF Retry, BeginSync, BeginDbt, dbtVars
  <2>9. CASE \E m \in Models : \/ Query(r, m) \/ Commit(r, m)
                             \/ QueryFails(r, m) \/ TestFails(r, m)
    <3> PICK m \in Models : \/ Query(r, m) \/ Commit(r, m)
                           \/ QueryFails(r, m) \/ TestFails(r, m)
      BY <2>9
    <3>1. task[r] = "dbt" \/ model[r][m] = "running"
      BY DEF Query, Commit, QueryFails, TestFails
    <3>2. model[r] = Todo => model[r][m] # "running"
      BY DEF Todo
    <3>3. task[r] = "dbt" /\ task' = task
      BY <2>1, <3>1, <3>2 DEF Query, Commit, QueryFails, TestFails
    <3>4. model' = [model EXCEPT ![r] = model'[r]]
      BY DEF Query, Commit, QueryFails, TestFails
    <3> QED BY <1>4, <3>3, <3>4
  <2> QED
    BY <1>5, <2>2, <2>3, <2>4, <2>5, <2>6, <2>7, <2>8, <2>9, Zenon DEF Acts
<1>6. CASE \/ \E f \in Files : Publish(f) \/ Expire(f)
           \/ Tick
           \/ UNCHANGED vars
  BY <1>1, <1>6 DEF Publish, Expire, Tick, vars, dbtVars
<1> QED
  BY <1>5, <1>6, NextActs

\* While a builder has a query running, no other run has models under way.
LEMMA OthersRest ==
    ASSUME OneBuilder, DbtInv, NEW r \in Runs, NEW q \in Runs, q # r,
           NEW m \in Models, model[r][m] = "running" \/ task[r] = "dbt"
    PROVE \A k \in Models : model[q][k] = "todo"
<1>1. task[r] = "dbt" /\ r \notin Syncs
  BY DEF DbtInv, Todo
<1>2. q \in Syncs
  BY <1>1 DEF OneBuilder
<1> QED BY <1>2 DEF DbtInv, Todo

\* A step of one run leaves alone what another has under way.
LEMMA OthersKeep ==
    ASSUME TypeOK, NEW r \in Runs, NEW q \in Runs, q # r, Acts(q)
    PROVE /\ task'[r] = task[r] /\ listed'[r] = listed[r]
          /\ staged'[r] = staged[r] /\ sent'[r] = sent[r]
          /\ model'[r] = model[r] /\ read'[r] = read[r]
          /\ table' = table \/ \E m \in Models : model[q][m] = "running"
<1> USE DEF TypeOK, syncVars, dbtVars
<1>1. CASE StartRun(q) \/ CopyPart(q) \/ MirrorEnds(q) \/ StatFails(q)
  BY <1>1 DEF StartRun, BeginSync, CopyPart, MirrorEnds, StatFails
<1>2. CASE UploadPart(q) \/ UploadEnds(q) \/ RefreshTable(q) \/ EndSync(q)
  BY <1>2 DEF UploadPart, UploadEnds, Cleanup, RefreshTable, BeginDbt, EndSync
<1>3. CASE SyncFails(q) \/ RefreshFails(q) \/ DbtRefuses(q)
  BY <1>3 DEF SyncFails, RefreshFails, DbtRefuses, Fail, Cleanup
<1>4. CASE RunEnds(q) \/ DbtFails(q)
  BY <1>4 DEF RunEnds, DbtFails, DbtExits, Fail
<1>5. CASE Retry(q)
  BY <1>5 DEF Retry, BeginSync, BeginDbt
<1>6. CASE \E m \in Models : \/ Query(q, m) \/ Commit(q, m)
                           \/ QueryFails(q, m) \/ TestFails(q, m)
  BY <1>6 DEF Query, Commit, QueryFails, TestFails
<1> QED
  BY <1>1, <1>2, <1>3, <1>4, <1>5, <1>6, Zenon DEF Acts

\* What the models' queries read, in terms of the invariants below.
LEMMA SnapshotOf ==
    ASSUME TypeOK
    PROVE /\ \A k \in Ints : Snapshot(k) = gcs \cap Stream(k)
          /\ Snapshot(Fct) = IntRows
          /\ Snapshot(Rpt) = table[Fct]
<1>1. \A k \in Ints : Snapshot(k) = gcs \cap Stream(k)
  BY DEF Snapshot, Stream, TypeOK
<1>2. Refs(Fct) = Ints /\ Refs(Rpt) = {Fct}
  BY IntsAssumption DEF Refs, Fct, Rpt
<1>3. Snapshot(Fct) = IntRows
  BY <1>2, IntsAssumption DEF Snapshot, IntRows
<1>4. Snapshot(Rpt) = table[Fct]
  BY <1>2, IntsAssumption DEF Snapshot
<1> QED BY <1>1, <1>3, <1>4

\* While one run builds, it only adds to the tables.
LEMMA MartStep ==
    ASSUME OneBuilder, ~Rule, MartInv, [Next]_vars
    PROVE MartInv'
<1>0. TypeOK /\ DbtInv /\ DbtInv' /\ gcs \subseteq gcs' /\ Fct # Rpt
  BY DbtStep, GcsGrows DEF MartInv, DbtInv, Fct, Rpt
<1>1. CASE \E r \in Runs : DbtExits(r)
  <2>1. /\ UNCHANGED <<read, table>>
        /\ \A q \in Runs, m \in Models :
              model'[q][m] = "running" => model[q][m] = "running"
    BY <1>0, <1>1 DEF DbtExits, Todo, TypeOK
  <2> QED BY <1>0, <2>1 DEF MartInv, IntRows, Models
<1>2. CASE \E r \in Runs, m \in Models : Query(r, m)
  <2> PICK r \in Runs, m \in Models : Query(r, m)
    BY <1>2
  <2>1. /\ table' = table /\ gcs' = gcs
        /\ \A q \in Runs, k \in Models : q # r \/ k # m =>
              model'[q][k] = model[q][k] /\ read'[q][k] = read[q][k]
        /\ read'[r][m] = Snapshot(m)
    BY <1>0 DEF Query, syncVars, TypeOK
  <2>2. IntRows' = IntRows
    BY <2>1 DEF IntRows
  <2>3. CASE m \in Ints
    BY <1>0, <2>1, <2>2, <2>3, SnapshotOf, IntsAssumption DEF MartInv, Models
  <2>4. CASE m = Fct
    BY <1>0, <2>1, <2>2, <2>4, SnapshotOf, IntsAssumption DEF MartInv, Models
  <2>5. CASE m = Rpt
    BY <1>0, <2>1, <2>2, <2>5, IntsAssumption DEF MartInv, Models
  <2> QED BY <2>3, <2>4, <2>5 DEF Models
<1>3. CASE \E r \in Runs, m \in Models : Replaces(r, m)
  <2> PICK r \in Runs, m \in Models : Replaces(r, m)
    BY <1>3
  <2>1. /\ table'[m] = read[r][m] /\ model'[r][m] # "running"
        /\ \A k \in Models \ {m} : table'[k] = table[k]
        /\ \A k \in Models \ {m} :
              model'[r][k] = model[r][k] /\ read'[r][k] = read[r][k]
    BY <1>0 DEF Replaces, TypeOK
  <2>0. \A q \in Runs \ {r}, k \in Models : model'[q][k] # "running"
    <3>1. \A q \in Runs \ {r}, k \in Models : model[q][k] = "todo"
      BY <1>0, OthersRest DEF Replaces
    <3>2. \A q \in Runs \ {r} : model'[q] = model[q]
      BY <1>0 DEF Replaces, TypeOK
    <3> QED BY <3>1, <3>2
  <2>2. CASE m \in Ints
    <3>1. table[m] \subseteq table'[m]
      BY <2>1, <2>2 DEF Replaces, MartInv
    <3>2. IntRows \subseteq IntRows'
      BY <2>1, <3>1 DEF IntRows, Models
    <3> QED
      BY <1>0, <2>0, <2>1, <2>2, <3>2, IntsAssumption DEF Replaces, MartInv, Models
  <2>3. CASE m = Fct
    <3>1. IntRows' = IntRows
      BY <2>1, <2>3, IntsAssumption DEF IntRows, Models
    <3> QED
      BY <1>0, <2>0, <2>1, <2>3, <3>1, IntsAssumption DEF Replaces, MartInv, Models
  <2>4. CASE m = Rpt
    <3>1. IntRows' = IntRows
      BY <2>1, <2>4, IntsAssumption DEF IntRows, Models
    <3> QED
      BY <1>0, <2>0, <2>1, <2>4, <3>1, IntsAssumption DEF MartInv, Models
  <2> QED BY <2>2, <2>3, <2>4 DEF Models
<1>4. CASE \E r \in Runs, m \in Models : QueryFails(r, m)
  <2> PICK r \in Runs, m \in Models : QueryFails(r, m)
    BY <1>4
  <2>1. /\ table' = table
        /\ model'[r][m] # "running"
        /\ \A q \in Runs, k \in Models : q # r \/ k # m =>
              model'[q][k] = model[q][k] /\ read'[q][k] = read[q][k]
    BY <1>0 DEF QueryFails, TypeOK
  <2>2. IntRows' = IntRows
    BY <2>1 DEF IntRows
  <2> QED
    BY <1>0, <2>1, <2>2 DEF MartInv, Models
<1>5. CASE UNCHANGED <<model, read, table>>
  BY <1>0, <1>5 DEF MartInv, IntRows
<1> QED
  BY <1>0, DbtFrame, <1>1, <1>2, <1>3, <1>4, <1>5

\* With one builder at a time and no lifecycle rule the tables only grow.
THEOREM MartInvariant ==
    ASSUME OneBuilder, ~Rule
    PROVE Spec => []MartInv
<1>1. Init => MartInv
  <2> SUFFICES ASSUME Init PROVE MartInv
    OBVIOUS
  <2>1. DbtInv
    BY TypeInit, SyncsAssumption DEF Init, DbtInv
  <2>2. /\ \A m \in Models : table[m] = {}
        /\ \A r \in Runs, m \in Models : model[r][m] = "todo"
    BY DEF Init, Nothing, Todo
  <2> QED BY <2>1, <2>2 DEF MartInv, Models
<1> QED
  BY <1>1, MartStep, PTL DEF Spec

(***************************************************************************)
(* The mart implements a replica of GCS although its tables are built one  *)
(* after the other from snapshots of different moments, while syncs go on  *)
(* uploading beside them (fct_market_metrics.sql:82-101): one builder at a *)
(* time never takes a part back, through failures, skipped models and      *)
(* retries.                                                                *)
(***************************************************************************)
THEOREM MartReplicatesGcs ==
    ASSUME OneBuilder, ~Rule
    PROVE Spec => MartIsReplicated
<1>1. Init => Mart!ReplicaInit
  BY DEF Init, Mart!ReplicaInit, Nothing, Models
<1>2. MartInv /\ MartInv' /\ [Next]_vars
         => [Mart!Grow \/ Mart!Refresh]_(Mart!replicaVars)
  <2> SUFFICES ASSUME MartInv, MartInv', [Next]_vars
               PROVE [Mart!Grow \/ Mart!Refresh]_(Mart!replicaVars)
    OBVIOUS
  <2> USE DEF Mart!Grow, Mart!Refresh, Mart!replicaVars
  <2>0. TypeOK /\ TypeOK' /\ gcs \subseteq gcs' /\ Fct \in Models
    BY GcsGrows DEF MartInv, DbtInv, Models
  <2>1. CASE table'[Fct] = table[Fct]
    BY <2>0, <2>1 DEF TypeOK
  <2>2. CASE table'[Fct] # table[Fct]
    <3>1. PICK r \in Runs, m \in Models : Replaces(r, m)
      BY <2>0, <2>2, DbtFrame DEF DbtExits, Query, QueryFails
    <3>2. m = Fct
      BY <2>0, <2>2, <3>1 DEF Replaces, TypeOK
    <3>3. /\ table[Fct] \subseteq table'[Fct] /\ table'[Fct] \subseteq IntRows
          /\ gcs' = gcs
      BY <2>0, <3>1, <3>2 DEF Replaces, MartInv, TypeOK
    <3>4. IntRows \subseteq gcs
      BY DEF IntRows, MartInv
    <3> QED BY <3>3, <3>4
  <2> QED BY <2>1, <2>2
<1> QED
  BY <1>1, <1>2, MartInvariant, PTL
     DEF Spec, MartIsReplicated, Mart!ReplicaSafety

-----------------------------------------------------------------------------
\* While one run builds, what it lists arrives in the tables it completes.
LEMMA DeliveryStep ==
    ASSUME OneBuilder, ~Rule, ~Blind, Shares = Runs, DeliveryInv, [Next]_vars
    PROVE DeliveryInv'
<1>0. /\ TypeOK /\ DbtInv /\ DbtInv' /\ SyncInv'
      /\ gcs \subseteq gcs' /\ Fct # Rpt
  BY DbtStep, SyncStep, GcsGrows DEF DeliveryInv, DbtInv, Fct, Rpt
<1>a. SUFFICES ASSUME NEW r \in Runs
      PROVE /\ task'[r] = "upload" => listed'[r] \subseteq staged'[r]
            /\ task'[r] \in AfterSync => listed'[r] \subseteq gcs'
            /\ task'[r] = "dbt" =>
                  /\ \A k \in Ints : Carries(r, k, listed[r] \cap Stream(k))'
                  /\ Carries(r, Fct, listed[r])' /\ Carries(r, Rpt, listed[r])'
  BY <1>0 DEF DeliveryInv
<1> USE DEF AfterSync, Carries
<1>1. CASE UNCHANGED vars \/ Tick
  BY <1>0, <1>1 DEF vars, Tick, syncVars, dbtVars, DeliveryInv, Stream
<1>2. CASE \E f \in Files : Publish(f) \/ Expire(f)
  BY <1>0, <1>2 DEF Publish, Expire, syncVars, dbtVars, DeliveryInv, Stream
<1>3. CASE BeginSync(r)
  BY <1>0, <1>3 DEF BeginSync, TypeOK
<1>4. CASE BeginDbt(r) /\ task[r] \in AfterSync \ {"dbt"}
  <2>1. \A m \in Models : model'[r][m] = "todo"
    BY <1>0, <1>4 DEF BeginDbt, dbtVars, DbtInv, Todo, TypeOK
  <2>2. task'[r] = "dbt" /\ UNCHANGED <<gcs, listed, staged>>
    BY <1>0, <1>4 DEF BeginDbt, syncVars, TypeOK
  <2> QED BY <1>4, <2>1, <2>2 DEF DeliveryInv, Models
<1>5. CASE /\ task' = [task EXCEPT ![r] = "refresh"]
           /\ task[r] \in AfterSync
           /\ UNCHANGED <<gcs, listed, staged>>
  BY <1>0, <1>5 DEF DeliveryInv, TypeOK
<1>6. CASE CopyPart(r) \/ MirrorEnds(r) \/ UploadPart(r)
  <2>1. CASE CopyPart(r)
    BY <1>0, <2>1 DEF CopyPart, TypeOK
  <2>2. CASE MirrorEnds(r)
    BY <1>0, <2>2 DEF MirrorEnds, syncVars, TypeOK
  <2>3. CASE UploadPart(r)
    BY <1>0, <2>3 DEF UploadPart, DeliveryInv
  <2> QED BY <1>6, <2>1, <2>2, <2>3
<1>7. CASE UploadEnds(r)
  <2>1. staged[r] \subseteq sent[r] /\ sent[r] \subseteq gcs
    BY <1>7 DEF UploadEnds, Local, DeliveryInv, SyncInv
  <2>2. listed[r] \subseteq staged[r]
    BY <1>7 DEF UploadEnds, DeliveryInv
  <2>3. task'[r] = "refresh" /\ listed' = listed
    BY <1>0, <1>7 DEF UploadEnds, Cleanup, TypeOK
  <2> QED BY <1>0, <2>1, <2>2, <2>3
<1>8. CASE RunEnds(r) \/ EndSync(r)
  BY <1>0, <1>8 DEF RunEnds, EndSync, TypeOK
<1>9. CASE \E again \in {"sync_again", "refresh_again", "dbt_again"} :
              /\ Fail(r, again) /\ listed' = listed
              /\ again # "sync_again" => task[r] \in AfterSync
  <2>1. task'[r] \in {"idle", "sync_again"} \/
           (task'[r] \in {"refresh_again", "dbt_again"} /\ task[r] \in AfterSync)
    BY <1>0, <1>9 DEF Fail, TypeOK
  <2>2. UNCHANGED <<gcs, listed>>
    BY <1>9 DEF Fail
  <2> QED BY <2>1, <2>2 DEF DeliveryInv
<1>10. CASE \E m \in Models : Query(r, m)
  <2> PICK m \in Models : Query(r, m)
    BY <1>10
  <2>1. /\ UNCHANGED <<task, gcs, listed, staged, table>>
        /\ task[r] = "dbt" /\ model'[r][m] = "running"
        /\ \A k \in Models \ {m} : model'[r][k] = model[r][k] /\ read'[r][k] = read[r][k]
        /\ read'[r][m] = Snapshot(m)
        /\ \A k \in Refs(m) : model[r][k] = "done"
    BY <1>0 DEF Query, Ready, syncVars, TypeOK
  <2>2. listed[r] \subseteq gcs /\ listed[r] \subseteq Files
    BY <1>0, <2>1 DEF DeliveryInv, TypeOK
  <2>3. /\ \A k \in Ints : Carries(r, k, listed[r] \cap Stream(k))
        /\ Carries(r, Fct, listed[r]) /\ Carries(r, Rpt, listed[r])
    BY <2>1 DEF DeliveryInv
  <2>4. CASE m \in Ints
    BY <1>0, <2>1, <2>2, <2>3, <2>4, SnapshotOf, IntsAssumption
       DEF Stream, Models
  <2>5. CASE m = Fct
    <3>1. Refs(m) = Ints
      BY <2>5, IntsAssumption DEF Refs, Fct, Rpt
    <3>2. ASSUME NEW f \in listed[r] PROVE f \in IntRows
      <4>1. Reader[f] \in Ints /\ f \in Stream(Reader[f])
        BY <2>2, ReaderAssumption DEF Stream
      <4>2. f \in table[Reader[f]]
        BY <2>1, <3>1, <4>1 DEF DeliveryInv
      <4> QED BY <4>1, <4>2 DEF IntRows
    <3> QED
      BY <1>0, <2>1, <2>2, <2>3, <2>5, <3>2, SnapshotOf, IntsAssumption
         DEF Stream, Models
  <2>6. CASE m = Rpt
    <3>1. Refs(m) = {Fct}
      BY <2>6, IntsAssumption DEF Refs, Fct, Rpt
    <3> QED
      BY <1>0, <2>1, <2>2, <2>3, <2>6, <3>1, SnapshotOf, IntsAssumption
         DEF Stream, Models
  <2> QED BY <2>4, <2>5, <2>6 DEF Models
<1>11. CASE \E m \in Models : Replaces(r, m)
  <2> PICK m \in Models : Replaces(r, m)
    BY <1>11
  <2>1. /\ UNCHANGED <<task, gcs, listed, staged>>
        /\ model[r][m] = "running" /\ model'[r][m] \in {"done", "failed"}
        /\ table'[m] = read[r][m]
        /\ \A k \in Models \ {m} : /\ model'[r][k] = model[r][k]
                                   /\ read'[r][k] = read[r][k]
                                   /\ table'[k] = table[k]
    BY <1>0 DEF Replaces, TypeOK
  <2>2. CASE task[r] = "dbt"
    <3>1. /\ \A k \in Ints : Carries(r, k, listed[r] \cap Stream(k))
          /\ Carries(r, Fct, listed[r]) /\ Carries(r, Rpt, listed[r])
      BY <2>2 DEF DeliveryInv
    <3>2. /\ task'[r] = "dbt" /\ listed' = listed /\ gcs' = gcs /\ staged' = staged
      BY <2>1, <2>2
    <3>3. listed[r] \subseteq gcs
      BY <2>2 DEF DeliveryInv, AfterSync
    <3>4. \A k \in Ints : Carries(r, k, listed[r] \cap Stream(k))'
      BY <2>1, <3>1, <3>2 DEF Carries, Stream, Models
    <3>5. Carries(r, Fct, listed[r])' /\ Carries(r, Rpt, listed[r])'
      BY <2>1, <3>1, <3>2 DEF Carries, Models
    <3> QED BY <1>0, <3>2, <3>3, <3>4, <3>5 DEF DeliveryInv
  <2>3. CASE task[r] # "dbt"
    <3>1. /\ task'[r] # "dbt" /\ task'[r] = task[r] /\ listed'[r] = listed[r]
          /\ staged'[r] = staged[r] /\ gcs' = gcs
      BY <2>1, <2>3
    <3> QED BY <1>0, <3>1 DEF DeliveryInv
  <2> QED BY <2>2, <2>3
<1>12. CASE \E m \in Models : QueryFails(r, m)
  <2> PICK m \in Models : QueryFails(r, m)
    BY <1>12
  <2>1. /\ UNCHANGED <<task, gcs, listed, staged, table>>
        /\ model'[r][m] = "failed"
        /\ \A k \in Models \ {m} : model'[r][k] = model[r][k] /\ read'[r][k] = read[r][k]
    BY <1>0 DEF QueryFails, syncVars, TypeOK
  <2>2. CASE task[r] = "dbt"
    <3>1. /\ \A k \in Ints : Carries(r, k, listed[r] \cap Stream(k))
          /\ Carries(r, Fct, listed[r]) /\ Carries(r, Rpt, listed[r])
      BY <2>2 DEF DeliveryInv
    <3> QED BY <1>0, <2>1, <2>2, <3>1 DEF DeliveryInv, Stream, Models
  <2>3. CASE task[r] # "dbt"
    <3>1. /\ task'[r] # "dbt" /\ task'[r] = task[r] /\ listed'[r] = listed[r]
          /\ staged'[r] = staged[r] /\ gcs' = gcs
      BY <2>1, <2>3
    <3> QED BY <1>0, <3>1 DEF DeliveryInv
  <2> QED BY <2>2, <2>3
<1>13. CASE StartRun(r) \/ Retry(r)
  <2>1. CASE BeginSync(r)
    BY <1>3, <2>1
  <2>2. CASE Retry(r) /\ task[r] = "refresh_again"
             /\ task' = [task EXCEPT ![r] = "refresh"] /\ UNCHANGED syncVars
    BY <1>5, <2>2 DEF syncVars
  <2>3. CASE BeginDbt(r) /\ task[r] = "dbt_again"
    BY <1>4, <2>3
  <2> QED BY <1>13, <2>1, <2>2, <2>3 DEF StartRun, Retry
<1>14. CASE RefreshTable(r)
  BY <1>4, <1>14 DEF RefreshTable
<1>15. CASE \E m \in Models : Commit(r, m) \/ TestFails(r, m)
  BY <1>11, <1>15 DEF Commit, TestFails, Replaces, syncVars
<1>16. CASE SyncFails(r) \/ RefreshFails(r) \/ DbtRefuses(r) \/ DbtFails(r)
  BY <1>9, <1>16 DEF SyncFails, RefreshFails, DbtRefuses, DbtFails, Cleanup, syncVars
<1>17. ~StatFails(r)
  BY DEF StatFails
<1>18. ASSUME NEW q \in Runs, q # r, Acts(q)
       PROVE /\ task'[r] = "upload" => listed'[r] \subseteq staged'[r]
             /\ task'[r] \in AfterSync => listed'[r] \subseteq gcs'
             /\ task'[r] = "dbt" =>
                   /\ \A k \in Ints : Carries(r, k, listed[r] \cap Stream(k))'
                   /\ Carries(r, Fct, listed[r])' /\ Carries(r, Rpt, listed[r])'
  <2>1. /\ task'[r] = task[r] /\ listed'[r] = listed[r]
        /\ staged'[r] = staged[r]
        /\ model'[r] = model[r] /\ read'[r] = read[r]
    BY <1>0, <1>18, OthersKeep
  <2>2. task[r] = "dbt" => table' = table
    BY <1>0, <1>18, OthersKeep, OthersRest
  <2> QED BY <1>0, <2>1, <2>2 DEF DeliveryInv, Stream
<1>19. CASE Acts(r)
  BY <1>6, <1>7, <1>8, <1>10, <1>12, <1>13, <1>14, <1>15, <1>16, <1>17, <1>19, Zenon
     DEF Acts
<1> QED
  BY NextActs, <1>1, <1>2, <1>18, <1>19, Zenon

\* A run that builds alone, on the host whose disk its mirror writes to and
\* with a source it can see, loses nothing it has listed, whoever syncs beside it.
THEOREM DeliveryInvariant ==
    ASSUME OneBuilder, ~Rule, ~Blind, Shares = Runs
    PROVE Spec => []DeliveryInv
<1>1. Init => DeliveryInv
  BY TypeInit, SyncsAssumption DEF Init, DeliveryInv, DbtInv, SyncInv, AfterSync
<1> QED
  BY <1>1, DeliveryStep, PTL DEF Spec

(***************************************************************************)
(* A run that succeeds has brought what MinIO showed when its last sync    *)
(* began into the mart and the report, whichever of its tasks failed once  *)
(* before (TESTING_README.md:325).                                         *)
(***************************************************************************)
THEOREM SuccessfulRunDelivers ==
    ASSUME OneBuilder, ~Rule, ~Blind, Shares = Runs
    PROVE Spec => GoldMatchesBronze
<1>1. DeliveryInv /\ [Next]_vars =>
         [\A r \in Runs : RunEnds(r) =>
             listed[r] \subseteq table[Fct] \cap table[Rpt]]_vars
  BY DEF DeliveryInv, Carries, RunEnds, Built, Models
<1> QED
  BY <1>1, DeliveryInvariant, PTL DEF Spec, GoldMatchesBronze

=============================================================================
