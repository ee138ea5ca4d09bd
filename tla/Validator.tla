----------------------------- MODULE Validator -----------------------------
(***************************************************************************)
(* scripts/validate_bronze_offsets.py beside a running archive: it sums    *)
(* the end offsets of the partitions its consumer was given, later counts  *)
(* the rows of the whole bronze prefix, and prints the difference.         *)
(*                                                                         *)
(* The archive is BronzeArchive, which the Flink job implements; a row may *)
(* be in the bucket several times, which a count sees and a set does not.  *)
(***************************************************************************)
EXTENDS BronzeArchive, Integers, FiniteSets, FiniteSetsExt

CONSTANTS Listed,      \* the splits of the topics given with --topics
          MaxCopies    \* bound on the additional copies of rows

ASSUME ListedAssumption == Listed \subseteq Splits
ASSUME SplitsAssumption == IsFiniteSet(Splits) /\ MaxOffset \in Nat
ASSUME CopiesAssumption == MaxCopies \in Nat

VARIABLES
    copies,    \* rows of bronze beyond the first of each record
    step,      \* the next of main's steps
    summed,    \* [a subset of Listed -> Nat]: the end offsets it has read
    rows       \* the rows it has counted

validatorVars == <<step, summed, rows>>
vars == <<archiveVars, copies, validatorVars>>

Init == /\ ArchiveInit
        /\ copies = 0
        /\ step = 1
        /\ summed = <<>>
        /\ rows = 0

\* Producers, job and commits go on meanwhile.
ArchiveStep == ArchiveNext /\ UNCHANGED <<copies, validatorVars>>

\* A replay or a second submission archives a row once more.
ArchiveAgain == /\ serving
                /\ archived # {}
                /\ copies < MaxCopies
                /\ copies' = copies + 1
                /\ UNCHANGED <<archiveVars, validatorVars>>

\* Mutation: the rows are counted before the offsets are read.
CountFirst == <<"rows", "offsets">>

\* The order in which main reads the two sides.
Order == <<"offsets", "rows">>

At(read) == step \in DOMAIN Order /\ Order[step] = read /\ step' = step + 1
Done == step \notin DOMAIN Order

\* Mutation: the high watermark taken for the last record's offset.
SumOfLast(assigned) ==
    /\ At("offsets")
    /\ summed' = [s \in assigned |-> log[s] + 1]
    /\ UNCHANGED <<archiveVars, copies, rows>>

\* _sum_end_offsets: the group's coordinator gives this consumer all of the
\* partitions, or some (the group id is a default others use too), or none
\* within the poll's timeout.
SumEndOffsets(assigned) ==
    /\ At("offsets")
    /\ summed' = [s \in assigned |-> log[s]]
    /\ UNCHANGED <<archiveVars, copies, rows>>

\* _count_parquet_s3: every row below the prefix, of whichever stream.
CountRows == /\ At("rows")
             /\ rows' = Cardinality(archived) + copies
             /\ UNCHANGED <<archiveVars, copies, summed>>

Next == \/ ArchiveStep
        \/ ArchiveAgain
        \/ \E assigned \in SUBSET Listed : SumEndOffsets(assigned)
        \/ CountRows

Spec == Init /\ [][Next]_vars

-----------------------------------------------------------------------------
\* delta_parquet_minus_kafka
Delta == rows - MapThenSumSet(LAMBDA s : summed[s], DOMAIN summed)

\* What it summed and a reader of the bucket cannot see.
Missing == {r \in Splits \X Offsets : r[1] \in DOMAIN summed
                                      /\ r[2] < summed[r[1]] /\ r \notin archived}

TypeOK == /\ log \in [Splits -> 0 .. MaxOffset]
          /\ archived \subseteq Splits \X Offsets
          /\ serving \in BOOLEAN
          /\ copies \in 0 .. MaxCopies
          /\ step \in 1 .. 3
          /\ summed \in UNION {[A -> 0 .. MaxOffset] : A \in SUBSET Listed}
          /\ rows \in 0 .. Cardinality(Splits) * MaxOffset + MaxCopies

(***************************************************************************)
(* A lag it reports is a lag: whatever is produced, archived or duplicated *)
(* between its two readings and whichever partitions it was given, a       *)
(* negative difference means that records it summed were not in bronze     *)
(* when it counted, at least as many as it says                            *)
(* (validate_bronze_offsets.py:45, 80, 113-120).                           *)
(***************************************************************************)
ReportedLagIsReal ==
    [][Done' /\ ~Done => (-Delta)' <= Cardinality(Missing')]_vars

=============================================================================
