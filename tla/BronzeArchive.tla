--------------------------- MODULE BronzeArchive ---------------------------
(***************************************************************************)
(* What the bronze layer promises its readers, with no Flink in sight: an  *)
(* append-only log per Kafka split, and a set of archived rows that only   *)
(* ever grows, holds nothing that was not produced, and, while a job       *)
(* serves the archive, ends up holding everything that was.                *)
(***************************************************************************)
EXTENDS Naturals

CONSTANTS Splits,      \* the (topic, partition) pairs the four sources read
          MaxOffset    \* bound on the records produced to one split

VARIABLES log,         \* [Splits -> Nat]: records the broker holds
          archived,    \* rows <<split, offset>> a reader of bronze can see
          serving      \* is some job reading the topics?

archiveVars == <<log, archived, serving>>

Offsets == 0 .. MaxOffset - 1

ArchiveInit == /\ log = [s \in Splits |-> 0]
               /\ archived = {}
               /\ serving = FALSE

Produced(s) == /\ log[s] < MaxOffset
               /\ log' = [log EXCEPT ![s] = @ + 1]
               /\ UNCHANGED <<archived, serving>>

\* A commit publishes any number of produced rows at once (one part file).
Archive(rows) == /\ serving
                 /\ \A r \in rows : r[2] < log[r[1]]
                 /\ archived' = archived \cup rows
                 /\ UNCHANGED <<log, serving>>

\* A job is submitted, or the last one is lost.
Serve(b) == /\ serving' = b
            /\ UNCHANGED <<log, archived>>

ArchiveNext == \/ \E s \in Splits : Produced(s)
               \/ \E rows \in SUBSET (Splits \X Offsets) : Archive(rows)
               \/ \E b \in BOOLEAN : Serve(b)

\* The safety half: rows are produced, then archived, and never taken back.
ArchiveSafety == ArchiveInit /\ [][ArchiveNext]_archiveVars

\* The liveness half: a row of a served log is archived, unless the archive
\* stops being served.
EventuallyArchived ==
    \A s \in Splits, o \in Offsets :
        (serving /\ o < log[s]) ~> (<<s, o>> \in archived \/ ~serving)

=============================================================================
