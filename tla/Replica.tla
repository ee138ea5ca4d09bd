------------------------------ MODULE Replica ------------------------------
(***************************************************************************)
(* What every hop of the batch lane promises its reader: a copy that holds *)
(* nothing its source did not have, and gives nothing back.  MinIO to GCS  *)
(* is one such hop, GCS to the mart another.                               *)
(***************************************************************************)
CONSTANT Items

VARIABLES source, copy

replicaVars == <<source, copy>>

ReplicaInit == source = {} /\ copy = {}

Grow == /\ source' \in SUBSET Items
        /\ source \subseteq source'
        /\ UNCHANGED copy

Refresh == /\ copy' \in SUBSET source
           /\ copy \subseteq copy'
           /\ UNCHANGED source

ReplicaSafety == ReplicaInit /\ [][Grow \/ Refresh]_replicaVars

=============================================================================
