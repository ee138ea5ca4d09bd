----------------------------- MODULE MCPipeline -----------------------------
(***************************************************************************)
(* Instances of Pipeline for TLC.                                          *)
(***************************************************************************)
EXTENDS Pipeline, TLC

CONSTANTS a, b, c, p1, p2   \* three symbols and two partitions

\* The hash of a and of c is the same.
MCPartition == [symbol \in Symbols |-> IF symbol = b THEN p2 ELSE p1]

\* What distinguishes a from c is their name.
Symmetry == Permutations({a, c})

=============================================================================
