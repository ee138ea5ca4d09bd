--------------------------- MODULE MCBronzeSink ---------------------------
(***************************************************************************)
(* Instances of BronzeSink for TLC.                                        *)
(***************************************************************************)
EXTENDS BronzeSink, TLC

\* Splits and submissions are interchangeable in the safety properties.
Symmetry == Permutations(Splits) \cup Permutations(Jobs)

=============================================================================
