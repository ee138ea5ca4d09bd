---------------------------- MODULE MCProducers ----------------------------
(***************************************************************************)
(* Instances of Producers for TLC.                                         *)
(***************************************************************************)
EXTENDS Producers

=============================================================================
