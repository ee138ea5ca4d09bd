---------------------------- MODULE MCValidator ----------------------------
(***************************************************************************)
(* Instances of Validator for TLC.                                         *)
(***************************************************************************)
EXTENDS Validator

\* One partition each of raw.trades.v1, raw.depth.v1 and raw.coingecko.v1.
CONSTANTS trades, depth, coingecko

=============================================================================
