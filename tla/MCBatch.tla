------------------------------ MODULE MCBatch ------------------------------
(***************************************************************************)
(* Instances of Batch for TLC.                                             *)
(***************************************************************************)
EXTENDS Batch

CONSTANTS f1, f2, r1, r2   \* parts and runs

\* The first part holds trades, the second quotes; or both hold trades.
MCReader == [f \in Files |-> IF f = f1 THEN "int_ohlcv_1m" ELSE "int_rest_quotes_1m"]
MCTrades == [f \in Files |-> "int_ohlcv_1m"]

=============================================================================
