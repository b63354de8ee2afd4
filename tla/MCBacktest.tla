----------------------------- MODULE MCBacktest -----------------------------
(* Small instances of Backtest for TLC. *)
EXTENDS Backtest

=============================================================================
