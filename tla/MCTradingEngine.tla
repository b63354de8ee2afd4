--------------------------- MODULE MCTradingEngine --------------------------
(* Small instances of TradingEngine for TLC. *)
EXTENDS TradingEngine

(* Bound on the search: behaviours with the last quote have no call that    *)
(* goes wrong, the others may have MaxFaults of them.                       *)
LastQuoteOrFaults == emitted < MaxQuotes \/ faults = 0

=============================================================================
