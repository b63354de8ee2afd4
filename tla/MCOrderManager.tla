--------------------------- MODULE MCOrderManager ---------------------------
(* Small instances of OrderManager for TLC. *)
EXTENDS OrderManager

=============================================================================
