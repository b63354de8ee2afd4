----------------------------- MODULE MCPgReporter ---------------------------
(* Small instances of PgReporter for TLC. *)
EXTENDS PgReporter

=============================================================================
