--------------------------- MODULE MCWsConnection ---------------------------
(* Both streams, one at a time; the configurations give the bounds. *)
EXTENDS WsConnection

=============================================================================
