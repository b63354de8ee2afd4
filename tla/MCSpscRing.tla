----------------------------- MODULE MCSpscRing -----------------------------
(* A ring of four slots shared by two producers, for TLC. *)
EXTENDS SpscRing

=============================================================================
