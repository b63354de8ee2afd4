--------------------------- MODULE FillAccounting ---------------------------
(***************************************************************************)
(* What a fill of a signed quantity n at price p does to a position of i   *)
(* lots entered at the mean price e: the arithmetic of                     *)
(* PositionTracker::apply_fill and of the simulator's own apply_inv_fill.  *)
(* Prices are multiples of a number large enough for every mean to be      *)
(* whole.                                                                  *)
(***************************************************************************)
EXTENDS Integers

Abs(n) == IF n < 0 THEN -n ELSE n
Least(m, n) == IF m < n THEN m ELSE n

SameDirection(i, n) == (i > 0 /\ n > 0) \/ (i < 0 /\ n < 0)
Mean(i, e, n, p) == (Abs(i) * e + Abs(n) * p) \div (Abs(i) + Abs(n))

(* The entry price after the fill: of a position opened, enlarged, flipped, *)
(* closed, reduced.                                                         *)
EntryKeptOnFlip(i, e, n, p) ==
  CASE i = 0 -> p
    [] i # 0 /\ SameDirection(i, n) -> Mean(i, e, n, p)
    [] i # 0 /\ ~SameDirection(i, n) /\ i + n = 0 -> 0
    [] OTHER -> e
Entry(i, e, n, p) ==
  CASE i = 0 -> p
    [] i # 0 /\ SameDirection(i, n) -> Mean(i, e, n, p)
    [] i # 0 /\ ~SameDirection(i, n) /\ Abs(n) > Abs(i) -> p
    [] i # 0 /\ ~SameDirection(i, n) /\ i + n = 0 -> 0
    [] OTHER -> e

(* The P&L the fill realizes: on the part that closes, not on the rest. *)
Gain(i, e, n, p) ==
  IF i = 0 \/ SameDirection(i, n) THEN 0
  ELSE (IF i > 0 THEN 1 ELSE -1) * Least(Abs(i), Abs(n)) * (p - e)

(* The simulator's entry price: a closed position keeps its old one, which  *)
(* query_positions does not report.                                         *)
SimEntryReduced(i, e, n, p) ==
  CASE i = 0 -> p
    [] i # 0 /\ (SameDirection(i, n) \/ i + n # 0) -> Mean(i, e, n, p)
    [] OTHER -> e
SimEntry(i, e, n, p) ==
  CASE i = 0 -> p
    [] i # 0 /\ SameDirection(i, n) -> Mean(i, e, n, p)
    [] i # 0 /\ ~SameDirection(i, n) /\ i * (i + n) < 0 -> p
    [] OTHER -> e

=============================================================================
