------------------------- MODULE SimulatedExchange --------------------------
(***************************************************************************)
(* execution::SimulatedRestClient (src/execution/simulated_rest_client.cpp)*)
(* as the operators a single-threaded backtest calls: each takes the state *)
(* of the backtest, a record s, and returns the one after the call.        *)
(*   s.pending          the resting orders: [cid, side, price, executed]   *)
(*   s.simInv, simEntry the simulator's own position                       *)
(*   s.top              the book it was last told                          *)
(*   s.inv, ae, realized, cash  PositionTracker, which the fill callback   *)
(*                      updates, and the money paid and received           *)
(* Every order is for Qty lots.                                            *)
(***************************************************************************)
EXTENDS FillAccounting, FiniteSetsExt

CONSTANTS
  Qty,        (* strategy.quote_qty, in lots                            *)
  HalfSpread  (* distance of a best price from the mid                  *)

Sides == {"BID", "ASK"}
Other(side) == IF side = "BID" THEN "ASK" ELSE "BID"
Sign(side) == IF side = "BID" THEN 1 ELSE -1

Bid(b) == b.mid - HalfSpread
Ask(b) == b.mid + HalfSpread

(* The fill callback: PositionTracker::apply_fill. *)
Tracked(s, n, p) ==
  [s EXCEPT !.inv = s.inv + n,
            !.ae = Entry(s.inv, s.ae, n, p),
            !.realized = s.realized + Gain(s.inv, s.ae, n, p),
            !.cash = s.cash - n * p]

(* apply_inv_fill and the callback *)
Filled(s, n, p) ==
  Tracked([s EXCEPT !.simInv = s.simInv + n,
                    !.simEntry = SimEntry(s.simInv, s.simEntry, n, p)], n, p)

Crossed(s, o) == IF o.side = "BID" THEN Ask(s.top) <= o.price ELSE Bid(s.top) >= o.price

(* Each order by itself, and on every scan, meets the whole displayed size. *)
FillQty(s, o) == Least(Qty - o.executed, s.top.size)

(* scan_fills, for one order: a filled order leaves the book. *)
FillOne(s, o) ==
  IF ~Crossed(s, o) THEN s
  ELSE LET q == FillQty(s, o)
           rest == IF o.executed + q < Qty THEN {[o EXCEPT !.executed = o.executed + q]} ELSE {}
       IN Filled([s EXCEPT !.pending = (s.pending \ {o}) \cup rest], Sign(o.side) * q, o.price)

(* The orders of one side, then of the other: the hash table's order. *)
ScanSide(s, side) ==
  FoldSet(LAMBDA o, t : FillOne(t, o), s, {o \in s.pending : o.side = side})
ScanFills(s, first) == ScanSide(ScanSide(s, first), Other(first))

UpdateMarket(s, top, first) == ScanFills([s EXCEPT !.top = top], first)

(* place_order never fails; the new order may fill at once. *)
PlaceOrder(s, cid, side, price, first) ==
  LET o == [cid |-> cid, side |-> side, price |-> price, executed |-> 0]
  IN ScanFills([s EXCEPT !.pending = s.pending \cup {o}], first)

(* cancel_order succeeds, also for an order that has gone. *)
CancelUnknown(s, cid) == s
CancelOrder(s, cid) == [s EXCEPT !.pending = {o \in s.pending : o.cid # cid}]

=============================================================================
