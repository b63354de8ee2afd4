------------------------------ MODULE Exchange ------------------------------
(***************************************************************************)
(* The trading venue as the engine sees it: resting orders, the account's  *)
(* net position and the stream of fill events of the private WebSocket.    *)
(* Not part of the repository; modelled from the REST calls of             *)
(* execution/i_rest_client.hpp and from the "orders" events                *)
(* market_data/okx_private_ws_client.cpp consumes.                         *)
(*                                                                         *)
(* Every order is for Qty lots.  An event carries the quantity of the fill *)
(* and acc, the order's cumulative filled quantity (accFillSz of the wire  *)
(* format; the engine reads only fillSz).                                  *)
(***************************************************************************)
EXTENDS Integers, Sequences

CONSTANTS
  Qty,       (* lots of every limit order (config: strategy.quote_qty) *)
  MaxFaults  (* bound: REST calls and events that may go wrong         *)

ASSUME ExchangeAssumption ==
  /\ Qty \in Nat \ {0}
  /\ MaxFaults \in Nat

VARIABLES
  live,        (* the resting limit orders                             *)
  position,    (* net position of the account, in lots                 *)
  feed,        (* fill events sent and not yet consumed by the engine  *)
  subscribed,  (* the private stream is up                             *)
  undelivered, (* net quantity of the fills the engine will never see  *)
  faults       (* calls and events that went wrong so far              *)

exchangeVars == <<live, position, feed, subscribed, undelivered, faults>>

Sides == {"BID", "ASK"}
Sign(side) == IF side = "BID" THEN 1 ELSE -1
Orders == [cid : Nat, side : Sides, rem : 1..Qty]
Events == [cid : Nat, side : Sides, qty : Nat \ {0}, acc : Nat]

ExchangeInit ==
  /\ live = {}
  /\ position = 0
  /\ feed = <<>>
  /\ subscribed = TRUE
  /\ undelivered = 0
  /\ faults = 0

CanFail == faults < MaxFaults
Fault == CanFail /\ faults' = faults + 1
NoFault == UNCHANGED faults

Accepted(cid, side) == live \cup {[cid |-> cid, side |-> side, rem |-> Qty]}
Without(cid) == {o \in live : o.cid # cid}

(* A fill reaches the engine through the private stream, unless the stream *)
(* is down when it happens: nothing replays it afterwards.  A short outage  *)
(* of a subscribed stream is a fault.                                       *)
Delivered(e) == feed' = Append(feed, e) /\ UNCHANGED undelivered
Missed(e) == undelivered' = undelivered + Sign(e.side) * e.qty /\ UNCHANGED feed

Emit(e) ==
  /\ \/ subscribed /\ Delivered(e) /\ NoFault
     \/ subscribed /\ Missed(e) /\ Fault
     \/ ~subscribed /\ Missed(e) /\ NoFault
  /\ UNCHANGED subscribed

(* A resting order trades q of its remaining lots. *)
Trade(o, q) ==
  /\ live' = (live \ {o})
               \cup (IF q < o.rem THEN {[o EXCEPT !.rem = o.rem - q]} ELSE {})
  /\ position' = position + Sign(o.side) * q
  /\ Emit([cid |-> o.cid, side |-> o.side, qty |-> q, acc |-> Qty - o.rem + q])

(* A market order of size |net| that brings a position of net back to flat. *)
Flatten(cid, net) ==
  LET side == IF net > 0 THEN "ASK" ELSE "BID"
      size == IF net > 0 THEN net ELSE -net
  IN /\ position' = position + Sign(side) * size
     /\ Emit([cid |-> cid, side |-> side, qty |-> size, acc |-> size])
     /\ UNCHANGED live

=============================================================================
