------------------------------ MODULE Backtest ------------------------------
(***************************************************************************)
(* Recording and replay.  MarketFeed's processes write archives; run_one   *)
(* (src/backtest/backtest_runner.cpp) streams them through the simulator,  *)
(* the MarketMaker, the RiskManager's gate and the OrderManager's on_quote *)
(* in one thread: a record is one step.                                    *)
(*                                                                         *)
(* The thread runs on the wall clock, of which any time may pass between   *)
(* two records: it is what the MarketMaker's throttle and the RiskManager's*)
(* window go by.  InventoryManager is never fed, so quotes are centred on  *)
(* the mid; their distance from it is fixed.  Of the risk gate the checks  *)
(* of order size and price are left out: they compare configured values.   *)
(* The breaker's monitor does not run and no cancel fails: nothing halts.  *)
(***************************************************************************)
EXTENDS MarketFeed, SequencesExt

CONSTANTS
  Qty,           (* strategy.quote_qty, in lots                         *)
  QuoteWidth,    (* distance of a quote from the mid                    *)
  MoveThreshold, (* price_move_ticks_threshold * min_tick               *)
  MinRequote,    (* min_requote_ms, in clock units                      *)
  QuoteLifetime, (* quote_lifetime_ms                                   *)
  RateWindow,    (* kRateWindow                                         *)
  RateLimit,     (* rate_limit_threshold                                *)
  MaxPosition,   (* max_position, in lots                               *)
  MaxLoss,       (* max_daily_loss                                      *)
  MaxOpenOrders, (* max_open_orders                                     *)
  MaxLag         (* bound: clock units between two records              *)

ASSUME BacktestAssumption ==
  /\ Qty \in Nat \ {0} /\ QuoteWidth \in Nat /\ MoveThreshold \in Nat
  /\ MinRequote \in Nat /\ QuoteLifetime \in Nat
  /\ RateWindow \in Nat /\ RateLimit \in Nat
  /\ MaxPosition \in Nat /\ MaxLoss \in Nat /\ MaxOpenOrders \in Nat /\ MaxLag \in Nat

Sim == INSTANCE SimulatedExchange

VARIABLES
  at,       (* archive and record the replay comes to, <<0, 0>> before it *)
  replayed, (* history: the records emitted, per archive                 *)
  s         (* the backtest: the simulator's and the tracker's fields of *)
            (* SimulatedExchange, and                                    *)
            (*   mid    the tracker's last_mid_                          *)
            (*   slot   OrderManager's slots_                            *)
            (*   open   the open-order count the RiskManager was given   *)
            (*   cid    cid_counter_                                     *)
            (*   quote  MarketMaker's last_quote_ and last_emit_         *)
            (*   now    the wall clock                                   *)
            (*   placed when the orders were submitted: of order_times_, *)
            (*          which forgets the old ones, the whole history    *)

replayVars == <<at, replayed, s>>
vars == <<feedVars, replayVars>>

Sides == Sim!Sides
Abs(n) == Sim!Abs(n)

EmptySlot == [active |-> FALSE, cid |-> 0, state |-> "NEW", price |-> 0]
NoQuote == [valid |-> FALSE, mid |-> 0, at |-> 0]
Start == [pending |-> {}, simInv |-> 0, simEntry |-> 0, top |-> NoBook,
          inv |-> 0, ae |-> 0, realized |-> 0, cash |-> 0, mid |-> 0,
          slot |-> [side \in Sides |-> EmptySlot], open |-> 0, cid |-> 1,
          quote |-> NoQuote, now |-> 0, placed |-> <<>>]

BacktestInit ==
  /\ FeedInit
  /\ at = <<0, 0>> /\ replayed = <<>> /\ s = Start

-----------------------------------------------------------------------------
(* RiskManager: pre_trade_check *)

(* The submissions in the window that ends now. *)
RecentOpen(t) == {i \in 1..Len(t.placed) : t.placed[i] > t.now - RateWindow}
Recent(t) == {i \in 1..Len(t.placed) : t.placed[i] >= t.now - RateWindow}

PositionLate(t, side) == Abs(t.inv) > MaxPosition
PositionRejects(t, side) == Abs(t.inv + Sim!Sign(side) * Qty) > MaxPosition

Equity(t) == t.realized + t.inv * (t.mid - t.ae)

GateOpen(t, side) ==
  /\ ~PositionRejects(t, side)
  /\ Cardinality(Recent(t)) <= RateLimit
  /\ Equity(t) >= -MaxLoss
  /\ t.open < MaxOpenOrders

-----------------------------------------------------------------------------
(* OrderManager: on_quote on the simulator, which always answers *)

Working(sl) == sl.active /\ sl.state = "ACKNOWLEDGED"
Sync(t) == [t EXCEPT !.open = Cardinality({side \in Sides : Working(t.slot[side])})]

PlaceNew(t, side, price, first) ==
  LET Taken(state) == [active |-> TRUE, cid |-> t.cid, state |-> state, price |-> price]
      submitted == [t EXCEPT !.cid = t.cid + 1, !.placed = Append(t.placed, t.now)]
  IN IF GateOpen(t, side)
     THEN Sync([Sim!PlaceOrder(submitted, t.cid, side, price, first)
                  EXCEPT !.slot[side] = Taken("ACKNOWLEDGED")])
     ELSE Sync([t EXCEPT !.cid = t.cid + 1, !.slot[side] = Taken("REJECTED")])

CancelSlot(t, side) ==
  Sync([Sim!CancelOrder(t, t.slot[side].cid)
          EXCEPT !.slot[side].active = FALSE, !.slot[side].state = "CANCELED"])

MaybeRequote(t, side, price, first) ==
  IF ~Working(t.slot[side]) THEN PlaceNew(t, side, price, first)
  ELSE IF Abs(price - t.slot[side].price) <= MoveThreshold THEN t
  ELSE PlaceNew(CancelSlot(t, side), side, price, first)

OnQuote(t, mid, first) ==
  MaybeRequote(MaybeRequote(t, "BID", mid - QuoteWidth, first), "ASK", mid + QuoteWidth, first)

-----------------------------------------------------------------------------
(* MarketMaker: on_signals *)

(* Both prices of a quote move with the mid. *)
ShouldRequote(t, mid, regimeMoved) ==
  LET move == Abs(mid - t.quote.mid)
      age == t.now - t.quote.at
  IN \/ ~t.quote.valid
     \/ /\ move > 2 * MoveThreshold \/ age >= MinRequote
        /\ move >= MoveThreshold \/ regimeMoved \/ age > QuoteLifetime

OnSignals(t, mid, regimeMoved, first) ==
  IF GateOpen(t, "BID") /\ GateOpen(t, "ASK") /\ ShouldRequote(t, mid, regimeMoved)
  THEN OnQuote([t EXCEPT !.quote = [valid |-> TRUE, mid |-> mid, at |-> t.now]], mid, first)
  ELSE t

-----------------------------------------------------------------------------
(* ReplayEngine: run_sync *)

BeginReplay ==
  /\ stage = "down" /\ at = <<0, 0>>
  /\ at' = <<1, 1>>
  /\ replayed' = [i \in 1..Len(archives) |-> <<>>]
  /\ UNCHANGED <<feedVars, s>>

(* What the loader reads: a torn record and all that follows it is dropped. *)
StaleTail(a) == IF a.torn /\ a.records # <<>> THEN Append(a.records, Last(a.records))
                                              ELSE a.records
Whole(a) == a.records

(* The callback of run_one, for a record after some lag. *)
OnRecord(t, b, lag, regimeMoved, first) ==
  LET told == Sim!UpdateMarket([t EXCEPT !.now = t.now + lag], b, first)
  IN OnSignals([told EXCEPT !.mid = b.mid], b.mid, regimeMoved, first)

ReplayRecord(lag, regimeMoved, first) ==
  /\ at[1] \in 1..Len(archives) /\ at[2] <= Len(Whole(archives[at[1]]))
  /\ LET b == Whole(archives[at[1]])[at[2]]
     IN /\ s' = OnRecord(s, b, lag, regimeMoved, first)
        /\ replayed' = [replayed EXCEPT ![at[1]] = Append(@, b)]
  /\ at' = <<at[1], at[2] + 1>>
  /\ UNCHANGED feedVars

NextArchive ==
  /\ at[1] \in 1..Len(archives) /\ at[2] > Len(Whole(archives[at[1]]))
  /\ at' = <<at[1] + 1, 1>>
  /\ UNCHANGED <<feedVars, replayed, s>>

BacktestNext ==
  \/ at = <<0, 0>> /\ FeedNext /\ UNCHANGED replayVars
  \/ BeginReplay
  \/ \E lag \in 0..MaxLag, regimeMoved \in BOOLEAN, first \in Sides :
       ReplayRecord(lag, regimeMoved, first)
  \/ NextArchive

BacktestSpec == BacktestInit /\ [][BacktestNext]_vars

-----------------------------------------------------------------------------
(* Properties *)

(* A replay emits what the recording processes put on their tapes, in that  *)
(* order: of a process that died a first part, of one that ended in main's  *)
(* order everything.                                                        *)
ReplayFollowsTape ==
  \A i \in 1..Len(replayed) :
    /\ IsPrefix(replayed[i], taped[i])
    /\ i \in exits /\ at[1] > i => replayed[i] = taped[i]

(* The simulator and the PositionTracker keep the same books by different   *)
(* arithmetic, and the books balance with the money that changed hands.     *)
TwoBooksAgree ==
  /\ s.simInv = s.inv
  /\ s.inv # 0 => s.simEntry = s.ae
  /\ s.realized = s.cash + s.inv * s.ae

(* The simulator rests one order a side at most, the one its slot tracks:   *)
(* fills that the OrderManager is never told of orphan no order.            *)
RestingIsTracked ==
  \A o \in s.pending : Working(s.slot[o.side]) /\ s.slot[o.side].cid = o.cid

(* When fills are booked at once, checking each order alone keeps the       *)
(* position within max_position.                                            *)
PositionBounded == Abs(s.inv) <= MaxPosition

(* No window of a minute holds more than one submission over the threshold. *)
RateBounded ==
  \A i \in 1..(Len(s.placed) - RateLimit - 1) :
    s.placed[i + RateLimit + 1] - s.placed[i] > RateWindow

=============================================================================
