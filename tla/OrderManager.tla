---------------------------- MODULE OrderManager ----------------------------
(***************************************************************************)
(* The OrderManager of the trading engine (src/execution/order_manager.cpp)*)
(* with its four threads (quote, fill applier, halt watcher, reconcile),   *)
(* the private-WebSocket thread that injects fills and the main thread     *)
(* that shuts it down, against the Exchange.                               *)
(*                                                                         *)
(* mu_ serialises the order slots and every REST call, so one critical     *)
(* section runs at a time: `op` says whose, where it is and what it has    *)
(* read.  A step ends where another thread or the exchange can matter: at  *)
(* the breaker re-check of place_new, at the risk gate with the REST call  *)
(* that follows it, at each cancel attempt, between the position query and *)
(* the flatten, between the reconcile query and its comparison.  A REST    *)
(* call and the handling of its reply are one step: the reply only touches *)
(* state guarded by mu_.                                                   *)
(*                                                                         *)
(* Prices appear only as the choice "moved beyond the threshold or not".   *)
(***************************************************************************)
EXTENDS Exchange, OrderLifecycle, FiniteSets

CONSTANTS
  MaxPosition,       (* risk.max_position, in lots                         *)
  MaxOpenOrders,     (* risk.max_open_orders                               *)
  MaxCancelAttempts, (* kMaxCancelAttempts of cancel_slot                  *)
  Tolerance,         (* execution.position_divergence_tolerance            *)
  FlattenThreshold,  (* execution.flatten_threshold                        *)
  RingCap,           (* capacity of the fill ring                          *)
  QuoteRingCap,      (* capacity of the quote ring                         *)
  MaxQuotes          (* bound: quotes the strategy emits                   *)

ASSUME OrderManagerAssumption ==
  /\ MaxPosition \in Nat
  /\ MaxOpenOrders \in Nat
  /\ MaxCancelAttempts \in Nat \ {0}
  /\ Tolerance \in Nat
  /\ FlattenThreshold \in Nat
  /\ RingCap \in Nat \ {0}
  /\ QuoteRingCap \in Nat \ {0}
  /\ MaxQuotes \in Nat

VARIABLES
  slot,      (* slots_[BID], slots_[ASK]                                     *)
  openCount, (* the open-order count last given to the RiskManager           *)
  inv,       (* PositionTracker's inventory                                  *)
  ring,      (* fill_ring_: signed quantities                                *)
  op,        (* the critical section holding mu_                             *)
  queued,    (* quotes in the quote ring                                     *)
  emitted,   (* quotes emitted so far                                        *)
  holding,   (* the quote thread has a quote past on_quote's breaker check   *)
  halted,    (* the breaker's latch                                          *)
  watcher,   (* progress of the halt watcher                                 *)
  closing,   (* progress of shutdown_cancel_all                              *)
  running,   (* running_                                                     *)
  nextCid,   (* cid_counter_                                                 *)
  unanswered (* history: orders whose place reply was lost                   *)

omVars == <<slot, openCount, inv, ring, op, queued, emitted, holding, halted,
            watcher, closing, running, nextCid, unanswered>>
vars == <<exchangeVars, omVars>>

(* std::fabs *)
Abs(n) == IF n < 0 THEN -n ELSE n

-----------------------------------------------------------------------------
(* Order slots *)

Slots == [active : BOOLEAN, cid : Nat, state : OrderStates, exec : Nat]
EmptySlot == [active |-> FALSE, cid |-> 0, state |-> "NEW", exec |-> 0]

Working(s) == s.active /\ s.state \notin Terminal

(* sync_open_orders *)
CountActive(sl) == Cardinality({side \in Sides : sl[side].active})
OpenOrders(sl) == Cardinality({side \in Sides : Working(sl[side])})

Moved(s, to) == [s EXCEPT !.state = Transition(s.state, to)]
Retired(s, to) == [s EXCEPT !.state = Transition(s.state, to), !.active = FALSE]
Abandoned(s) == [s EXCEPT !.active = FALSE]

SetSlot(s) == slot' = [slot EXCEPT ![op.side] = s]
Sync == openCount' = OpenOrders(slot')

-----------------------------------------------------------------------------
(* The critical section *)

Users == {"quote", "halt", "shutdown", "reconcile"}
Idle == [who |-> "none", at |-> "none", side |-> "BID", tries |-> 0, est |-> 0]
Ops == [who : Users \cup {"none"},
        at : {"none", "side", "cancel", "place", "submit", "query", "flatten", "compare"},
        side : Sides, tries : Nat, est : Int]

Unlocked == op.who = "none"
Enter(who, at) == op' = [Idle EXCEPT !.who = who, !.at = at]
Goto(at) == op' = [op EXCEPT !.at = at, !.tries = 0]
Leave == op' = Idle

(* After the work on one side: BID is followed by ASK, ASK by what the      *)
(* caller does next.                                                        *)
AfterSide ==
  IF op.side = "BID" THEN op' = [op EXCEPT !.at = "side", !.side = "ASK", !.tries = 0]
  ELSE IF op.who = "quote" THEN Leave
  ELSE Goto("query")

(* After a successful cancel: a requote goes on to place_new. *)
AfterCancel == IF op.who = "quote" THEN Goto("place") ELSE AfterSide

-----------------------------------------------------------------------------
(* Initial state: a new OrderManager, started right after a preflight that  *)
(* left the account flat.                                                   *)

OMInit ==
  /\ slot = [side \in Sides |-> EmptySlot]
  /\ openCount = 0
  /\ inv = 0
  /\ ring = <<>>
  /\ op = Idle
  /\ queued = 0
  /\ holding = FALSE
  /\ halted = FALSE
  /\ watcher = "watching"
  /\ closing = "no"

Init ==
  /\ ExchangeInit
  /\ OMInit
  /\ running = TRUE
  /\ emitted = 0
  /\ nextCid = 1
  /\ unanswered = {}

-----------------------------------------------------------------------------
(* Quote thread *)

(* The condition of every loop of the OrderManager's threads. *)
LoopForever == TRUE
LoopRuns == running

(* The strategy thread pushes a quote; a full ring drops it. *)
PushQuote == IF queued < QuoteRingCap THEN queued + 1 ELSE queued

EmitQuote ==
  /\ emitted < MaxQuotes
  /\ emitted' = emitted + 1
  /\ queued' = PushQuote
  /\ UNCHANGED <<exchangeVars, slot, openCount, inv, ring, op, holding, halted,
                 watcher, closing, running, nextCid, unanswered>>

(* quote_loop pops a quote; on_quote drops it when the breaker is tripped. *)
TakeQuote ==
  /\ LoopRuns /\ ~holding /\ queued > 0 /\ op.who # "quote"
  /\ queued' = queued - 1
  /\ holding' = ~halted
  /\ UNCHANGED <<exchangeVars, slot, openCount, inv, ring, op, emitted, halted,
                 watcher, closing, running, nextCid, unanswered>>

(* on_quote gets mu_. *)
BeginRequote ==
  /\ holding /\ Unlocked
  /\ holding' = FALSE
  /\ Enter("quote", "side")
  /\ UNCHANGED <<exchangeVars, slot, openCount, inv, ring, queued, emitted, halted,
                 watcher, closing, running, nextCid, unanswered>>

(* maybe_requote_side: keep a working order whose price has not moved,      *)
(* cancel one whose price has, place on a side that works none.             *)
Requote ==
  /\ op.who = "quote" /\ op.at = "side"
  /\ \/ Working(slot[op.side]) /\ AfterSide
     \/ Working(slot[op.side]) /\ Goto("cancel")
     \/ ~Working(slot[op.side]) /\ Goto("place")
  /\ UNCHANGED <<exchangeVars, slot, openCount, inv, ring, queued, emitted, holding,
                 halted, watcher, closing, running, nextCid, unanswered>>

(* The breaker re-check of place_new. *)
BreakerIgnored == FALSE
BreakerBlocks == halted

(* place_new up to the breaker re-check: a fresh client order id, the slot  *)
(* taken through NEW -> PENDING -> SUBMITTED.                               *)
Fresh == [active |-> TRUE, cid |-> nextCid, exec |-> 0,
          state |-> Transition(Transition("NEW", "PENDING"), "SUBMITTED")]

PlaceNew ==
  /\ op.at = "place"
  /\ nextCid' = nextCid + 1
  /\ \/ /\ BreakerBlocks
        /\ SetSlot(Moved(Fresh, "REJECTED"))
        /\ Sync
        /\ AfterSide
     \/ /\ ~BreakerBlocks
        /\ SetSlot(Fresh)
        /\ Goto("submit")
        /\ UNCHANGED openCount
  /\ UNCHANGED <<exchangeVars, inv, ring, queued, emitted, holding, halted, watcher,
                 closing, running, unanswered>>

(* The part of pre_trade_check that depends on this module's state; its     *)
(* other checks (size, price, rate, loss) may reject at any time.           *)
GateOpen(side) ==
  /\ Abs(inv + Sign(side) * Qty) <= MaxPosition
  /\ openCount < MaxOpenOrders

(* place_new from the risk gate on.  A lost reply looks like a refusal. *)
Submit ==
  /\ op.at = "submit"
  /\ LET s == slot[op.side]
     IN \/ /\ SetSlot(Moved(s, "REJECTED"))   \* gate closed, or refused by the exchange
           /\ UNCHANGED <<live, unanswered>>
           /\ NoFault
        \/ /\ GateOpen(op.side)
           /\ SetSlot(Moved(s, "ACKNOWLEDGED"))
           /\ live' = Accepted(s.cid, op.side)
           /\ UNCHANGED unanswered
           /\ NoFault
        \/ /\ GateOpen(op.side)               \* accepted, and the reply is lost
           /\ SetSlot(Moved(s, "REJECTED"))
           /\ live' = Accepted(s.cid, op.side)
           /\ unanswered' = unanswered \cup {s.cid}
           /\ Fault
  /\ Sync
  /\ AfterSide
  /\ UNCHANGED <<position, feed, subscribed, undelivered, inv, ring, queued, emitted, holding,
                 halted, watcher, closing, running, nextCid>>

-----------------------------------------------------------------------------
(* cancel_slot *)

(* The exchange cancels the order, or answers that it is already gone. *)
CancelOk ==
  /\ op.at = "cancel"
  /\ live' = Without(slot[op.side].cid)
  /\ SetSlot(Retired(slot[op.side], "CANCELED"))
  /\ Sync
  /\ AfterCancel
  /\ UNCHANGED <<position, feed, subscribed, undelivered, faults, inv, ring, queued, emitted,
                 holding, halted, watcher, closing, running, nextCid, unanswered>>

(* An attempt fails, with or without effect at the exchange, and another    *)
(* one is left.                                                             *)
CancelRetry ==
  /\ op.at = "cancel"
  /\ op.tries + 1 < MaxCancelAttempts
  /\ Fault
  /\ live' \in {live, Without(slot[op.side].cid)}
  /\ op' = [op EXCEPT !.tries = op.tries + 1]
  /\ UNCHANGED <<position, feed, subscribed, undelivered, slot, openCount, inv, ring, queued,
                 emitted, holding, halted, watcher, closing, running, nextCid, unanswered>>

(* notify_exception("cancel_failed_persistent") *)
SilentGiveUp == halted' = halted
Escalate == halted' = TRUE

(* The last attempt fails: the breaker trips and the slot stops tracking an *)
(* order that may still be live.  A requote gives up this side only.        *)
CancelGiveUp ==
  /\ op.at = "cancel"
  /\ op.tries + 1 = MaxCancelAttempts
  /\ Fault
  /\ live' \in {live, Without(slot[op.side].cid)}
  /\ Escalate
  /\ SetSlot(Abandoned(slot[op.side]))
  /\ Sync
  /\ AfterSide
  /\ UNCHANGED <<position, feed, subscribed, undelivered, inv, ring, queued, emitted, holding,
                 watcher, closing, running, nextCid, unanswered>>

-----------------------------------------------------------------------------
(* Halt watcher: on_halt, once *)

(* The watcher sees the latch and sets halt_handled_. *)
HaltPendingBeforeClose == halted /\ watcher = "watching" /\ closing = "no"
HaltPending == halted /\ watcher = "watching"

ClaimHalt ==
  /\ LoopRuns /\ HaltPending
  /\ watcher' = "claimed"
  /\ UNCHANGED <<exchangeVars, slot, openCount, inv, ring, op, queued, emitted,
                 holding, halted, closing, running, nextCid, unanswered>>

BeginHalt ==
  /\ watcher = "claimed" /\ Unlocked
  /\ watcher' = "handling"
  /\ Enter("halt", "side")
  /\ UNCHANGED <<exchangeVars, slot, openCount, inv, ring, queued, emitted, holding,
                 halted, closing, running, nextCid, unanswered>>

(* Main thread: shutdown_cancel_all, once. *)
BeginShutdown ==
  /\ closing = "no" /\ Unlocked
  /\ closing' = "cancelling"
  /\ Enter("shutdown", "side")
  /\ UNCHANGED <<exchangeVars, slot, openCount, inv, ring, queued, emitted, holding,
                 halted, watcher, running, nextCid, unanswered>>

(* The cancel loops of cancel_and_flatten_locked and shutdown_cancel_all.   *)
(* Only the latter may skip an order, once its time budget is spent (a      *)
(* REST call that hung).                                                    *)
CancelOrSkip ==
  /\ op.who \in {"halt", "shutdown"} /\ op.at = "side"
  /\ \/ Working(slot[op.side]) /\ Goto("cancel") /\ NoFault
     \/ ~Working(slot[op.side]) /\ AfterSide /\ NoFault
     \/ op.who = "shutdown" /\ Working(slot[op.side]) /\ AfterSide /\ Fault
  /\ UNCHANGED <<live, position, feed, subscribed, undelivered, slot, openCount, inv, ring,
                 queued, emitted, holding, halted, watcher, closing, running,
                 nextCid, unanswered>>

(* What the flatten is sized from: the exchange's position for on_halt,     *)
(* with the local inventory as fallback when the query fails and 0 when its *)
(* answer cannot be read; the local inventory for a shutdown.               *)
LocalPosition == inv
HaltPosition == position

SizeFlatten ==
  /\ op.who \in {"halt", "shutdown"} /\ op.at = "query"
  /\ \/ op.who = "halt" /\ op' = [op EXCEPT !.at = "flatten", !.est = HaltPosition] /\ NoFault
     \/ op.who = "halt" /\ \E n \in {inv, 0} : op' = [op EXCEPT !.at = "flatten", !.est = n] /\ Fault
     \/ op.who = "shutdown" /\ op' = [op EXCEPT !.at = "flatten", !.est = inv] /\ NoFault
  /\ UNCHANGED <<live, position, feed, subscribed, undelivered, slot, openCount, inv, ring,
                 queued, emitted, holding, halted, watcher, closing, running,
                 nextCid, unanswered>>

(* The market order, which may fail (or be skipped for lack of budget);     *)
(* nothing retries it.                                                      *)
FlattenAndLeave ==
  /\ op.at = "flatten"
  /\ \/ /\ Abs(op.est) > FlattenThreshold
        /\ Flatten(nextCid, op.est)
        /\ nextCid' = nextCid + 1
     \/ /\ Abs(op.est) > FlattenThreshold
        /\ Fault
        /\ nextCid' = nextCid + 1
        /\ UNCHANGED <<live, position, feed, subscribed, undelivered>>
     \/ /\ Abs(op.est) <= FlattenThreshold
        /\ UNCHANGED <<exchangeVars, nextCid>>
  /\ watcher' = IF op.who = "halt" THEN "done" ELSE watcher
  /\ closing' = IF op.who = "shutdown" THEN "done" ELSE closing
  /\ Leave
  /\ UNCHANGED <<slot, openCount, inv, ring, queued, emitted, holding, halted,
                 running, unanswered>>

-----------------------------------------------------------------------------
(* Reconcile thread: reconcile_now *)

(* The position query; a failed one ends the pass, an answer that cannot be *)
(* read counts as flat.  The open-orders query that follows is only logged. *)
ReconcileQuery ==
  /\ LoopRuns /\ Unlocked
  /\ \/ op' = [Idle EXCEPT !.who = "reconcile", !.at = "compare", !.est = position] /\ NoFault
     \/ op' = [Idle EXCEPT !.who = "reconcile", !.at = "compare"] /\ Fault
  /\ UNCHANGED <<live, position, feed, subscribed, undelivered, slot, openCount, inv, ring,
                 queued, emitted, holding, halted, watcher, closing, running, nextCid,
                 unanswered>>

DivergedAtTolerance == Abs(inv - op.est) >= Tolerance
DivergedLong == inv - op.est > Tolerance
Diverged == Abs(inv - op.est) > Tolerance

ReconcileCompare ==
  /\ op.at = "compare"
  /\ halted' = (halted \/ Diverged)
  /\ Leave
  /\ UNCHANGED <<exchangeVars, slot, openCount, inv, ring, queued, emitted, holding,
                 watcher, closing, running, nextCid, unanswered>>

-----------------------------------------------------------------------------
(* Fills *)

(* inject_fill's slot bookkeeping for event e. *)
BookAnyState(s, e) ==
  LET exec == s.exec + e.qty
  IN IF s.active /\ s.cid = e.cid
     THEN [s EXCEPT !.exec = exec, !.active = exec < Qty,
                    !.state = IF exec >= Qty THEN "FILLED" ELSE "PARTIALLY_FILLED"]
     ELSE s
Book(s, e) ==
  LET exec == s.exec + e.qty
      full == exec >= Qty
      to == CASE full /\ s.state \in {"ACKNOWLEDGED", "PARTIALLY_FILLED"} -> "FILLED"
              [] ~full /\ s.state = "ACKNOWLEDGED" -> "PARTIALLY_FILLED"
              [] OTHER -> s.state
  IN IF s.active /\ s.cid = e.cid
     THEN [s EXCEPT !.exec = exec, !.state = Transition(s.state, to),
                    !.active = to # "FILLED"]
     ELSE s

(* The push onto the fill ring; the WebSocket client ignores its result. *)
PushOverOldest(n) ==
  /\ ring' = Append(IF Len(ring) < RingCap THEN ring ELSE Tail(ring), n)
  /\ UNCHANGED undelivered
PushUnbounded(n) == ring' = Append(ring, n) /\ UNCHANGED undelivered
PushFill(n) ==
  IF Len(ring) < RingCap
  THEN ring' = Append(ring, n) /\ UNCHANGED undelivered
  ELSE undelivered' = undelivered + n /\ UNCHANGED ring

InjectFill ==
  /\ feed # <<>> /\ Unlocked
  /\ feed' = Tail(feed)
  /\ slot' = [side \in Sides |-> Book(slot[side], Head(feed))]
  /\ openCount' = IF \E side \in Sides : slot[side].active /\ ~slot'[side].active
                  THEN OpenOrders(slot') ELSE openCount
  /\ PushFill(Sign(Head(feed).side) * Head(feed).qty)
  /\ UNCHANGED <<live, position, subscribed, faults, inv, op, queued, emitted, holding, halted,
                 watcher, closing, running, nextCid, unanswered>>

(* fill_apply_loop: PositionTracker::apply_fill. *)
ApplyFill ==
  /\ LoopRuns /\ ring # <<>>
  /\ inv' = inv + Head(ring)
  /\ ring' = Tail(ring)
  /\ UNCHANGED <<exchangeVars, slot, openCount, op, queued, emitted, holding, halted,
                 watcher, closing, running, nextCid, unanswered>>

-----------------------------------------------------------------------------
(* Environment *)

(* The exchange fills a resting order, wholly or in part. *)
ExchangeFill ==
  /\ \E o \in live : \E q \in 1..o.rem : Trade(o, q)
  /\ UNCHANGED omVars

(* The breaker trips for a reason of its own (drawdown, daily loss,         *)
(* unhedged inventory, rejections, WebSocket exhaustion).                   *)
Trip ==
  /\ ~halted
  /\ halted' = TRUE
  /\ UNCHANGED <<exchangeVars, slot, openCount, inv, ring, op, queued, emitted,
                 holding, watcher, closing, running, nextCid, unanswered>>

(* OrderManager::stop, which main calls after shutdown_cancel_all: the      *)
(* loops end, each after the iteration it is in.  A thread that tested      *)
(* running_ just before it was cleared still does its iteration: to the     *)
(* others that is a Stop right after the first step of that iteration,      *)
(* because nothing else waits for running_ until the threads are joined.    *)
Stop ==
  /\ running /\ closing = "done"
  /\ running' = FALSE
  /\ UNCHANGED <<exchangeVars, slot, openCount, inv, ring, op, queued, emitted,
                 holding, halted, watcher, closing, nextCid, unanswered>>

-----------------------------------------------------------------------------
(* The specification.  The code holding mu_ always goes on (REST calls have *)
(* timeouts); a thread that waits for mu_ gets it if it keeps becoming free *)
(* (the reconcile thread sleeps between passes, the quote thread whenever   *)
(* its ring is empty).  Nothing obliges the strategy to quote, the exchange *)
(* to trade, the breaker to trip or the operator to stop the engine.        *)

Critical ==
  \/ Requote \/ PlaceNew \/ Submit
  \/ CancelOk \/ CancelRetry \/ CancelGiveUp
  \/ CancelOrSkip \/ SizeFlatten \/ FlattenAndLeave
  \/ ReconcileCompare

Next ==
  \/ EmitQuote \/ TakeQuote \/ BeginRequote
  \/ Critical
  \/ ClaimHalt \/ BeginHalt \/ BeginShutdown
  \/ ReconcileQuery
  \/ InjectFill \/ ApplyFill
  \/ ExchangeFill \/ Trip \/ Stop

Fairness ==
  /\ WF_vars(Critical) /\ WF_vars(ApplyFill) /\ WF_vars(TakeQuote \/ BeginRequote)
  /\ SF_vars(ClaimHalt \/ BeginHalt)
  /\ SF_vars(InjectFill) /\ SF_vars(ReconcileQuery)

Spec == Init /\ [][Next]_vars
FairSpec == Spec /\ Fairness

-----------------------------------------------------------------------------
(* Properties *)

(* The type of every variable. *)
TypeOK ==
  /\ live \subseteq Orders
  /\ position \in Int
  /\ feed \in Seq(Events)
  /\ subscribed \in BOOLEAN
  /\ undelivered \in Int
  /\ faults \in Nat
  /\ slot \in [Sides -> Slots]
  /\ openCount \in Nat
  /\ inv \in Int
  /\ ring \in Seq(Int) /\ Len(ring) <= RingCap
  /\ op \in Ops
  /\ queued \in 0..QuoteRingCap
  /\ emitted \in Nat
  /\ holding \in BOOLEAN
  /\ halted \in BOOLEAN
  /\ watcher \in {"watching", "claimed", "handling", "done"}
  /\ closing \in {"no", "cancelling", "done"}
  /\ running \in BOOLEAN
  /\ nextCid \in Nat \ {0}
  /\ unanswered \subseteq Nat

(* Whenever mu_ is free the slots are settled: none is PENDING or SUBMITTED *)
(* (so check_ack_timeouts finds nothing to cancel) and the count the        *)
(* RiskManager gates on is the number of working slots, whatever path       *)
(* (requote, fill, cancel, give-up, halt, shutdown) changed them last.      *)
SettledWhenUnlocked ==
  Unlocked => /\ \A side \in Sides : slot[side].state \notin InFlight
              /\ openCount = Cardinality({side \in Sides : Working(slot[side])})

Sum(s) == LET total[i \in 0..Len(s)] == IF i = 0 THEN 0 ELSE total[i - 1] + s[i]
          IN total[Len(s)]

(* No fill is counted twice or dropped unaccounted on its way from the      *)
(* exchange through the private stream, inject_fill and the fill ring to    *)
(* the PositionTracker.                                                     *)
FillConservation ==
  position = inv + Sum(ring) + undelivered
               + Sum([i \in 1..Len(feed) |-> Sign(feed[i].side) * feed[i].qty])

(* Every resting order is tracked by the working slot of its side, unless   *)
(* its place reply was lost or a cancel was given up, and then the breaker  *)
(* has tripped: the code never silently abandons an order whose placement   *)
(* was acknowledged.                                                        *)
TrackedBySlot(o) ==
  LET s == slot[o.side]
  IN s.cid = o.cid /\ s.active /\ s.state \in {"ACKNOWLEDGED", "PARTIALLY_FILLED"}
NoSilentOrphan ==
  \A o \in live : TrackedBySlot(o) \/ o.cid \in unanswered \/ halted

(* Once on_halt has run, no quote reaches the exchange any more, even one   *)
(* already popped when the breaker tripped.                                 *)
Cids(orders) == {o.cid : o \in orders}
QuietAfterHalt == [][watcher = "done" => Cids(live') \subseteq Cids(live)]_vars

(* Without faults on_halt leaves no order resting and, until a shutdown     *)
(* flattens again, a position within the flatten threshold.                 *)
HaltCleansUp ==
  watcher = "done" /\ faults = 0
    => live = {} /\ (closing = "no" => Abs(position) <= FlattenThreshold)

(* Reconcile's alarm always has a cause outside the books: if every fill    *)
(* has reached the PositionTracker and the position read is still that of   *)
(* the account, it does not trip the breaker.                               *)
AlarmHasCause ==
  [][ReconcileCompare /\ feed = <<>> /\ ring = <<>> /\ undelivered = 0 /\ op.est = position
       => UNCHANGED halted]_vars

(* A settled order is final: no late fill or cancel revives a slot's order. *)
TerminalIsFinal ==
  [][\A side \in Sides :
       slot[side].state \in Terminal /\ slot'[side].cid = slot[side].cid
         => slot'[side].state = slot[side].state]_vars

(* A tripped breaker is handled by the watcher unless the engine stops. *)
HaltIsHandled == halted /\ running ~> watcher = "done" \/ ~running

(* A fill the engine never saw is noticed: reconcile finds the positions    *)
(* diverge and trips the breaker.                                           *)
LossIsNoticed == undelivered # 0 /\ running ~> halted \/ undelivered = 0 \/ ~running

(* stop() returns: once running_ is cleared every thread leaves its loop,   *)
(* gives mu_ back and takes up nothing new, whatever REST calls fail.       *)
StopJoins ==
  ~running ~> [](Unlocked /\ ~holding /\ watcher \in {"watching", "done"})

=============================================================================
