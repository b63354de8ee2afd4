--------------------------- MODULE CircuitBreaker ---------------------------
(***************************************************************************)
(* risk::CircuitBreaker (src/risk/circuit_breaker.cpp) on top of the       *)
(* PositionTracker it watches.  Its monitor thread reads the equity, the   *)
(* inventory, the equity again and the rejections, one check after the     *)
(* other, while the fill thread stores and the strategy thread moves the   *)
(* mid; other threads report exhausted reconnects and exceptions.          *)
(*                                                                         *)
(* The clock is counted in polls: circuit_breaker_poll_ms is one unit.     *)
(* How many rejections the RiskManager's window holds is any number.       *)
(* Setting the latch and queueing the event are one step; of the queue and *)
(* of the event ring only the lengths are kept.                            *)
(***************************************************************************)
EXTENDS PositionTracker, FiniteSets

CONSTANTS
  DrawdownPct,  (* max_drawdown_pct                                   *)
  MinEquity,    (* drawdown_min_equity                                *)
  MaxLoss,      (* max_daily_loss                                     *)
  MaxUnhedged,  (* max_unhedged_seconds, in polls                     *)
  PendingCap,   (* kPendingCap                                        *)
  RingCap       (* capacity of the risk event ring                    *)

ASSUME CircuitBreakerAssumption ==
  /\ DrawdownPct \in 0..100 /\ MinEquity \in Nat /\ MaxLoss \in Nat \ {0}
  /\ MaxUnhedged \in Nat /\ PendingCap \in Nat \ {0} /\ RingCap \in Nat \ {0}

VARIABLES
  check,      (* the check of do_tick the monitor is at, or "asleep"  *)
              (* between ticks, or "stopped"                          *)
  halted,     (* halted_                                              *)
  peak,       (* peak_equity_                                         *)
  openFor,    (* polls since inv_started_at_, -1 while not started    *)
  active,     (* the triggers whose latch is set                      *)
  pending,    (* length of pending_                                   *)
  events,     (* length of the risk event ring, which nobody reads    *)
  highest,    (* history: highest true equity                         *)
  disturbed,  (* history: a read overlapped another thread's step     *)
  skewedDown, (* history: a read returned less than any true equity   *)
  falseAlarm  (* history: a trip no true equity accounts for          *)

monitorVars == <<check, peak, openFor, active>>
eventVars == <<halted, pending, events>>
alarmVars == <<disturbed, skewedDown, falseAlarm>>
breakerVars == <<monitorVars, eventVars, alarmVars>>
vars == <<trackerVars, breakerVars, highest>>

Latched == {"drawdown", "unhedged", "daily_loss", "consecutive_rejections"}

Greatest(S) == CHOOSE e \in S : \A o \in S : o <= e

BreakerInit ==
  /\ Init
  /\ check = "asleep" /\ halted = FALSE
  /\ peak = 0 /\ openFor = -1 /\ active = {}
  /\ pending = 0 /\ events = 0
  /\ highest = 0
  /\ disturbed = FALSE /\ skewedDown = FALSE /\ falseAlarm = FALSE

-----------------------------------------------------------------------------
(* set_halt_synchronously and enqueue *)

QueuedOneShort == IF pending < PendingCap - 1 THEN pending + 1 ELSE pending
Queued == IF pending < PendingCap THEN pending + 1 ELSE pending

Trip ==
  /\ halted' = TRUE
  /\ pending' = Queued
  /\ UNCHANGED events

(* A latched trigger: once per crossing. *)
Latch(t, condition) ==
  /\ active' = IF condition THEN active \cup {t} ELSE active \ {t}
  /\ IF condition /\ t \notin active THEN Trip ELSE UNCHANGED eventVars

(* notify_ws_disconnect_exhausted, notify_exception *)
Notify == Trip /\ UNCHANGED <<trackerVars, monitorVars, alarmVars, highest>>

-----------------------------------------------------------------------------
(* do_tick: the loads of equity() are PositionTracker's BeginEquity, Load *)

FallsTooFar(top, e) == top > MinEquity /\ (top - e) * 100 > DrawdownPct * top
LosesTooMuch(e) == e <= -MaxLoss

BeginTick ==
  /\ check = "asleep"
  /\ check' = "drawdown"
  /\ BeginEquity
  /\ UNCHANGED <<peak, openFor, active, eventVars, alarmVars, highest>>

(* The call of equity() is over and its result used. *)
EndEquity ==
  /\ left = <<>>
  /\ seen' = NothingSeen /\ lowest' = 0 /\ calm' = TRUE
  /\ UNCHANGED <<left, writerVars, mid>>
  /\ disturbed' = (disturbed \/ ~calm)
  /\ skewedDown' = (skewedDown \/ Equity < lowest)

(* A trip the least true equity during the read does not warrant. *)
Blame(raised, warranted) == falseAlarm' = (falseAlarm \/ (raised /\ ~warranted))

PeakOfMagnitude == IF Abs(Equity) > peak THEN Abs(Equity) ELSE peak
Peak == IF Equity > peak THEN Equity ELSE peak

CheckDrawdown ==
  /\ check = "drawdown"
  /\ check' = "inventory"
  /\ peak' = Peak
  /\ IF Peak > MinEquity THEN Latch("drawdown", FallsTooFar(Peak, Equity))
                         ELSE UNCHANGED <<active, eventVars>>
  /\ EndEquity
  /\ Blame("drawdown" \in active' \ active, FallsTooFar(highest, lowest))
  /\ UNCHANGED <<openFor, highest>>

(* The timer since the inventory was last seen flat, one poll later. *)
PollsOpenRestarting == 0
PollsOpen == IF openFor <= MaxUnhedged THEN openFor + 1 ELSE openFor

CheckInventory ==
  /\ check = "inventory"
  /\ check' = "loss"
  /\ openFor' = IF inv = 0 THEN -1 ELSE PollsOpen
  /\ Latch("unhedged", openFor' > MaxUnhedged)
  /\ BeginEquity
  /\ UNCHANGED <<peak, alarmVars, highest>>

CheckLoss ==
  /\ check = "loss"
  /\ check' = "rejections"
  /\ Latch("daily_loss", LosesTooMuch(Equity))
  /\ EndEquity
  /\ Blame("daily_loss" \in active' \ active, LosesTooMuch(lowest))
  /\ UNCHANGED <<peak, openFor, highest>>

CheckRejections ==
  /\ check = "rejections"
  /\ check' = "publish"
  /\ \E tooMany \in BOOLEAN : Latch("consecutive_rejections", tooMany)
  /\ UNCHANGED <<trackerVars, peak, openFor, alarmVars, highest>>

(* publish_pending: the queue is taken whole, the ring takes what fits. *)
PublishedUnbounded == events + pending
Published == Least(events + pending, RingCap)

PublishPending ==
  /\ check = "publish"
  /\ check' = "asleep"
  /\ events' = Published
  /\ pending' = 0
  /\ UNCHANGED <<trackerVars, peak, openFor, active, halted, alarmVars, highest>>

(* running_ is read between ticks only. *)
Stop ==
  /\ check = "asleep"
  /\ check' = "stopped"
  /\ UNCHANGED <<trackerVars, peak, openFor, active, eventVars, alarmVars, highest>>

-----------------------------------------------------------------------------

Monitor ==
  \/ BeginTick \/ CheckDrawdown \/ CheckInventory \/ CheckLoss \/ CheckRejections
  \/ PublishPending
  \/ Load /\ UNCHANGED <<breakerVars, highest>>

(* What the other threads do to the account. *)
Account ==
  /\ \/ \E n \in Quantities, p \in Prices : ApplyFill(n, p)
     \/ StoreRealized \/ StoreInventory \/ StoreEntry
     \/ \E m \in Prices : UpdateMid(m)
  /\ highest' = Greatest({highest} \cup TrueEquities')
  /\ UNCHANGED breakerVars

BreakerNext ==
  \/ Monitor
  \/ Account
  \/ Notify
  \/ Stop

BreakerSpec == BreakerInit /\ [][BreakerNext]_vars

(* The monitor thread runs and a fill under way is stored. *)
FairBreakerSpec ==
  /\ BreakerSpec
  /\ WF_vars(Monitor)
  /\ WF_vars(Account /\ storing # "none" /\ storing' # storing)

-----------------------------------------------------------------------------
(* Properties *)

(* The type of every variable. *)
BreakerTypeOK ==
  /\ TypeOK
  /\ check \in {"asleep", "drawdown", "inventory", "loss", "rejections", "publish",
               "stopped"}
  /\ halted \in BOOLEAN
  /\ peak \in Nat /\ highest \in Nat
  /\ openFor \in -1..(MaxUnhedged + 1)
  /\ active \subseteq Latched /\ (active # {} => halted)
  /\ pending \in 0..PendingCap /\ events \in 0..RingCap
  /\ disturbed \in BOOLEAN /\ skewedDown \in BOOLEAN /\ falseAlarm \in BOOLEAN

(* As long as no read of the equity overlapped a store, a drawdown or a     *)
(* daily-loss halt is for a loss the account really had.                    *)
CalmAlarmIsTrue == ~disturbed => ~falseAlarm

(* position_tracker.cpp, apply_fill: "Upward skew is benign - peak-equity   *)
(* only ratchets up, no false drawdown trigger": a monitor whose reads were *)
(* never too low trips on losses the account really had.                    *)
UpwardSkewIsBenign == ~skewedDown => ~falseAlarm

(* A loss of max_daily_loss that lasts, and a position that is never closed *)
(* again however it is flipped, enlarged or reduced, trip the breaker,      *)
(* whatever mixed reads the monitor saw on the way.                         *)
AtRisk == inv # 0 \/ \A e \in TrueEquities : LosesTooMuch(e)
LastingRiskHalts == <>[]AtRisk => <>(halted \/ check = "stopped")

(* The reason of a halt is waiting in the queue or has reached the ring:   *)
(* neither a full queue, a full ring nor the swap between them loses the    *)
(* first reason.                                                            *)
ReasonKept == halted => pending + events > 0

=============================================================================
