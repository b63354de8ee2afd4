--------------------------- MODULE TradingEngine ----------------------------
(***************************************************************************)
(* The life of the engine process (src/main.cpp) around the OrderManager:  *)
(* the preflight that clears what an earlier process left at the exchange, *)
(* trading, the ordered shutdown after a signal or a fatal WebSocket       *)
(* failure, and crashes at any point followed by a restart.                *)
(***************************************************************************)
EXTENDS OrderManager, RestClient

CONSTANT MaxStarts (* bound: processes started *)

ASSUME TradingEngineAssumption == MaxStarts \in Nat \ {0}

VARIABLES
  phase,    (* where main is                                              *)
  todo,     (* orders the preflight listed and has not cancelled yet      *)
  residual, (* position the preflight read                                *)
  cause,    (* what ended trading                                         *)
  starts,   (* processes started so far                                   *)
  unread    (* history, for the properties: the queries of this process's *)
            (* preflight answered by a 2xx whose body could not be read   *)

mainVars == <<phase, todo, residual, cause, starts, unread>>
allVars == <<vars, mainVars>>

Preflight == {"listing", "cancelling", "sizing", "flattening"}
Threads == {"trading", "draining", "quiet"}  (* the OrderManager's threads run *)
Phases == Preflight \cup Threads \cup {"exited", "down"}

(* A process that has constructed its objects: nothing of an earlier one    *)
(* survives but the state of the exchange.  cids carry the start time, so   *)
(* they are never reused.                                                   *)
FreshProcess ==
  /\ slot' = [side \in Sides |-> EmptySlot]
  /\ openCount' = 0 /\ inv' = 0 /\ ring' = <<>> /\ op' = Idle
  /\ queued' = 0 /\ holding' = FALSE
  /\ halted' = FALSE /\ watcher' = "watching" /\ closing' = "no" /\ running' = FALSE
  /\ feed' = <<>> /\ subscribed' = FALSE /\ undelivered' = position
  /\ todo' = {} /\ residual' = 0 /\ cause' = "none" /\ unread' = {}

(* The first process may find anything: an order and a position that        *)
(* another session left behind.                                             *)
EngineInit ==
  /\ live \in {{}, {[cid |-> 0, side |-> "ASK", rem |-> Qty]}}
  /\ position \in {0, Qty}
  /\ feed = <<>> /\ subscribed = FALSE /\ undelivered = position /\ faults = 0
  /\ OMInit /\ running = FALSE /\ emitted = 0 /\ nextCid = 1 /\ unanswered = {}
  /\ phase = "listing" /\ todo = {} /\ residual = 0 /\ cause = "none" /\ starts = 1
  /\ unread = {}

-----------------------------------------------------------------------------
(* Preflight.  A call takes effect or not, its reply r comes or is lost;    *)
(* every call main takes for failed makes it return 1 (the breaker that a   *)
(* geo-block trips dies with it).                                           *)

Reply == {OK, Terse, Gone, Garbled} \cup Refusals("51008") \cup Blocked \cup NoReply

(* The replies to an order or a cancel that did, or did not, take effect. *)
Answers(done, r) ==
  \/ done /\ r \in {OK, Terse} /\ NoFault
  \/ done /\ r \in {Garbled} \cup NoReply /\ Fault
  \/ ~done /\ r \in Reply \ {OK, Terse, Gone} /\ Fault

(* The replies to a query; history keeps which one said nothing. *)
Answered(query, r) ==
  /\ \/ r = OK /\ NoFault
     \/ r \in {Garbled} \cup Blocked \cup NoReply /\ Fault
  /\ unread' = IF r = Garbled THEN unread \cup {query} ELSE unread

ListOrders ==
  /\ phase = "listing"
  /\ \E r \in Reply :
       /\ Answered("orders", r)
       /\ phase' = IF Queried(r) THEN "cancelling" ELSE "down"
       /\ todo' = IF Queried(r) THEN Listed(r, Cids(live), {}) ELSE todo
  /\ UNCHANGED <<omVars, live, position, feed, subscribed, undelivered, residual,
                 cause, starts>>

(* A cancel answered "does not exist" counts as done. *)
CancelListed ==
  /\ phase = "cancelling"
  /\ \E c \in todo, r \in Reply :
       /\ \/ \E done \in BOOLEAN :
               /\ Answers(done, r) /\ (done => c \in Cids(live))
               /\ live' = IF done THEN Without(c) ELSE live
          \/ c \notin Cids(live) /\ r = Gone /\ NoFault /\ UNCHANGED live
       /\ phase' = IF Acked(r) \/ AckCode(r) = "51400" THEN "cancelling" ELSE "down"
       /\ todo' = todo \ {c}
  /\ UNCHANGED <<omVars, position, feed, subscribed, undelivered, residual, cause,
                 starts, unread>>

AllCancelled ==
  /\ phase = "cancelling" /\ todo = {}
  /\ phase' = "sizing"
  /\ UNCHANGED <<vars, todo, residual, cause, starts, unread>>

QueryResidual ==
  /\ phase = "sizing"
  /\ \E r \in Reply :
       /\ Answered("positions", r)
       /\ phase' = IF Queried(r) THEN "flattening" ELSE "down"
       /\ residual' = IF Queried(r) THEN Listed(r, position, 0) ELSE residual
  /\ UNCHANGED <<omVars, live, position, feed, subscribed, undelivered, todo, cause, starts>>

(* The flatten, then OrderManager::start.  No stream is up yet to report    *)
(* the fill of the market order.                                            *)
NothingResidual == Abs(residual) <= FlattenThreshold

FlattenAndStart ==
  /\ phase = "flattening"
  /\ \/ /\ NothingResidual
        /\ phase' = "trading"
        /\ UNCHANGED exchangeVars
     \/ /\ ~NothingResidual
        /\ \E r \in Reply, done \in BOOLEAN :
             /\ Answers(done, r)
             /\ phase' = IF Acked(r) THEN "trading" ELSE "down"
             /\ position' = IF done THEN position - residual ELSE position
             /\ undelivered' = IF done THEN undelivered - residual ELSE undelivered
        /\ UNCHANGED <<live, feed, subscribed>>
  /\ running' = (phase' = "trading")
  /\ nextCid' = nextCid + 1
  /\ UNCHANGED <<slot, openCount, inv, ring, op, queued, emitted, holding, halted,
                 watcher, closing, unanswered, todo, residual, cause, starts, unread>>

-----------------------------------------------------------------------------
(* Trading and shutdown *)

(* The private stream logs in and subscribes, some time after the start. *)
Subscribe ==
  /\ phase = "trading" /\ ~subscribed
  /\ subscribed' = TRUE
  /\ UNCHANGED <<live, position, feed, undelivered, faults, omVars, mainVars>>

(* SIGINT or SIGTERM closes the WebSocket clients; ws_thread ends. *)
Signal ==
  /\ phase = "trading"
  /\ phase' = "draining" /\ cause' = "signal"
  /\ subscribed' = FALSE
  /\ UNCHANGED <<live, position, feed, undelivered, faults, omVars, todo, residual,
                 starts, unread>>

(* fatal_cb: trip the breaker and stop the io_context. *)
WsExhausted ==
  /\ phase = "trading"
  /\ phase' = "draining" /\ cause' = "fatal"
  /\ halted' = TRUE
  /\ subscribed' = FALSE
  /\ UNCHANGED <<live, position, feed, undelivered, faults, slot, openCount, inv, ring,
                 op, queued, emitted, holding, watcher, closing, running, nextCid,
                 unanswered, todo, residual, starts, unread>>

(* main joins the strategy thread; what it has pushed stays in the ring. *)
JoinStrategy ==
  /\ phase = "draining"
  /\ phase' = "quiet"
  /\ UNCHANGED <<vars, todo, residual, cause, starts, unread>>

(* stop() has joined the four threads of the OrderManager. *)
Exit ==
  /\ phase = "quiet" /\ ~running
  /\ Unlocked /\ ~holding /\ watcher \in {"watching", "done"}
  /\ phase' = "exited"
  /\ UNCHANGED <<vars, todo, residual, cause, starts, unread>>

(* The steps of the OrderManager, each while its thread runs. *)
OMStep ==
  /\ phase \in Threads
  /\ \/ phase # "quiet" /\ EmitQuote
     \/ TakeQuote \/ BeginRequote
     \/ Critical
     \/ ClaimHalt \/ BeginHalt
     \/ phase = "quiet" /\ BeginShutdown
     \/ ReconcileQuery
     \/ phase = "trading" /\ InjectFill
     \/ ApplyFill
     \/ Trip
     \/ phase = "quiet" /\ Stop
  /\ UNCHANGED mainVars

(* The process is killed, or dies, at any point. *)
Crash ==
  /\ phase \in Preflight \cup Threads
  /\ starts < MaxStarts
  /\ phase' = "down"
  /\ FreshProcess
  /\ UNCHANGED <<live, position, faults, emitted, nextCid, unanswered, starts>>

(* systemd starts the next one. *)
Restart ==
  /\ phase \in {"down", "exited"} /\ starts < MaxStarts
  /\ starts' = starts + 1
  /\ phase' = "listing"
  /\ FreshProcess
  /\ UNCHANGED <<live, position, faults, emitted, nextCid, unanswered>>

Market == ExchangeFill /\ UNCHANGED mainVars

Boot == ListOrders \/ CancelListed \/ AllCancelled \/ QueryResidual \/ FlattenAndStart
Ending == JoinStrategy \/ Exit

EngineNext ==
  \/ Boot \/ Subscribe \/ Signal \/ WsExhausted \/ Ending
  \/ OMStep \/ Crash \/ Restart \/ Market

EngineSpec == EngineInit /\ [][EngineNext]_allVars

-----------------------------------------------------------------------------
(* Properties *)

(* The type of main's variables. *)
EngineTypeOK ==
  /\ TypeOK
  /\ phase \in Phases
  /\ todo \subseteq Nat
  /\ residual \in Int
  /\ cause \in {"none", "signal", "fatal"}
  /\ starts \in 1..MaxStarts
  /\ unread \subseteq {"orders", "positions"}

(* Whatever earlier processes left behind, however they ended, and whatever *)
(* was lost, refused or garbled since: a process that starts to quote has   *)
(* every resting order cancelled if it could read the list of orders, and   *)
(* its position flattened if it could read both lists.                      *)
CleanStart ==
  [][phase # "trading" /\ phase' = "trading" =>
       /\ "orders" \notin unread => live' = {}
       /\ unread = {} => Abs(position') <= FlattenThreshold]_allVars

(* A listed order that trades before its cancel arrives does not keep the   *)
(* engine from starting: only a call that goes wrong does.                  *)
GoneOrderIsNoFailure ==
  [][CancelListed /\ phase' = "down" => faults' > faults]_allVars

(* After the fatal-WebSocket path has run to the end without a fault, no    *)
(* order is left at the exchange: quotes still in the ring are dropped      *)
(* because the breaker tripped first.                                       *)
FatalExitLeavesNoOrder ==
  phase = "exited" /\ cause = "fatal" /\ faults = 0 => live = {}

(* main.cpp, "Producers must be fully stopped before we cancel": a shutdown *)
(* after a signal leaves no order at the exchange either.                   *)
ExitLeavesNoOrder == phase = "exited" /\ faults = 0 => live = {}

(* order_manager.hpp, "Cancels active orders and (if |inv| > flatten_threshold)*)
(* flattens inventory": the flatten of the shutdown never enlarges the      *)
(* position it is meant to close.                                           *)
ShutdownFlattenShrinks ==
  [][closing = "cancelling" /\ closing' = "done" /\ faults' = 0
       => Abs(position') <= Abs(position)]_allVars

=============================================================================
