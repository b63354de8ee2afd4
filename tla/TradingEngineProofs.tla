------------------------- MODULE TradingEngineProofs -------------------------
(***************************************************************************)
(* Theorems about the life of the engine process, for every value of the   *)
(* constants: any number of processes, crashes, faults and orders.  The    *)
(* steps of the OrderManager are those its own proofs are about; what is   *)
(* new is main's side of the state.                                        *)
(***************************************************************************)
EXTENDS TradingEngine, OrderManagerAccounts

-----------------------------------------------------------------------------
(* Replies *)

(* Only a reply to a call that took effect acknowledges it; a query counts  *)
(* as answered only if the venue answered it, readably or not.              *)
LEMMA ReplyFacts ==
  /\ Acked(OK) /\ Acked(Terse) /\ AckCode(Gone) = "51400"
  /\ \A r \in Reply \ {OK, Terse, Gone} : ~Acked(r) /\ AckCode(r) # "51400"
  /\ \A r \in {Garbled} \cup NoReply : ~Acked(r) /\ AckCode(r) # "51400"
  /\ \A r \in Blocked \cup NoReply : ~Queried(r)
  /\ OK # Garbled
  /\ \A list, empty : Listed(OK, list, empty) = list
<1>1. /\ Acked(OK) /\ Acked(Terse) /\ AckCode(Gone) = "51400"
      /\ \A list, empty : Listed(OK, list, empty) = list
  BY DEF OK, Terse, Gone, Acked, AckCode, StatusOk, StatusCode, ItemOk, Listed
<1>2. ASSUME NEW r \in Refusals("51008")
      PROVE  ~Acked(r) /\ AckCode(r) # "51400"
  <2>1. r.http = "2xx" /\ r.code \in {"0", "1"} /\ r.item = "51008"
    BY DEF Refusals
  <2> QED
    BY <2>1 DEF Acked, AckCode, StatusOk, StatusCode, EnvelopeCode, ItemOk
<1>3. ASSUME NEW r \in Blocked
      PROVE  ~Acked(r) /\ AckCode(r) # "51400" /\ ~Queried(r)
  <2>1. \/ r.http = "451" /\ r.code = "absent" /\ r.item = "absent"
        \/ r.http = "2xx" /\ r.code = "50114" /\ r.item = "absent"
    BY DEF Blocked
  <2> QED
    BY <2>1 DEF Acked, AckCode, StatusOk, StatusCode, EnvelopeCode, ItemOk, Queried
<1>4. ASSUME NEW r \in NoReply
      PROVE  ~Acked(r) /\ AckCode(r) # "51400" /\ ~Queried(r)
  <2>1. r.http \in {"none", "other"} /\ r.code = "absent" /\ r.item = "absent"
    BY DEF NoReply
  <2> QED
    BY <2>1 DEF Acked, AckCode, StatusOk, StatusCode, EnvelopeCode, ItemOk, Queried
<1>5. ~Acked(Garbled) /\ AckCode(Garbled) # "51400"
  BY DEF Garbled, Acked, AckCode, StatusOk, StatusCode, EnvelopeCode, ItemOk
<1>6. OK # Garbled
  BY DEF OK, Garbled
<1> QED
  BY <1>1, <1>2, <1>3, <1>4, <1>5, <1>6 DEF Reply

-----------------------------------------------------------------------------
(* Types *)

(* A new process starts with the types of its objects. *)
LEMMA FreshType ==
  ASSUME TypeOK, FreshProcess,
         UNCHANGED <<live, position, faults, emitted, nextCid, unanswered>>
  PROVE  TypeOK'
<1>1. slot' \in [Sides -> Slots] /\ op' \in Ops
  BY DEF FreshProcess, Slots, EmptySlot, OrderStates, Ops, Idle, Sides
<1>2. ring' \in Seq(Int) /\ Len(ring') <= RingCap /\ feed' \in Seq(Events)
      /\ queued' \in 0..QuoteRingCap
  BY OrderManagerAssumption, EmptySeq DEF FreshProcess
<1>3. /\ subscribed' \in BOOLEAN /\ holding' \in BOOLEAN /\ halted' \in BOOLEAN
      /\ running' \in BOOLEAN
      /\ watcher' \in {"watching", "claimed", "handling", "done"}
      /\ closing' \in {"no", "cancelling", "done"}
  BY Zenon DEF FreshProcess
<1>6. openCount' \in Nat /\ inv' \in Int
  BY SMT DEF FreshProcess
<1>4. undelivered' \in Int /\ position' \in Int
  BY DEF FreshProcess, TypeOK
<1>5. /\ live' \subseteq Orders /\ faults' \in Nat /\ emitted' \in Nat
      /\ nextCid' \in Nat \ {0} /\ unanswered' \subseteq Nat
  BY DEF TypeOK
<1> QED
  BY <1>1, <1>2, <1>3, <1>4, <1>5, <1>6 DEF TypeOK

LEMMA EngineTypeInit == EngineInit => EngineTypeOK
<1> SUFFICES ASSUME EngineInit PROVE EngineTypeOK
  OBVIOUS
<1>1. slot \in [Sides -> Slots] /\ op \in Ops
  BY DEF EngineInit, OMInit, Slots, EmptySlot, OrderStates, Ops, Idle, Sides
<1>2. ring \in Seq(Int) /\ Len(ring) <= RingCap /\ feed \in Seq(Events)
      /\ queued \in 0..QuoteRingCap
  BY OrderManagerAssumption, EmptySeq DEF EngineInit, OMInit
<1>3. live \subseteq Orders
  <2>1. [cid |-> 0, side |-> "ASK", rem |-> Qty] \in Orders
    BY ExchangeAssumption DEF ExchangeAssumption, Orders, Sides
  <2> QED
    BY <2>1 DEF EngineInit
<1>4. /\ position \in Int /\ undelivered \in Int /\ faults \in Nat
      /\ openCount \in Nat /\ inv \in Int /\ emitted \in Nat
      /\ nextCid \in Nat \ {0} /\ unanswered \subseteq Nat
  <2>1. position \in Int /\ undelivered \in Int
    BY ExchangeAssumption DEF ExchangeAssumption, EngineInit
  <2> QED
    BY <2>1 DEF EngineInit, OMInit
<1>5. /\ subscribed \in BOOLEAN /\ holding \in BOOLEAN /\ halted \in BOOLEAN
      /\ running \in BOOLEAN
      /\ watcher \in {"watching", "claimed", "handling", "done"}
      /\ closing \in {"no", "cancelling", "done"}
  BY Zenon DEF EngineInit, OMInit
<1>6. TypeOK
  BY <1>1, <1>2, <1>3, <1>4, <1>5 DEF TypeOK
<1>7. /\ phase \in Phases /\ todo \subseteq Nat /\ residual \in Int
      /\ cause \in {"none", "signal", "fatal"} /\ starts \in 1..MaxStarts
      /\ unread \subseteq {"orders", "positions"}
  BY TradingEngineAssumption DEF TradingEngineAssumption, EngineInit, Phases, Preflight
<1> QED
  BY <1>6, <1>7 DEF EngineTypeOK

(* A step of the OrderManager, or a trade, is a step of its specification. *)
LEMMA OMStepIsNext == OMStep \/ Market => Next
  BY DEF OMStep, Market, Next

(* The first four calls of main: each leaves the OrderManager alone. *)
LEMMA PreflightType ==
  ASSUME EngineTypeOK, ListOrders \/ CancelListed \/ AllCancelled \/ QueryResidual
  PROVE  EngineTypeOK'
<1> USE DEF EngineTypeOK, Phases, Preflight
<1>1. live' \subseteq Orders /\ position' = position /\ faults' \in Nat
  <2>1. live' = live \/ \E c \in todo : live' = Without(c)
    BY DEF ListOrders, CancelListed, AllCancelled, QueryResidual, vars, exchangeVars
  <2>2. faults' = faults \/ faults' = faults + 1
    BY DEF ListOrders, CancelListed, AllCancelled, QueryResidual, Answered, Answers,
           NoFault, Fault, vars, exchangeVars
  <2>3. position' = position
    BY DEF ListOrders, CancelListed, AllCancelled, QueryResidual, vars, exchangeVars
  <2> QED
    BY <2>1, <2>2, <2>3 DEF Without, TypeOK
<1>2. UNCHANGED <<omVars, feed, subscribed, undelivered, cause, starts>>
  BY DEF ListOrders, CancelListed, AllCancelled, QueryResidual, vars, exchangeVars, omVars
<1>3. TypeOK'
  BY <1>1, <1>2 DEF omVars, TypeOK
<1>4. todo' \subseteq Nat
  <2>1. Cids(live) \subseteq Nat
    BY DEF TypeOK, Cids, Orders
  <2> QED
    BY <2>1 DEF ListOrders, CancelListed, AllCancelled, QueryResidual, Listed
<1>5. residual' \in Int
  BY DEF ListOrders, CancelListed, AllCancelled, QueryResidual, Listed, TypeOK
<1>6. phase' \in Phases
  BY DEF ListOrders, CancelListed, AllCancelled, QueryResidual
<1>7. unread' \subseteq {"orders", "positions"}
  BY DEF ListOrders, CancelListed, AllCancelled, QueryResidual, Answered
<1> QED
  BY <1>2, <1>3, <1>4, <1>5, <1>6, <1>7

LEMMA EngineTypeStep == EngineTypeOK /\ [EngineNext]_allVars => EngineTypeOK'
<1> SUFFICES ASSUME EngineTypeOK, [EngineNext]_allVars PROVE EngineTypeOK'
  OBVIOUS
<1> USE DEF EngineTypeOK, Phases, Preflight, Threads
<1>1. CASE ListOrders \/ CancelListed \/ AllCancelled \/ QueryResidual
  BY <1>1, PreflightType
<1>2. CASE FlattenAndStart
  <2>1. /\ UNCHANGED <<live, feed, subscribed>>
        /\ \/ position' = position /\ undelivered' = undelivered
           \/ position' = position - residual /\ undelivered' = undelivered - residual
           \/ position' = position - residual /\ undelivered' = undelivered
           \/ position' = position /\ undelivered' = undelivered - residual
        /\ faults' = faults \/ faults' = faults + 1
    BY <1>2 DEF FlattenAndStart, exchangeVars, Answers, NoFault, Fault
  <2>2. phase' \in {"trading", "down"} /\ running' \in BOOLEAN /\ nextCid' = nextCid + 1
    BY <1>2 DEF FlattenAndStart
  <2>3. UNCHANGED <<slot, openCount, inv, ring, op, queued, emitted, holding, halted,
                    watcher, closing, unanswered, todo, residual, cause, starts, unread>>
    BY <1>2 DEF FlattenAndStart
  <2>4. TypeOK'
    BY <2>1, <2>2, <2>3 DEF TypeOK
  <2> QED
    BY <2>2, <2>3, <2>4
<1>3. CASE Subscribe \/ Signal \/ WsExhausted
  <2>1. TypeOK'
    BY <1>3 DEF Subscribe, Signal, WsExhausted, omVars, TypeOK
  <2> QED
    BY <1>3, <2>1 DEF Subscribe, Signal, WsExhausted, mainVars
<1>4. CASE Ending
  <2>1. TypeOK'
    BY <1>4 DEF Ending, JoinStrategy, Exit, vars, exchangeVars, omVars, TypeOK
  <2> QED
    BY <1>4, <2>1 DEF Ending, JoinStrategy, Exit
<1>5. CASE OMStep \/ Market
  <2>1. TypeOK'
    BY <1>5, OMStepIsNext, TypeOKStep
  <2> QED
    BY <1>5, <2>1 DEF OMStep, Market, mainVars
<1>6. CASE Crash \/ Restart
  <2>1. FreshProcess /\ UNCHANGED <<live, position, faults, emitted, nextCid, unanswered>>
    BY <1>6 DEF Crash, Restart
  <2>2. TypeOK'
    BY <2>1, FreshType
  <2>3. starts' \in 1..MaxStarts /\ phase' \in {"down", "listing"}
    BY <1>6, TradingEngineAssumption DEF TradingEngineAssumption, Crash, Restart
  <2> QED
    BY <2>1, <2>2, <2>3 DEF FreshProcess
<1>7. CASE UNCHANGED allVars
  BY <1>7 DEF allVars, vars, mainVars, exchangeVars, omVars, TypeOK
<1> QED
  BY <1>1, <1>2, <1>3, <1>4, <1>5, <1>6, <1>7 DEF EngineNext, Boot

(* The variables of the engine and of its OrderManager keep their types,    *)
(* through crashes and restarts.                                            *)
THEOREM EngineTypeCorrect == EngineSpec => []EngineTypeOK
  BY EngineTypeInit, EngineTypeStep, PTL DEF EngineSpec

-----------------------------------------------------------------------------
(* The preflight *)

(* What the preflight has achieved by each phase: the orders it has still   *)
(* to cancel are all there are, then there are none, then the residual it   *)
(* read is the position.  No resting order can trade the position away      *)
(* after that.  A body that says nothing voids what its own query was for   *)
(* and, if it was that of the orders, the position that they still move.    *)
Cleared ==
  /\ phase = "cancelling" /\ "orders" \notin unread => Cids(live) \subseteq todo
  /\ phase \in {"sizing", "flattening"} /\ "orders" \notin unread => live = {}
  /\ phase = "flattening" /\ unread = {} => residual = position
  /\ faults = 0 => unread = {}

(* A cancel that main counts as done has left no order of that id. *)
LEMMA CancelClears ==
  ASSUME CancelListed, phase' = "cancelling", Cids(live) \subseteq todo
  PROVE  Cids(live') \subseteq todo'
<1>1. PICK c \in todo, r \in Reply :
        /\ \/ \E done \in BOOLEAN :
                /\ Answers(done, r)
                /\ live' = IF done THEN Without(c) ELSE live
           \/ c \notin Cids(live) /\ live' = live
        /\ Acked(r) \/ AckCode(r) = "51400"
        /\ todo' = todo \ {c}
  BY DEF CancelListed
<1>2. CASE c \notin Cids(live) /\ live' = live
  BY <1>1, <1>2
<1>3. ASSUME NEW done \in BOOLEAN, Answers(done, r),
             live' = IF done THEN Without(c) ELSE live
      PROVE  Cids(live') \subseteq todo'
  <2>1. done
    BY <1>1, <1>3, ReplyFacts DEF Answers
  <2>2. Cids(Without(c)) \subseteq Cids(live) \ {c}
    BY DEF Cids, Without
  <2> QED
    BY <1>1, <1>3, <2>1, <2>2
<1> QED
  BY <1>1, <1>2, <1>3

(* A trade only takes orders away. *)
LEMMA TradeShrinks ==
  ASSUME TypeOK, ExchangeFill
  PROVE  Cids(live') \subseteq Cids(live) /\ live # {}
<1>0. PICK o \in live : \E q \in 1..o.rem : Trade(o, q)
  BY DEF ExchangeFill
<1>1. PICK q \in 1..o.rem : Trade(o, q)
  BY <1>0
<1>2. [o EXCEPT !.rem = o.rem - q].cid = o.cid
  BY DEF TypeOK, Orders
<1>3. \A p \in live' : p \in live \/ p = [o EXCEPT !.rem = o.rem - q]
  BY <1>1 DEF Trade
<1> QED
  BY <1>2, <1>3 DEF Cids

(* Faults are never taken back. *)
LEMMA FaultsOnlyGrow ==
  ASSUME EngineTypeOK, [EngineNext]_allVars
  PROVE  faults' = faults \/ Fault
<1>1. CASE Boot
  BY <1>1 DEF Boot, ListOrders, CancelListed, AllCancelled, QueryResidual, FlattenAndStart,
              Answered, Answers, NoFault, vars, exchangeVars
<1>2. CASE Subscribe \/ Signal \/ WsExhausted \/ Ending \/ Crash \/ Restart \/ UNCHANGED allVars
  BY <1>2 DEF Subscribe, Signal, WsExhausted, Ending, JoinStrategy, Exit, Crash, Restart,
              allVars, vars, exchangeVars
<1>3. CASE OMStep \/ Market
  BY <1>3, OMStepIsNext, FaultsGrow
<1> QED BY <1>1, <1>2, <1>3 DEF EngineNext

LEMMA FaultlessBefore ==
  ASSUME EngineTypeOK, [EngineNext]_allVars, faults' = 0
  PROVE  faults = 0 /\ ~Fault
  BY FaultsOnlyGrow DEF Fault, EngineTypeOK, TypeOK

LEMMA ClearedStep == EngineTypeOK /\ Cleared /\ [EngineNext]_allVars => Cleared'
<1> SUFFICES ASSUME EngineTypeOK, Cleared, [EngineNext]_allVars
             PROVE  Cleared'
  OBVIOUS
<1>0. faults' = 0 => unread = {} /\ ~Fault
  BY FaultlessBefore DEF Cleared
<1>1. CASE ListOrders
  <2>1. PICK r \in Reply :
          /\ Answered("orders", r)
          /\ phase' = IF Queried(r) THEN "cancelling" ELSE "down"
          /\ todo' = IF Queried(r) THEN Listed(r, Cids(live), {}) ELSE todo
    BY <1>1 DEF ListOrders
  <2>2. Queried(r) => r = OK \/ (r = Garbled /\ "orders" \in unread')
    BY <2>1, ReplyFacts DEF Answered
  <2>3. phase' = "cancelling" => todo' = Cids(live) \/ "orders" \in unread'
    BY <2>1, <2>2, ReplyFacts
  <2>4. faults' = 0 => unread' = {}
    BY <1>0, <2>1, ReplyFacts DEF Answered
  <2> QED
    BY <1>1, <2>1, <2>3, <2>4 DEF ListOrders, Cleared
<1>2. CASE CancelListed
  <2>1. phase = "cancelling" /\ phase' \in {"cancelling", "down"} /\ unread' = unread
    BY <1>2 DEF CancelListed
  <2> QED
    BY <1>0, <1>2, <2>1, CancelClears DEF Cleared
<1>3. CASE AllCancelled
  <2>1. /\ phase' = "sizing" /\ live' = live /\ unread' = unread
        /\ "orders" \notin unread => Cids(live) = {}
    BY <1>3 DEF AllCancelled, vars, exchangeVars, Cleared
  <2>2. "orders" \notin unread => live = {}
    BY <2>1 DEF Cids
  <2> QED
    BY <1>0, <2>1, <2>2 DEF Cleared
<1>4. CASE QueryResidual
  <2>1. PICK r \in Reply :
          /\ Answered("positions", r)
          /\ phase' = IF Queried(r) THEN "flattening" ELSE "down"
          /\ residual' = IF Queried(r) THEN Listed(r, position, 0) ELSE residual
    BY <1>4 DEF QueryResidual
  <2>2. /\ Queried(r) => r = OK \/ (r = Garbled /\ unread' # {})
        /\ "orders" \notin unread' => "orders" \notin unread
    BY <2>1, ReplyFacts DEF Answered
  <2>3. phase' = "flattening" => residual' = position \/ unread' # {}
    BY <2>1, <2>2, ReplyFacts
  <2>4. faults' = 0 => unread' = {}
    BY <1>0, <2>1, ReplyFacts DEF Answered
  <2> QED
    BY <1>4, <2>1, <2>2, <2>3, <2>4 DEF QueryResidual, Cleared
<1>5. CASE FlattenAndStart
  <2>1. phase' \in {"trading", "down"} /\ unread' = unread
    BY <1>5 DEF FlattenAndStart
  <2> QED
    BY <1>0, <2>1 DEF Cleared
<1>6. CASE Subscribe \/ Signal \/ WsExhausted \/ Ending \/ OMStep \/ Crash \/ Restart
  <2>1. /\ phase' \in Threads \cup {"exited", "down", "listing"}
        /\ unread' \in {unread, {}}
    BY <1>6 DEF Subscribe, Signal, WsExhausted, Ending, JoinStrategy, Exit, OMStep, Crash,
                Restart, FreshProcess, mainVars, Threads
  <2> QED
    BY <1>0, <2>1 DEF Cleared, Threads
<1>7. CASE Market
  <2>1. ExchangeFill /\ UNCHANGED mainVars
    BY <1>7 DEF Market
  <2>2. Cids(live') \subseteq Cids(live) /\ live # {}
    BY <2>1, TradeShrinks DEF EngineTypeOK
  <2> QED
    BY <1>0, <2>1, <2>2 DEF mainVars, Cleared
<1>8. CASE UNCHANGED allVars
  BY <1>8 DEF allVars, vars, mainVars, exchangeVars, Cleared
<1> QED
  BY <1>1, <1>2, <1>3, <1>4, <1>5, <1>6, <1>7, <1>8 DEF EngineNext, Boot

LEMMA PreflightClears == EngineSpec => [](EngineTypeOK /\ Cleared)
<1>1. EngineInit => Cleared
  BY DEF EngineInit, Cleared
<1> QED
  BY <1>1, EngineTypeInit, EngineTypeStep, ClearedStep, PTL DEF EngineSpec

-----------------------------------------------------------------------------
(* Theorems *)

(* Only main's last preflight call starts the trading, and it succeeds only *)
(* if the position it read is small or its market order took effect.        *)
LEMMA StartIsClean ==
  ASSUME EngineTypeOK, Cleared, [EngineNext]_allVars, phase # "trading", phase' = "trading"
  PROVE  /\ "orders" \notin unread => live' = {}
         /\ unread = {} => Abs(position') <= FlattenThreshold
<1>1. FlattenAndStart
  BY DEF EngineNext, Boot, ListOrders, CancelListed, AllCancelled, QueryResidual, Subscribe,
         Signal, WsExhausted, Ending, JoinStrategy, Exit, OMStep, Crash, Restart, Market,
         mainVars, allVars
<1>2. /\ live' = live /\ position \in Int
      /\ "orders" \notin unread => live = {}
      /\ unread = {} => residual = position
  BY <1>1 DEF FlattenAndStart, exchangeVars, Cleared, EngineTypeOK, TypeOK
<1>3. CASE NothingResidual /\ UNCHANGED exchangeVars
  BY <1>2, <1>3 DEF NothingResidual, exchangeVars
<1>4. ASSUME NEW r \in Reply, NEW done \in BOOLEAN, Answers(done, r), Acked(r), unread = {},
             position' = IF done THEN position - residual ELSE position
      PROVE  Abs(position') <= FlattenThreshold
  <2>1. done
    BY <1>4, ReplyFacts DEF Answers
  <2>2. position' = 0
    BY <1>2, <1>4, <2>1
  <2> QED
    BY <2>2, OrderManagerAssumption DEF OrderManagerAssumption, Abs
<1> QED
  BY <1>1, <1>2, <1>3, <1>4 DEF FlattenAndStart

(* However often the engine crashed before, and wherever, and whatever was  *)
(* lost, refused or garbled in any process: one that could read the list of *)
(* its orders starts to quote with no order resting at the exchange, and    *)
(* one that could read both lists with a position within the threshold.     *)
THEOREM StartsClean == EngineSpec => CleanStart
<1> DEFINE Clean == phase # "trading" /\ phase' = "trading" =>
                      /\ "orders" \notin unread => live' = {}
                      /\ unread = {} => Abs(position') <= FlattenThreshold
<1>1. EngineTypeOK /\ Cleared /\ [EngineNext]_allVars => [Clean]_allVars
  BY StartIsClean
<1>2. CleanStart <=> [][Clean]_allVars
  BY DEF CleanStart
<1> HIDE DEF Clean
<1> QED
  BY <1>1, <1>2, PreflightClears, PTL DEF EngineSpec

(* Only a call that goes wrong keeps the engine from starting: a listed     *)
(* order that is gone before its cancel arrives does not.                   *)
THEOREM GoneOrderIsHarmless == EngineSpec => GoneOrderIsNoFailure
<1> DEFINE Harmless == CancelListed /\ phase' = "down" => faults' > faults
<1>1. ASSUME EngineTypeOK, CancelListed, phase' = "down" PROVE faults' > faults
  <2>1. PICK r \in Reply :
          /\ \/ \E done \in BOOLEAN : Answers(done, r)
             \/ r = Gone
          /\ ~(Acked(r) \/ AckCode(r) = "51400")
    BY <1>1 DEF CancelListed
  <2>2. r \notin {OK, Terse, Gone}
    BY <2>1, ReplyFacts
  <2>3. PICK done \in BOOLEAN : Answers(done, r)
    BY <2>1, <2>2
  <2>4. faults' = faults + 1
    BY <2>2, <2>3 DEF Answers, Fault
  <2> QED
    BY <1>1, <2>4 DEF EngineTypeOK, TypeOK
<1>2. EngineTypeOK /\ [EngineNext]_allVars => [Harmless]_allVars
  BY <1>1
<1>3. GoneOrderIsNoFailure <=> [][Harmless]_allVars
  BY DEF GoneOrderIsNoFailure
<1> HIDE DEF Harmless
<1> QED
  BY <1>2, <1>3, EngineTypeCorrect, PTL DEF EngineSpec

-----------------------------------------------------------------------------
(* The OrderManager's invariants through main's steps *)

(* A step of main that leaves the OrderManager and its orders alone, but    *)
(* for a trip of the breaker, an order cancelled and a cid used.            *)
MainOnly ==
  /\ UNCHANGED <<op, slot, openCount, watcher, closing, feed, unanswered>>
  /\ halted => halted'
  /\ live' \subseteq live
  /\ nextCid' = nextCid \/ nextCid' = nextCid + 1

LEMMA BootSteps ==
  ASSUME Boot
  PROVE  MainOnly /\ phase \in Preflight /\ cause' = cause
<1>1. CASE ListOrders \/ CancelListed \/ AllCancelled \/ QueryResidual
  <2>1. live' \subseteq live
    BY <1>1 DEF ListOrders, CancelListed, AllCancelled, QueryResidual, Without, vars, exchangeVars
  <2> QED
    BY <1>1, <2>1 DEF MainOnly, ListOrders, CancelListed, AllCancelled, QueryResidual, vars,
                      exchangeVars, omVars, Preflight
<1>2. CASE FlattenAndStart
  BY <1>2 DEF MainOnly, FlattenAndStart, exchangeVars, Preflight
<1> QED BY <1>1, <1>2 DEF Boot

LEMMA MainSteps ==
  ASSUME EngineTypeOK, [EngineNext]_allVars
  PROVE  \/ OMStep \/ Market
         \/ Crash \/ Restart
         \/ MainOnly
<1>1. CASE Subscribe \/ Signal \/ WsExhausted
  BY <1>1 DEF MainOnly, Subscribe, Signal, WsExhausted, omVars
<1>2. CASE Ending \/ UNCHANGED allVars
  BY <1>2 DEF MainOnly, Ending, JoinStrategy, Exit, allVars, vars, exchangeVars, omVars
<1> QED BY <1>1, <1>2, BootSteps DEF EngineNext

(* A new process knows no order of its own. *)
LEMMA FreshDiscipline == FreshProcess => Discipline'
<1> SUFFICES ASSUME FreshProcess PROVE Discipline'
  OBVIOUS
<1>1. op'.who = "none" /\ op'.at = "none" /\ watcher' = "watching" /\ openCount' = 0
  BY DEF FreshProcess, Idle
<1>2. \A side \in Sides : slot'[side].state = "NEW" /\ ~slot'[side].active
  BY DEF FreshProcess, EmptySlot
<1>3. OpenOrders(slot') = 0
  <2>1. {side \in Sides : Working(slot'[side])} = {}
    BY <1>2 DEF Working
  <2> QED BY <2>1, FS_EmptySet DEF OpenOrders
<1> QED BY <1>1, <1>2, <1>3 DEF Discipline, Shape, InFlightSlots, InFlight, Counted, Halting

LEMMA FreshLedger ==
  ASSUME TypeOK, Ledger, FreshProcess, UNCHANGED <<live, nextCid>>
  PROVE  Ledger'
<1>1. Len(feed') = 0 /\ op'.at = "none" /\ nextCid \in Nat \ {0}
  BY DEF FreshProcess, Idle, TypeOK
<1>2. \A side \in Sides : slot'[side].cid = 0 /\ slot'[side].exec = 0
  BY DEF FreshProcess, EmptySlot
<1>3. \A o \in live : Qty - o.rem >= 0
  BY ExchangeAssumption DEF TypeOK, Orders
<1>4. Numbered' /\ Unknown'
  BY <1>1, <1>2 DEF Ledger, Numbered, Unknown
<1>5. OneOrder' /\ EventsBehind' /\ SlotsBeforeEvents' /\ EventsInOrder'
  BY <1>1 DEF Ledger, Accounts, OneOrder, EventsBehind, SlotsBeforeEvents, EventsInOrder
<1>6. SlotsBehind'
  BY <1>2, <1>3 DEF SlotsBehind
<1> QED BY <1>4, <1>5, <1>6 DEF Ledger, Accounts

LEMMA EngineLedgerStep ==
  EngineTypeOK /\ Discipline /\ Ledger /\ [EngineNext]_allVars => Discipline' /\ Ledger'
<1> SUFFICES ASSUME EngineTypeOK, Discipline, Ledger, [EngineNext]_allVars
             PROVE  Discipline' /\ Ledger'
  OBVIOUS
<1>0. TypeOK /\ TypeOK'
  BY EngineTypeStep DEF EngineTypeOK
<1>1. CASE OMStep \/ Market
  BY <1>0, <1>1, OMStepIsNext, DisciplineStep, LedgerStep
<1>2. CASE Crash \/ Restart
  <2>1. FreshProcess /\ UNCHANGED <<live, nextCid>>
    BY <1>2 DEF Crash, Restart
  <2> QED BY <1>0, <2>1, FreshDiscipline, FreshLedger
<1>3. CASE MainOnly
  <2>1. Discipline'
    BY <1>3 DEF MainOnly, Discipline, Shape, InFlightSlots, Counted, Halting
  <2>2. SameOrders /\ nextCid' >= nextCid
    BY <1>0, <1>3 DEF MainOnly, SameOrders, TypeOK
  <2>3. Ledger'
    BY <1>0, <1>3, <2>2, LedgerFrame DEF MainOnly
  <2> QED BY <2>1, <2>3
<1> QED BY <1>1, <1>2, <1>3, MainSteps

LEMMA EngineLedgerInit == EngineInit => Discipline /\ Ledger
<1> SUFFICES ASSUME EngineInit PROVE Discipline /\ Ledger
  OBVIOUS
<1>1. /\ op.who = "none" /\ op.at = "none" /\ watcher = "watching" /\ openCount = 0
      /\ Len(feed) = 0 /\ nextCid = 1
  BY DEF EngineInit, OMInit, Idle
<1>2. \A side \in Sides : slot[side] = EmptySlot
  BY DEF EngineInit, OMInit
<1>3. \A o \in live : o = [cid |-> 0, side |-> "ASK", rem |-> Qty]
  BY DEF EngineInit
<1>4. OpenOrders(slot) = 0
  <2>1. {side \in Sides : Working(slot[side])} = {}
    BY <1>2 DEF Working, EmptySlot
  <2> QED BY <2>1, FS_EmptySet DEF OpenOrders
<1>5. Discipline
  BY <1>1, <1>2, <1>4 DEF Discipline, Shape, InFlightSlots, InFlight, Counted, Halting, EmptySlot
<1>6. Numbered /\ Unknown
  BY <1>1, <1>2, <1>3 DEF Numbered, Unknown, EmptySlot
<1>7. Accounts
  BY <1>1, <1>2, <1>3, ExchangeAssumption
  DEF Accounts, OneOrder, EventsBehind, SlotsBehind, SlotsBeforeEvents, EventsInOrder, EmptySlot
<1> QED BY <1>5, <1>6, <1>7 DEF Ledger

(* No fill is lost unaccounted across crashes and restarts: what a process  *)
(* has not seen when it dies, the next one will never see.                  *)
LEMMA EngineConservationStep ==
  EngineTypeOK /\ FillConservation /\ [EngineNext]_allVars => FillConservation'
<1> SUFFICES ASSUME EngineTypeOK, FillConservation, [EngineNext]_allVars
             PROVE  position' = inv' + Sum(ring') + undelivered' + Sum(Signed(feed'))
  BY DEF FillConservation, Signed
<1>0. /\ position \in Int /\ inv \in Int /\ undelivered \in Int /\ residual \in Int
      /\ Sum(ring) \in Int /\ Sum(Signed(feed)) \in Int
      /\ position = inv + Sum(ring) + undelivered + Sum(Signed(feed))
  BY ConservationIs, SumFacts, SignedFacts DEF EngineTypeOK, TypeOK
<1>1. CASE OMStep \/ Market
  BY <1>1, OMStepIsNext, ConservationStep DEF EngineTypeOK, FillConservation, Signed
<1>2. CASE Crash \/ Restart
  <2>1. /\ ring' = <<>> /\ feed' = <<>> /\ inv' = 0 /\ undelivered' = position
        /\ position' = position
    BY <1>2 DEF Crash, Restart, FreshProcess
  <2>2. Sum(ring') = 0 /\ Sum(Signed(feed')) = 0
    BY <2>1, EmptySeq, SumFacts, SignedFacts
  <2> QED BY <1>0, <2>1, <2>2
<1>3. CASE FlattenAndStart
  <2>1. inv' = inv /\ ring' = ring /\ feed' = feed
    BY <1>3 DEF FlattenAndStart, exchangeVars
  <2>2. \/ position' = position /\ undelivered' = undelivered
        \/ position' = position - residual /\ undelivered' = undelivered - residual
    BY <1>3 DEF FlattenAndStart, exchangeVars
  <2> QED BY <1>0, <2>1, <2>2
<1>4. CASE \/ ListOrders \/ CancelListed \/ AllCancelled \/ QueryResidual
           \/ Subscribe \/ Signal \/ WsExhausted \/ Ending \/ UNCHANGED allVars
  <2>1. UNCHANGED <<position, inv, ring, undelivered, feed>>
    BY <1>4 DEF ListOrders, CancelListed, AllCancelled, QueryResidual, Subscribe, Signal,
           WsExhausted, Ending, JoinStrategy, Exit, allVars, vars, exchangeVars, omVars
  <2> QED BY <1>0, <2>1
<1> QED BY <1>1, <1>2, <1>3, <1>4 DEF EngineNext, Boot

(* A preflight, a crash and a restart lose no fill of the account: what the *)
(* next process does not see is counted as undelivered.                     *)
THEOREM EngineConservesFills == EngineSpec => []FillConservation
<1>1. ASSUME EngineInit PROVE FillConservation
  <2>1. /\ position \in Int /\ inv = 0 /\ undelivered = position
        /\ ring \in Seq(Int) /\ Len(ring) = 0 /\ feed \in Seq(Events) /\ Len(feed) = 0
    BY <1>1, EmptySeq, ExchangeAssumption DEF EngineInit, OMInit
  <2>2. Sum(ring) = 0 /\ Sum(Signed(feed)) = 0
    BY <2>1, SumFacts, SignedFacts
  <2> QED BY <2>1, <2>2, ConservationIs
<1> QED BY <1>1, EngineTypeInit, EngineTypeStep, EngineConservationStep, PTL DEF EngineSpec

-----------------------------------------------------------------------------
(* The OrderManager's own promises, through crashes and restarts *)

LEMMA EngineLedger == EngineSpec => [](EngineTypeOK /\ Discipline /\ Ledger)
  BY EngineTypeInit, EngineTypeStep, EngineLedgerInit, EngineLedgerStep, PTL DEF EngineSpec

(* In every process whoever gets mu_ finds settled slots and an exact count, *)
(* whatever main did before and however an earlier process ended.            *)
THEOREM EngineSettles == EngineSpec => []SettledWhenUnlocked
<1>1. EngineTypeOK /\ Discipline => SettledWhenUnlocked
  BY DEF EngineTypeOK, Discipline, Shape, InFlightSlots, Counted, SettledWhenUnlocked, Unlocked,
         OpenOrders
<1> QED BY <1>1, EngineLedger, PTL

(* From the end of on_halt to the end of the process no order reaches the   *)
(* exchange, whatever main and the streams do; nor does a crash place one.  *)
THEOREM EngineStaysQuiet == EngineSpec => QuietAfterHalt
<1>1. ASSUME EngineTypeOK, Discipline, [EngineNext]_allVars PROVE Quiet
  <2>1. CASE OMStep \/ Market
    BY <1>1, <2>1, OMStepIsNext, QuietStep DEF EngineTypeOK
  <2>2. CASE Crash \/ Restart
    BY <2>2 DEF Crash, Restart, Quiet
  <2>3. CASE MainOnly
    BY <2>3 DEF MainOnly, Quiet, Cids
  <2> QED BY <1>1, <2>1, <2>2, <2>3, MainSteps
<1>2. EngineTypeOK /\ Discipline /\ [EngineNext]_allVars => [Quiet]_vars
  BY <1>1
<1>3. QuietAfterHalt <=> [][Quiet]_vars
  BY DEF QuietAfterHalt, Quiet
<1> QED BY <1>2, <1>3, EngineLedger, PTL DEF EngineSpec

(* A slot without an order id has held no order yet. *)
Unused == \A side \in Sides : slot[side].cid = 0 => slot[side].state = "NEW"

(* A fill does not change the state of a slot that has placed nothing. *)
LEMMA BookOfNew ==
  ASSUME NEW s \in Slots, NEW e \in Events, s.state = "NEW"
  PROVE  Book(s, e).state = "NEW"
<1>1. Transition("NEW", "NEW") = "NEW"
  BY DEF Transition
<1>2. CASE s.active /\ s.cid = e.cid
  <2>1. Book(s, e).state = Transition("NEW", "NEW")
    BY <1>2 DEF Book, Slots
  <2> QED BY <1>1, <2>1
<1>3. CASE ~(s.active /\ s.cid = e.cid)
  BY <1>3 DEF Book
<1> QED BY <1>2, <1>3

LEMMA UnusedStep == TypeOK /\ Discipline /\ Unused /\ [Next]_vars => Unused'
<1> SUFFICES ASSUME TypeOK, Discipline, Unused, [Next]_vars, NEW side \in Sides,
                    slot'[side].cid = 0
             PROVE  slot'[side].state = "NEW"
  BY DEF Unused
<1>0. op.side \in Sides /\ slot[side] \in Slots
      /\ (slot[side].cid = 0 => slot[side].state = "NEW")
  BY DEF TypeOK, Ops, Unused
<1>1. CASE slot'[side] = slot[side]
  BY <1>0, <1>1
<1>2. CASE PlaceNew
  <2>1. SetSlot(Fresh) \/ SetSlot(Moved(Fresh, "REJECTED"))
    BY <1>2 DEF PlaceNew
  <2>2. nextCid # 0
    BY DEF TypeOK
  <2>3. side # op.side
    BY <2>1, <2>2, SetSlotAt, FreshFacts, KeepOrder
  <2> QED BY <1>1, <2>1, <2>3, SetSlotAt
<1>3. CASE Submit
  <2>1. slot[op.side].state = "SUBMITTED" /\ slot[op.side] \in Slots
        /\ (SetSlot(Moved(slot[op.side], "REJECTED")) \/ SetSlot(Moved(slot[op.side], "ACKNOWLEDGED")))
    BY <1>0, <1>3 DEF Submit, Discipline, InFlightSlots, TypeOK
  <2>2. side # op.side
    BY <1>0, <2>1, SetSlotAt, KeepOrder
  <2> QED BY <1>1, <2>1, <2>2, SetSlotAt
<1>4. CASE CancelOk
  <2>1. SetSlot(Retired(slot[op.side], "CANCELED"))
    BY <1>4 DEF CancelOk
  <2>2. CASE side = op.side
    <3>1. slot'[side].state = Transition(slot[side].state, "CANCELED")
          /\ slot'[side].cid = slot[side].cid
      BY <1>0, <2>1, <2>2, SetSlotAt, KeepOrder
    <3> QED BY <1>0, <3>1 DEF Transition, Successors
  <2>3. CASE side # op.side
    BY <1>1, <2>1, <2>3, SetSlotAt
  <2> QED BY <2>2, <2>3
<1>5. CASE CancelGiveUp
  <2>1. SetSlot(Abandoned(slot[op.side]))
    BY <1>5 DEF CancelGiveUp
  <2>2. CASE side = op.side
    BY <1>0, <2>1, <2>2, SetSlotAt, KeepOrder
  <2>3. CASE side # op.side
    BY <1>1, <2>1, <2>3, SetSlotAt
  <2> QED BY <2>2, <2>3
<1>6. CASE InjectFill
  <2>1. slot'[side] = Book(slot[side], Head(feed)) /\ Head(feed) \in Events
    BY <1>6 DEF InjectFill, TypeOK
  <2>2. Unlocked
    BY <1>6 DEF InjectFill
  <2>3. slot[side].state \notin InFlight
    BY <1>0, <2>2 DEF Discipline, Shape, InFlightSlots, Unlocked
  <2>4. slot[side].state = "NEW"
    BY <1>0, <2>1, <2>3, BookFacts
  <2> QED BY <1>0, <2>1, <2>4, BookOfNew
<1>7. CASE \/ Requote \/ CancelRetry \/ CancelOrSkip \/ SizeFlatten \/ FlattenAndLeave
           \/ ReconcileCompare \/ ReconcileQuery \/ ClaimHalt \/ BeginHalt
           \/ BeginShutdown
  BY <1>1, <1>7 DEF Requote, CancelRetry, CancelOrSkip, SizeFlatten, FlattenAndLeave,
                    ReconcileCompare, ReconcileQuery, ClaimHalt, BeginHalt, BeginShutdown
<1>8. CASE \/ EmitQuote \/ TakeQuote \/ BeginRequote \/ ApplyFill \/ ExchangeFill
           \/ Trip \/ Stop \/ UNCHANGED vars
  BY <1>1, <1>8 DEF EmitQuote, TakeQuote, BeginRequote, ApplyFill, ExchangeFill, Trip,
                    Stop, vars, omVars
<1> QED BY <1>2, <1>3, <1>4, <1>5, <1>6, <1>7, <1>8 DEF Next, Critical

LEMMA EngineUnused == EngineSpec => []Unused
<1>1. EngineInit => Unused
  BY DEF EngineInit, OMInit, EmptySlot, Unused
<1>2. ASSUME EngineTypeOK, Discipline, Unused, [EngineNext]_allVars PROVE Unused'
  <2>1. CASE OMStep \/ Market
    BY <1>2, <2>1, OMStepIsNext, UnusedStep DEF EngineTypeOK
  <2>2. CASE Crash \/ Restart
    BY <2>2 DEF Crash, Restart, FreshProcess, EmptySlot, Unused
  <2>3. CASE MainOnly
    BY <1>2, <2>3 DEF MainOnly, Unused
  <2> QED BY <1>2, <2>1, <2>2, <2>3, MainSteps
<1> QED BY <1>1, <1>2, EngineLedger, PTL DEF EngineSpec

(* No step of the engine revives a settled order; the slots of a new        *)
(* process are empty.                                                       *)
THEOREM EngineOrdersStaySettled == EngineSpec => TerminalIsFinal
<1>1. ASSUME EngineTypeOK, Discipline, Ledger, Unused, [EngineNext]_allVars PROVE Final
  <2>1. CASE OMStep \/ Market
    BY <1>1, <2>1, OMStepIsNext, FinalStep DEF EngineTypeOK
  <2>2. CASE Crash \/ Restart
    <3> SUFFICES ASSUME NEW side \in Sides, slot[side].state \in Terminal,
                        slot'[side].cid = slot[side].cid
                 PROVE  FALSE
      BY DEF Final
    <3>1. slot'[side].cid = 0
      BY <2>2 DEF Crash, Restart, FreshProcess, EmptySlot
    <3>2. slot[side].state = "NEW"
      BY <1>1, <3>1 DEF Unused
    <3> QED BY <3>2 DEF Terminal
  <2>3. CASE MainOnly
    BY <2>3 DEF MainOnly, Final
  <2> QED BY <1>1, <2>1, <2>2, <2>3, MainSteps
<1>2. EngineTypeOK /\ Discipline /\ Ledger /\ Unused /\ [EngineNext]_allVars
        => [Final]_vars
  BY <1>1
<1>3. TerminalIsFinal <=> [][Final]_vars
  BY DEF TerminalIsFinal, Final
<1> QED BY <1>2, <1>3, EngineLedger, EngineUnused, PTL DEF EngineSpec

(* While the engine trades, and after it has ended in order, each resting   *)
(* order is one its slot works on, its reply was lost, or the breaker has   *)
(* tripped: orders of an earlier process are all gone, if this one could    *)
(* read the list of them.                                                   *)
NoStrayOrder ==
  "orders" \notin unread /\ phase \in Threads \cup {"exited"} => NoSilentOrphan

LEMMA StrayStep ==
  ASSUME EngineTypeOK, Discipline, Ledger, Cleared, NoStrayOrder, [EngineNext]_allVars
  PROVE  NoStrayOrder'
<1> SUFFICES ASSUME "orders" \notin unread', phase' \in Threads \cup {"exited"}
             PROVE  NoSilentOrphan'
  BY DEF NoStrayOrder
<1>1. CASE OMStep \/ Market
  <2>1. phase' = phase /\ unread' = unread
    BY <1>1 DEF OMStep, Market, mainVars
  <2>2. NoSilentOrphan
    BY <2>1 DEF NoStrayOrder
  <2> QED BY <1>1, <2>2, OMStepIsNext, OrphanStep DEF EngineTypeOK
<1>2. CASE Crash \/ Restart
  BY <1>2 DEF Crash, Restart, Threads
<1>3. CASE FlattenAndStart
  <2>1. live' = {}
    BY <1>3 DEF Cleared, FlattenAndStart, exchangeVars
  <2> QED BY <2>1 DEF NoSilentOrphan
<1>4. CASE ListOrders \/ CancelListed \/ AllCancelled \/ QueryResidual
  BY <1>4 DEF ListOrders, CancelListed, AllCancelled, QueryResidual, Threads
<1>5. CASE Subscribe \/ Signal \/ WsExhausted \/ Ending \/ UNCHANGED allVars
  <2>1. phase \in Threads \cup {"exited"} /\ unread' = unread
    BY <1>5 DEF Subscribe, Signal, WsExhausted, Ending, JoinStrategy, Exit, Threads, allVars,
                mainVars
  <2>2. UNCHANGED <<live, slot, unanswered>> /\ (halted => halted')
    BY <1>5 DEF Subscribe, Signal, WsExhausted, Ending, JoinStrategy, Exit, allVars, vars,
                exchangeVars, omVars
  <2> QED BY <2>1, <2>2 DEF NoStrayOrder, NoSilentOrphan, TrackedBySlot
<1> QED BY <1>1, <1>2, <1>3, <1>4, <1>5 DEF EngineNext, Boot

(* No order is forgotten by a restart: a process that trades knows every    *)
(* order at the exchange, or it lost the reply, or its breaker has tripped, *)
(* or it was given a list of orders it could not read.                      *)
THEOREM EngineKnowsItsOrders == EngineSpec => []NoStrayOrder
<1>1. EngineInit => NoStrayOrder
  BY DEF EngineInit, NoStrayOrder, Threads
<1> QED BY <1>1, EngineLedger, PreflightClears, StrayStep, PTL DEF EngineSpec

-----------------------------------------------------------------------------
(* How a process ends *)

(* Where main stands and what the shutdown has come to: it has the lock     *)
(* while it cancels, comes only once the strategy has been joined, and the  *)
(* threads run until it is done.  A process that ends because the streams   *)
(* gave up has tripped its breaker, and no order is between breaker check   *)
(* and REST call any more once the shutdown has had the lock.               *)
Closing ==
  /\ op.who = "shutdown" <=> closing = "cancelling"
  /\ closing # "no" => phase \in {"quiet", "exited"}
  /\ phase \in Threads /\ ~running => closing = "done"
  /\ phase = "exited" => closing = "done"
  /\ phase \notin Threads \cup {"exited"} => Unlocked /\ watcher = "watching"
  /\ cause = "fatal" => halted /\ phase \in {"draining", "quiet", "exited"}
  /\ cause = "fatal" /\ closing # "no" => op.at # "submit"

(* Only main enters the critical section as a shutdown. *)
LEMMA OnlyBeginShutdown ==
  ASSUME TypeOK, Discipline, [Next]_vars, op.who # "shutdown" <=> closing # "cancelling",
         ~BeginShutdown
  PROVE  /\ op'.who = "shutdown" <=> closing' = "cancelling"
         /\ closing' = "no" <=> closing = "no"
<1>0. op \in Ops /\ Shape /\ closing \in {"no", "cancelling", "done"}
  BY DEF TypeOK, Discipline
<1>1. CASE UNCHANGED <<op, closing>>
  BY <1>0, <1>1
<1>2. ASSUME closing' = closing, op'.who = op.who
      PROVE  (op'.who = "shutdown" <=> closing' = "cancelling") /\ (closing' = "no" <=> closing = "no")
  BY <1>0, <1>2
<1>3. ASSUME closing' = closing, op'.who # "shutdown", op.who # "shutdown"
      PROVE  (op'.who = "shutdown" <=> closing' = "cancelling") /\ (closing' = "no" <=> closing = "no")
  BY <1>0, <1>3
<1>4. CASE Requote \/ PlaceNew \/ Submit \/ CancelOk \/ CancelGiveUp \/ CancelOrSkip
  <2>1. op.who \in {"quote", "halt", "shutdown"} /\ closing' = closing
    BY <1>0, <1>4 DEF Requote, PlaceNew, Submit, CancelOk, CancelGiveUp, CancelOrSkip, Shape
  <2>2. AfterSide \/ \E at \in {"cancel", "place", "submit"} : Goto(at)
    <3>1. CASE CancelOk
      BY <3>1 DEF CancelOk, AfterCancel
    <3> QED BY <1>4, <3>1 DEF Requote, PlaceNew, Submit, CancelGiveUp, CancelOrSkip
  <2>3. AfterSide => op'.who = op.who \/ (op.who = "quote" /\ op'.who = "none")
    BY <1>0, <2>1, AfterSideMoves
  <2> QED BY <1>0, <1>2, <1>3, <2>1, <2>2, <2>3, GotoMoves
<1>5. CASE CancelRetry \/ SizeFlatten
  <2>1. closing' = closing
    BY <1>5 DEF CancelRetry, SizeFlatten
  <2>2. op'.who = op.who
    <3>1. CASE CancelRetry
      <4>1. op' = [op EXCEPT !.tries = op.tries + 1]
        BY <3>1 DEF CancelRetry
      <4> QED BY <1>0, <4>1 DEF Ops
    <3>2. CASE SizeFlatten
      <4>1. \E n : op' = [op EXCEPT !.at = "flatten", !.est = n]
        BY <3>2 DEF SizeFlatten
      <4> QED BY <1>0, <4>1 DEF Ops
    <3> QED BY <1>5, <3>1, <3>2
  <2> QED BY <1>2, <2>1, <2>2
<1>6. CASE FlattenAndLeave
  <2>1. op'.who = "none" /\ op.who \in {"halt", "shutdown"}
        /\ closing' = IF op.who = "shutdown" THEN "done" ELSE closing
    BY <1>0, <1>6, LeaveMoves DEF FlattenAndLeave, Shape
  <2> QED BY <1>0, <2>1
<1>7. CASE ReconcileCompare
  <2>1. op'.who = "none" /\ op.who = "reconcile" /\ closing' = closing
    BY <1>0, <1>7, LeaveMoves DEF ReconcileCompare, Shape
  <2> QED BY <1>3, <2>1
<1>8. CASE BeginRequote \/ BeginHalt
  <2>1. op'.who \in {"quote", "halt"} /\ op.who = "none" /\ closing' = closing
    BY <1>8, EnterMoves DEF BeginRequote, BeginHalt, Unlocked
  <2> QED BY <1>3, <2>1
<1>9. CASE ReconcileQuery
  <2>1. op'.who = "reconcile" /\ op.who = "none" /\ closing' = closing
    BY <1>9 DEF ReconcileQuery, Idle, Unlocked
  <2> QED BY <1>3, <2>1
<1>10. CASE \/ EmitQuote \/ TakeQuote \/ ClaimHalt \/ InjectFill \/ ApplyFill
            \/ ExchangeFill \/ Trip \/ Stop \/ UNCHANGED vars
  BY <1>1, <1>10 DEF EmitQuote, TakeQuote, ClaimHalt, InjectFill, ApplyFill, ExchangeFill,
                     Trip, Stop, omVars, vars
<1> QED
  BY <1>4, <1>5, <1>6, <1>7, <1>8, <1>9, <1>10 DEF Next, Critical

(* Nobody else enters it as one. *)
LEMMA NobodyElseCloses ==
  ASSUME TypeOK, Discipline, [Next]_vars, op.who = "shutdown" <=> closing = "cancelling",
         op.who # "shutdown", ~BeginShutdown
  PROVE  op'.who # "shutdown"
<1>1. closing' = closing
  BY DEF Next, Critical, EmitQuote, TakeQuote, BeginRequote, Requote, PlaceNew, Submit,
         CancelOk, CancelRetry, CancelGiveUp, CancelOrSkip, SizeFlatten, FlattenAndLeave,
         ReconcileCompare, ClaimHalt, BeginHalt, ReconcileQuery, InjectFill,
         ApplyFill, ExchangeFill, Trip, Stop, omVars, vars
<1> QED BY <1>1, OnlyBeginShutdown

(* With the breaker tripped nothing is submitted anew. *)
LEMMA NoNewSubmit ==
  ASSUME TypeOK, Discipline, [Next]_vars, halted, op.at # "submit"
  PROVE  op'.at # "submit"
<1>0. op \in Ops /\ Shape
  BY DEF TypeOK, Discipline
<1>1. CASE Requote \/ PlaceNew \/ CancelOk \/ CancelGiveUp \/ CancelOrSkip
  <2>1. op.who \in {"quote", "halt", "shutdown"}
    BY <1>0, <1>1 DEF Requote, PlaceNew, CancelOk, CancelGiveUp, CancelOrSkip, Shape
  <2>2. AfterSide \/ \E at \in {"cancel", "place"} : Goto(at)
    <3>1. CASE CancelOk
      BY <3>1 DEF CancelOk, AfterCancel
    <3>2. CASE PlaceNew
      BY <3>2 DEF PlaceNew, BreakerBlocks
    <3> QED BY <1>1, <3>1, <3>2 DEF Requote, CancelGiveUp, CancelOrSkip
  <2> QED BY <1>0, <2>1, <2>2, AfterSideMoves, GotoMoves
<1>2. CASE CancelRetry
  <2>1. op' = [op EXCEPT !.tries = op.tries + 1]
    BY <1>2 DEF CancelRetry
  <2> QED BY <1>0, <2>1 DEF Ops
<1>3. CASE SizeFlatten
  <2>1. \E n : op' = [op EXCEPT !.at = "flatten", !.est = n]
    BY <1>3 DEF SizeFlatten
  <2> QED BY <1>0, <2>1 DEF Ops
<1>4. CASE FlattenAndLeave \/ ReconcileCompare
  BY <1>4, LeaveMoves DEF FlattenAndLeave, ReconcileCompare
<1>5. CASE BeginRequote \/ BeginHalt \/ BeginShutdown
  <2>1. op'.at = "side"
    BY <1>5, EnterMoves DEF BeginRequote, BeginHalt, BeginShutdown
  <2> QED BY <2>1
<1>6. CASE ReconcileQuery
  BY <1>6 DEF ReconcileQuery, Idle
<1>7. CASE \/ EmitQuote \/ TakeQuote \/ ClaimHalt \/ InjectFill \/ ApplyFill
           \/ ExchangeFill \/ Trip \/ Stop \/ UNCHANGED vars
  BY <1>7 DEF EmitQuote, TakeQuote, ClaimHalt, InjectFill, ApplyFill, ExchangeFill,
              Trip, Stop, omVars, vars
<1> QED
  BY <1>1, <1>2, <1>3, <1>4, <1>5, <1>6, <1>7 DEF Next, Critical, Submit

(* Only main stops the threads, once its shutdown is done. *)
LEMMA RunningFrame ==
  ASSUME [Next]_vars
  PROVE  running' = running \/ (running' = FALSE /\ closing = "done" /\ UNCHANGED closing)
  BY DEF Next, Critical, EmitQuote, TakeQuote, BeginRequote, Requote, PlaceNew, Submit,
         CancelOk, CancelRetry, CancelGiveUp, CancelOrSkip, SizeFlatten, FlattenAndLeave,
         ReconcileCompare, ClaimHalt, BeginHalt, BeginShutdown, ReconcileQuery, InjectFill,
         ApplyFill, ExchangeFill, Trip, Stop, omVars, vars

(* Once it is done, the shutdown does not begin again. *)
LEMMA DoneStays ==
  ASSUME TypeOK, [Next]_vars, op.who = "shutdown" <=> closing = "cancelling", closing = "done"
  PROVE  closing' = "done"
  BY DEF Next, Critical, EmitQuote, TakeQuote, BeginRequote, Requote, PlaceNew, Submit,
         CancelOk, CancelRetry, CancelGiveUp, CancelOrSkip, SizeFlatten, FlattenAndLeave,
         ReconcileCompare, ClaimHalt, BeginHalt, BeginShutdown, ReconcileQuery, InjectFill,
         ApplyFill, ExchangeFill, Trip, Stop, omVars, vars

LEMMA ClosingStep ==
  EngineTypeOK /\ Discipline /\ Closing /\ [EngineNext]_allVars => Closing'
<1> SUFFICES ASSUME EngineTypeOK, Discipline, Closing, [EngineNext]_allVars PROVE Closing'
  OBVIOUS
<1>0. TypeOK /\ phase \in Phases /\ closing \in {"no", "cancelling", "done"} /\ running \in BOOLEAN
  BY DEF EngineTypeOK, TypeOK
<1>1. CASE Boot \/ Subscribe
  <2>1. UNCHANGED <<op, closing, watcher, halted, cause>>
    BY <1>1 DEF Boot, ListOrders, CancelListed, AllCancelled, QueryResidual, FlattenAndStart,
                Subscribe, vars, omVars, mainVars
  <2>2. /\ cause # "fatal" /\ phase # "exited" /\ closing = "no" /\ phase' \notin {"draining", "quiet", "exited"}
        /\ phase' = "trading" => running'
    <3>1. CASE Subscribe
      BY <1>0, <3>1 DEF Subscribe, mainVars, omVars, Closing, Threads
    <3>2. CASE Boot
      <4>1. phase \in Preflight
        BY <3>2 DEF Boot, ListOrders, CancelListed, AllCancelled, QueryResidual,
                    FlattenAndStart, Preflight
      <4>2. phase' \in Preflight \cup {"trading", "down"} /\ (phase' = "trading" => running')
        BY <3>2 DEF Boot, ListOrders, CancelListed, AllCancelled, QueryResidual,
                    FlattenAndStart, Preflight
      <4> QED BY <1>0, <4>1, <4>2 DEF Closing, Preflight
    <3> QED BY <1>1, <3>1, <3>2
  <2>3. phase' \notin Threads \cup {"exited"} => phase \notin Threads \cup {"exited"}
    BY <1>1 DEF Boot, ListOrders, CancelListed, AllCancelled, QueryResidual, FlattenAndStart,
                Subscribe, mainVars, Threads
  <2> QED BY <2>1, <2>2, <2>3 DEF Closing, Unlocked, Threads
<1>2. CASE Signal \/ WsExhausted
  <2>1. /\ UNCHANGED <<op, closing, watcher, running>> /\ phase' = "draining" /\ phase = "trading"
        /\ cause' = "fatal" => halted'
    BY <1>2 DEF Signal, WsExhausted, omVars
  <2> QED BY <2>1 DEF Closing, Threads
<1>3. CASE Ending
  <2>1. UNCHANGED <<op, closing, watcher, running, halted, cause>>
    BY <1>3 DEF Ending, JoinStrategy, Exit, vars, omVars
  <2>2. \/ phase = "draining" /\ phase' = "quiet"
        \/ phase = "quiet" /\ phase' = "exited" /\ ~running
    BY <1>3 DEF Ending, JoinStrategy, Exit
  <2> QED BY <2>1, <2>2 DEF Closing, Threads
<1>4. CASE Crash \/ Restart
  <2>1. FreshProcess /\ phase' \in {"down", "listing"}
    BY <1>4 DEF Crash, Restart
  <2>2. op'.who = "none" /\ closing' = "no" /\ watcher' = "watching" /\ cause' = "none"
    BY <2>1 DEF FreshProcess, Idle
  <2> QED BY <2>1, <2>2 DEF Closing, Threads, Unlocked
<1>5. CASE OMStep /\ BeginShutdown
  <2>1. /\ op'.who = "shutdown" /\ closing' = "cancelling" /\ op'.at = "side"
        /\ UNCHANGED <<running, halted, watcher>> /\ closing = "no"
    BY <1>5, EnterMoves DEF BeginShutdown
  <2>2. UNCHANGED <<phase, cause>> /\ phase \in Threads
    BY <1>5 DEF OMStep, mainVars
  <2>3. phase = "quiet"
    <3>1. CASE running
      BY <1>5, <2>1, <2>2, <3>1 DEF OMStep, BeginShutdown, EmitQuote, TakeQuote, BeginRequote,
        Critical, Requote, PlaceNew, Submit, CancelOk, CancelRetry, CancelGiveUp, CancelOrSkip,
        SizeFlatten, FlattenAndLeave, ReconcileCompare, ClaimHalt, BeginHalt, ReconcileQuery,
        InjectFill, ApplyFill, Trip, Stop
    <3>2. CASE ~running
      BY <2>1, <2>2, <3>2 DEF Closing
    <3> QED BY <3>1, <3>2
  <2> QED BY <2>1, <2>2, <2>3 DEF Closing, Threads
<1>6. CASE (OMStep /\ ~BeginShutdown) \/ Market \/ UNCHANGED allVars
  <2>1. [Next]_vars /\ UNCHANGED <<phase, cause>> /\ ~BeginShutdown
    <3>1. Market => ~BeginShutdown
      BY DEF Market, ExchangeFill, BeginShutdown, omVars
    <3>2. UNCHANGED allVars => ~BeginShutdown
      BY DEF allVars, vars, omVars, BeginShutdown
    <3> QED BY <1>6, <3>1, <3>2, OMStepIsNext DEF OMStep, Market, allVars, mainVars
  <2>2. /\ op'.who = "shutdown" <=> closing' = "cancelling"
        /\ closing' = "no" <=> closing = "no"
    BY <1>0, <2>1, OnlyBeginShutdown DEF Closing
  <2>3. phase' \in Threads /\ ~running' => closing' = "done"
    BY <1>0, <2>1, RunningFrame, DoneStays DEF Closing
  <2>4. phase' = "exited" => closing' = "done"
    BY <1>0, <2>1, DoneStays DEF Closing
  <2>5. phase' \notin Threads \cup {"exited"} => Unlocked' /\ watcher' = "watching"
    <3>1. SUFFICES ASSUME phase \notin Threads \cup {"exited"} PROVE Unlocked' /\ watcher' = "watching"
      BY <2>1
    <3>2. UNCHANGED <<op, watcher>>
      BY <1>6, <3>1 DEF OMStep, Market, ExchangeFill, allVars, vars, omVars
    <3> QED BY <3>1, <3>2 DEF Closing, Unlocked
  <2>6. cause' = "fatal" => halted' /\ phase' \in {"draining", "quiet", "exited"}
    BY <1>0, <2>1, WatchFrame DEF Closing
  <2>7. cause' = "fatal" /\ closing' # "no" => op'.at # "submit"
    BY <1>0, <2>1, <2>2, NoNewSubmit DEF Closing
  <2> QED BY <2>1, <2>2, <2>3, <2>4, <2>5, <2>6, <2>7 DEF Closing
<1> QED BY <1>1, <1>2, <1>3, <1>4, <1>5, <1>6 DEF EngineNext

(* As long as no call has gone wrong: the preflight has left no order, so   *)
(* every order that rests is one its slot works on; on_halt has cleaned up  *)
(* if it ran; and the shutdown of a process whose streams gave up has       *)
(* cancelled what it has been past, for good.                               *)
Faultless ==
  Untouched =>
    /\ unanswered = {}
    /\ Progress /\ Left
    /\ phase \in Threads \cup {"exited"} => AllTracked
    /\ cause = "fatal" => Swept("shutdown")
    /\ cause = "fatal" /\ closing = "done" => \A side \in Sides : ~Working(slot[side])

(* The steps of the OrderManager in such a process. *)
LEMMA FaultlessOMStep ==
  ASSUME EngineTypeOK, Discipline, Ledger, Closing, Faultless, OMStep \/ Market \/ UNCHANGED allVars,
         faults' = 0
  PROVE  Faultless'
<1>0. TypeOK /\ [Next]_vars /\ UNCHANGED <<phase, cause>>
  BY OMStepIsNext DEF EngineTypeOK, OMStep, Market, allVars, mainVars
<1>1. /\ faults = 0 /\ ~CancelGiveUp /\ unanswered' = unanswered
  BY <1>0, FaultFrame
<1>2. /\ unanswered = {} /\ Progress /\ Left
      /\ phase \in Threads \cup {"exited"} => AllTracked
      /\ cause = "fatal" => Swept("shutdown")
      /\ cause = "fatal" /\ closing = "done" => \A side \in Sides : ~Working(slot[side])
  BY <1>1 DEF Faultless, Untouched
<1>3. CASE phase \in Threads \cup {"exited"}
  <2>1. AllTracked
    BY <1>2, <1>3
  <2>2. AllTracked'
    <3>1. \A p \in live' : TrackedBySlot(p)'
      BY <1>0, <1>1, <1>2, <2>1, TrackedStep DEF AllTracked
    <3> QED BY <1>1, <1>2, <3>1 DEF AllTracked
  <2>3. Progress' /\ Left'
    BY <1>0, <1>2, <2>1, ProgressStep, LeftStep
  <2>4. ASSUME cause = "fatal" PROVE Swept("shutdown")'
    <3>1. halted /\ Swept("shutdown") /\ (op.who = "shutdown" <=> closing = "cancelling")
      BY <1>2, <2>4 DEF Closing
    <3>2. CASE op.who = "shutdown"
      BY <1>0, <3>1, <3>2, SweepProgresses, SweepStays
    <3>3. CASE op.who # "shutdown" /\ ~BeginShutdown
      <4>1. op'.who # "shutdown"
        BY <1>0, <3>1, <3>3, NobodyElseCloses
      <4> QED BY <4>1 DEF Swept
    <3>4. CASE BeginShutdown
      <4>1. op'.at = "side" /\ op'.side = "BID"
        BY <3>4 DEF BeginShutdown, Enter, Idle
      <4> QED BY <4>1 DEF Swept
    <3> QED BY <3>2, <3>3, <3>4
  <2>5. ASSUME cause = "fatal", closing' = "done" PROVE \A side \in Sides : ~Working(slot'[side])
    <3>1. halted
      BY <2>5 DEF Closing
    <3>2. CASE closing = "done"
      <4>1. op.at # "submit" /\ \A side \in Sides : ~Working(slot[side])
        BY <1>2, <2>5, <3>2 DEF Closing
      <4> QED BY <1>0, <3>1, <4>1, StaysSettled
    <3>3. CASE closing # "done"
      <4>1. FlattenAndLeave /\ op.who = "shutdown"
        BY <1>0, <2>5, <3>3 DEF Next, Critical, EmitQuote, TakeQuote, BeginRequote, Requote,
           PlaceNew, Submit, CancelOk, CancelRetry, CancelGiveUp, CancelOrSkip, SizeFlatten,
           FlattenAndLeave, ReconcileCompare, ClaimHalt, BeginHalt, BeginShutdown,
           ReconcileQuery, InjectFill, ApplyFill, ExchangeFill, Trip, Stop, omVars, vars
      <4>2. slot' = slot /\ op.at = "flatten"
        BY <4>1 DEF FlattenAndLeave
      <4> QED BY <1>2, <2>5, <4>1, <4>2 DEF Swept
    <3> QED BY <3>2, <3>3
  <2> QED BY <1>0, <1>1, <1>2, <2>2, <2>3, <2>4, <2>5 DEF Faultless
<1>4. CASE phase \notin Threads \cup {"exited"}
  <2>1. UNCHANGED <<op, slot, watcher, closing>>
    BY <1>4 DEF OMStep, Market, ExchangeFill, allVars, vars, omVars
  <2>2. op.who = "none" /\ watcher = "watching" /\ cause # "fatal"
    BY <1>4 DEF Closing, Unlocked, Threads
  <2> QED BY <1>0, <1>1, <1>2, <1>4, <2>1, <2>2 DEF Faultless, Progress, Swept, Left
<1> QED BY <1>3, <1>4

LEMMA FaultlessStep ==
  EngineTypeOK /\ Cleared /\ Discipline /\ Ledger /\ Closing /\ Faultless /\ [EngineNext]_allVars
    => Faultless'
<1> SUFFICES ASSUME EngineTypeOK, Cleared, Discipline, Ledger, Closing, Faultless,
                    [EngineNext]_allVars, faults' = 0
             PROVE  Faultless'
  BY DEF Faultless, Untouched
<1>1. faults = 0 /\ ~Fault
  BY FaultlessBefore
<1>2. /\ unanswered = {} /\ Progress /\ Left
      /\ phase \in Threads \cup {"exited"} => AllTracked
      /\ cause = "fatal" => Swept("shutdown")
      /\ cause = "fatal" /\ closing = "done" => \A side \in Sides : ~Working(slot[side])
  BY <1>1 DEF Faultless, Untouched
<1>3. CASE OMStep \/ Market \/ UNCHANGED allVars
  BY <1>3, FaultlessOMStep
<1>4. CASE Boot
  <2>1. MainOnly /\ phase \in Preflight /\ cause' = cause
    BY <1>4, BootSteps
  <2>2. op.who = "none" /\ watcher = "watching" /\ cause # "fatal"
    BY <2>1 DEF Closing, Unlocked, Threads, Preflight
  <2>3. phase' \in Threads \cup {"exited"} => AllTracked'
    <3>1. phase' \in Threads \cup {"exited"} => FlattenAndStart
      BY <1>4 DEF Boot, ListOrders, CancelListed, AllCancelled, QueryResidual, Threads
    <3>2. FlattenAndStart => live' = {}
      BY <1>1 DEF Cleared, FlattenAndStart, exchangeVars
    <3> QED BY <1>2, <2>1, <3>1, <3>2 DEF MainOnly, AllTracked
  <2> QED BY <1>2, <2>1, <2>2, <2>3 DEF Faultless, MainOnly, Progress, Swept, Left
<1>5. CASE Subscribe \/ Signal \/ WsExhausted \/ Ending
  <2>1. /\ UNCHANGED <<op, slot, watcher, closing, unanswered, live, position>>
        /\ phase \in Threads
    BY <1>5 DEF Subscribe, Signal, WsExhausted, Ending, JoinStrategy, Exit, vars, exchangeVars,
                omVars, Threads
  <2>2. AllTracked' /\ Progress' /\ Left'
    BY <1>2, <2>1 DEF AllTracked, TrackedBySlot, Progress, Swept, Left
  <2>3. cause' = "fatal" => cause = "fatal" \/ closing = "no"
    BY <1>5 DEF Subscribe, Signal, WsExhausted, Ending, JoinStrategy, Exit, mainVars, Closing
  <2>4. closing = "no" => op.who # "shutdown"
    BY DEF Closing
  <2> QED BY <1>2, <2>1, <2>2, <2>3, <2>4 DEF Faultless, Swept
<1>6. CASE Crash \/ Restart
  <2>1. FreshProcess /\ phase' \in {"down", "listing"} /\ unanswered' = unanswered
    BY <1>6 DEF Crash, Restart
  <2>2. op'.who = "none" /\ watcher' = "watching" /\ cause' = "none"
    BY <2>1 DEF FreshProcess, Idle
  <2> QED BY <1>2, <2>1, <2>2 DEF Faultless, Progress, Swept, Left, Threads
<1> QED BY <1>3, <1>4, <1>5, <1>6 DEF EngineNext

LEMMA EngineFaultless ==
  EngineSpec => [](EngineTypeOK /\ Cleared /\ Discipline /\ Ledger /\ Closing /\ Faultless)
<1>1. ASSUME EngineInit PROVE Cleared /\ Closing /\ Faultless
  <2>1. /\ phase = "listing" /\ cause = "none" /\ op.who = "none" /\ closing = "no"
        /\ watcher = "watching" /\ unanswered = {}
    BY <1>1 DEF EngineInit, OMInit, Idle
  <2> QED
    BY <1>1, <2>1 DEF EngineInit, Cleared, Closing, Unlocked, Faultless, Progress, Swept, Left, Threads
<1> QED
  BY <1>1, EngineTypeInit, EngineLedgerInit, EngineTypeStep, ClearedStep, EngineLedgerStep,
     ClosingStep, FaultlessStep, PTL
  DEF EngineSpec

(* A process that ends because its streams gave up, without any other call  *)
(* going wrong, leaves no order at the exchange, whatever quotes were still *)
(* in the ring and whatever earlier processes left behind.                  *)
THEOREM FatalExitIsClean == EngineSpec => []FatalExitLeavesNoOrder
<1>1. EngineTypeOK /\ Closing /\ Faultless => FatalExitLeavesNoOrder
  <2> SUFFICES ASSUME EngineTypeOK, Closing, Faultless, phase = "exited", cause = "fatal", faults = 0
               PROVE  live = {}
    BY DEF FatalExitLeavesNoOrder
  <2>1. AllTracked /\ closing = "done" /\ \A side \in Sides : ~Working(slot[side])
    BY DEF Closing, Faultless, Untouched
  <2> QED BY <2>1, NothingRests DEF EngineTypeOK
<1> QED BY <1>1, EngineFaultless, PTL

(* In the life of the engine, too, a halt leaves no order and no position   *)
(* worth a market order, if no call went wrong since the first process.     *)
THEOREM EngineHaltLeavesClean == EngineSpec => []HaltCleansUp
<1>1. EngineTypeOK /\ Closing /\ Faultless => HaltCleansUp
  <2> SUFFICES ASSUME EngineTypeOK, Closing, Faultless, watcher = "done", faults = 0
               PROVE  live = {} /\ (closing = "no" => Abs(position) <= FlattenThreshold)
    BY DEF HaltCleansUp
  <2>1. AllTracked /\ Left
    BY DEF Closing, Faultless, Untouched
  <2> QED BY <2>1, NothingRests DEF EngineTypeOK, Left
<1> QED BY <1>1, EngineFaultless, PTL

=============================================================================
