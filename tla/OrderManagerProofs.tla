------------------------- MODULE OrderManagerProofs -------------------------
(***************************************************************************)
(* Theorems about the OrderManager, for every order size, limit, ring      *)
(* capacity and number of faults, retries and quotes.                      *)
(***************************************************************************)
EXTENDS OrderManager, FiniteSetTheorems, SequenceTheorems, WellFoundedInduction, TLAPS

-----------------------------------------------------------------------------
(* Order states *)

(* A transition ends in a known state and never leaves a terminal one. *)
LEMMA TransitionFacts ==
  ASSUME NEW s \in OrderStates, NEW t \in OrderStates
  PROVE /\ Transition(s, t) \in OrderStates
        /\ s \in Terminal => Transition(s, t) = s
  BY DEF Transition, Successors, OrderStates, Terminal

(* The transitions place_new, cancel_slot and inject_fill ask for. *)
LEMMA TransitionTable ==
  /\ Transition(Transition("NEW", "PENDING"), "SUBMITTED") = "SUBMITTED"
  /\ Transition("SUBMITTED", "ACKNOWLEDGED") = "ACKNOWLEDGED"
  /\ Transition("SUBMITTED", "REJECTED") = "REJECTED"
  /\ \A s \in OrderStates \ InFlight : \A t \in {"CANCELED", "PARTIALLY_FILLED", "FILLED"} :
       Transition(s, t) \notin InFlight
  /\ Transition("ACKNOWLEDGED", "PARTIALLY_FILLED") = "PARTIALLY_FILLED"
  /\ \A s \in OrderStates : Transition(s, s) = s
  /\ \A s \in {"ACKNOWLEDGED", "PARTIALLY_FILLED"} : Transition(s, "FILLED") = "FILLED"
  BY DEF Transition, Successors, OrderStates, Terminal, InFlight

(* The count of working slots is a natural number. *)
LEMMA OpenOrdersType == \A sl : OpenOrders(sl) \in Nat
<1>1. Sides = {"BID"} \cup {"ASK"}
  BY DEF Sides
<1>2. IsFiniteSet(Sides)
  BY <1>1, FS_Singleton, FS_Union
<1> SUFFICES ASSUME NEW sl PROVE OpenOrders(sl) \in Nat
  OBVIOUS
<1>3. IsFiniteSet({side \in Sides : Working(sl[side])})
  BY <1>2, FS_Subset
<1> QED BY <1>3, FS_CardinalityType DEF OpenOrders

-----------------------------------------------------------------------------
(* Types *)

Places == {"none", "side", "cancel", "place", "submit", "query", "flatten", "compare"}

LEMMA GotoType == ASSUME op \in Ops, NEW at \in Places, Goto(at) PROVE op' \in Ops
  BY DEF Goto, Ops, Places

LEMMA EnterType ==
  ASSUME NEW who \in Users, NEW at \in Places, Enter(who, at) PROVE op' \in Ops
<1>1. Idle \in Ops
  BY DEF Idle, Ops, Sides
<1> QED BY <1>1 DEF Enter, Ops, Users, Places

LEMMA LeaveType == Leave => op' \in Ops
  BY DEF Leave, Idle, Ops, Sides

LEMMA AfterSideType == ASSUME op \in Ops, AfterSide PROVE op' \in Ops
<1>1. CASE op.side = "BID"
  <2>1. op' = [op EXCEPT !.at = "side", !.side = "ASK", !.tries = 0]
    BY <1>1 DEF AfterSide, Goto, Leave
  <2> QED BY <2>1 DEF Ops, Sides
<1>2. CASE op.side # "BID" /\ op.who = "quote"
  BY <1>2, LeaveType DEF AfterSide, Leave, Goto
<1>3. CASE op.side # "BID" /\ op.who # "quote"
  <2>1. op' = [op EXCEPT !.at = "query", !.tries = 0]
    BY <1>3 DEF AfterSide, Leave, Goto
  <2> QED BY <2>1 DEF Ops
<1> QED BY <1>1, <1>2, <1>3

LEMMA AfterCancelType == ASSUME op \in Ops, AfterCancel PROVE op' \in Ops
<1>1. CASE op.who = "quote"
  <2>1. op' = [op EXCEPT !.at = "place", !.tries = 0]
    BY <1>1 DEF AfterCancel, Goto, AfterSide, Leave
  <2> QED BY <2>1 DEF Ops
<1>2. CASE op.who # "quote"
  <2>1. AfterSide
    BY <1>2 DEF AfterCancel, Goto, AfterSide, Leave
  <2> QED BY <2>1, AfterSideType
<1> QED BY <1>1, <1>2

(* Storing a slot keeps the type of the slots. *)
LEMMA SetSlotType ==
  ASSUME TypeOK, NEW s \in Slots, SetSlot(s)
  PROVE slot' \in [Sides -> Slots]
  BY DEF TypeOK, SetSlot, Ops

LEMMA MovedType ==
  ASSUME NEW s \in Slots, NEW to \in OrderStates
  PROVE Moved(s, to) \in Slots /\ Retired(s, to) \in Slots
  BY TransitionFacts DEF Moved, Retired, Slots

LEMMA BookType ==
  ASSUME NEW s \in Slots, NEW e \in Events
  PROVE Book(s, e) \in Slots
<1> DEFINE exec == s.exec + e.qty
           full == exec >= Qty
           to == CASE full /\ s.state \in {"ACKNOWLEDGED", "PARTIALLY_FILLED"} -> "FILLED"
                   [] ~full /\ s.state = "ACKNOWLEDGED" -> "PARTIALLY_FILLED"
                   [] OTHER -> s.state
<1>1. exec \in Nat
  BY DEF Slots, Events
<1>2. to \in OrderStates
  BY DEF Slots, OrderStates
<1>3. Transition(s.state, to) \in OrderStates
  BY <1>2, TransitionFacts DEF Slots
<1> HIDE DEF exec, to
<1>4. [s EXCEPT !.exec = exec, !.state = Transition(s.state, to), !.active = to # "FILLED"]
        \in Slots
  BY <1>1, <1>3 DEF Slots
<1> QED BY <1>4 DEF Book, exec, full, to

LEMMA InitTypeOK == Init => TypeOK
<1> SUFFICES ASSUME Init PROVE TypeOK
  OBVIOUS
<1>1. slot \in [Sides -> Slots]
  BY DEF Init, OMInit, Slots, EmptySlot, OrderStates
<1>2. op \in Ops
  BY DEF Init, OMInit, Ops, Idle, Sides
<1>3. /\ live \subseteq Orders /\ position \in Int /\ feed \in Seq(Events)
      /\ subscribed \in BOOLEAN /\ undelivered \in Int /\ faults \in Nat
  BY DEF Init, ExchangeInit
<1>4. /\ openCount \in Nat /\ inv \in Int /\ ring \in Seq(Int) /\ Len(ring) <= RingCap
      /\ queued \in 0..QuoteRingCap /\ emitted \in Nat /\ nextCid \in Nat \ {0}
      /\ unanswered \subseteq Nat
  BY OrderManagerAssumption DEF Init, OMInit
<1>5. /\ holding \in BOOLEAN /\ halted \in BOOLEAN /\ running \in BOOLEAN
      /\ watcher \in {"watching", "claimed", "handling", "done"}
      /\ closing \in {"no", "cancelling", "done"}
  BY DEF Init, OMInit
<1> QED BY <1>1, <1>2, <1>3, <1>4, <1>5 DEF TypeOK

(* The types of the exchange's variables. *)
ExchangeTypeOK ==
  /\ live \subseteq Orders /\ position \in Int /\ feed \in Seq(Events)
  /\ subscribed \in BOOLEAN /\ undelivered \in Int /\ faults \in Nat

(* A step of the exchange keeps its types. *)
LEMMA EmitType ==
  ASSUME ExchangeTypeOK, NEW e \in Events, Emit(e)
  PROVE /\ feed' \in Seq(Events) /\ subscribed' \in BOOLEAN
        /\ undelivered' \in Int /\ faults' \in Nat
<1>1. Sign(e.side) * e.qty \in Int
  BY DEF Events, Sign
<1> QED BY <1>1 DEF ExchangeTypeOK, Emit, Delivered, Missed, NoFault, Fault

LEMMA FlattenType ==
  ASSUME ExchangeTypeOK, NEW cid \in Nat, NEW net \in Int \ {0}, Flatten(cid, net)
  PROVE ExchangeTypeOK'
<1> DEFINE side == IF net > 0 THEN "ASK" ELSE "BID"
           size == IF net > 0 THEN net ELSE -net
           e == [cid |-> cid, side |-> side, qty |-> size, acc |-> size]
<1>1. e \in Events /\ position + Sign(side) * size \in Int
  BY DEF Events, Sides, Sign, ExchangeTypeOK
<1>2. position' = position + Sign(side) * size /\ Emit(e) /\ UNCHANGED live
  BY DEF Flatten
<1> QED BY <1>1, <1>2, EmitType DEF ExchangeTypeOK

LEMMA TradeType ==
  ASSUME ExchangeTypeOK, NEW o \in live, NEW q \in 1..o.rem, Trade(o, q)
  PROVE ExchangeTypeOK'
<1> USE ExchangeAssumption
<1> DEFINE e == [cid |-> o.cid, side |-> o.side, qty |-> q, acc |-> Qty - o.rem + q]
<1>1. o \in Orders /\ o.rem \in 1..Qty /\ q \in Nat \ {0} /\ o.side \in Sides
  BY DEF ExchangeTypeOK, Orders
<1>2. e \in Events /\ position + Sign(o.side) * q \in Int
  BY <1>1 DEF Events, Orders, Sides, Sign, ExchangeTypeOK
<1>3. q < o.rem => [o EXCEPT !.rem = o.rem - q] \in Orders
  BY <1>1 DEF Orders
<1>4. live' \subseteq Orders
  BY <1>3 DEF Trade, ExchangeTypeOK
<1>5. position' = position + Sign(o.side) * q /\ Emit(e)
  BY DEF Trade
<1> QED BY <1>2, <1>4, <1>5, EmitType DEF ExchangeTypeOK

LEMMA TypeOKStep == TypeOK /\ [Next]_vars => TypeOK'
<1> SUFFICES ASSUME TypeOK, [Next]_vars PROVE TypeOK'
  OBVIOUS
<1> USE ExchangeAssumption, OrderManagerAssumption
<1>0. /\ op \in Ops /\ op.side \in Sides /\ slot[op.side] \in Slots
      /\ ExchangeTypeOK
  BY DEF TypeOK, Ops, ExchangeTypeOK
<1>1. CASE EmitQuote
  BY <1>1 DEF EmitQuote, PushQuote, TypeOK, exchangeVars
<1>2. CASE TakeQuote
  BY <1>2 DEF TakeQuote, TypeOK, exchangeVars
<1>3. CASE BeginRequote
  BY <1>3, EnterType DEF BeginRequote, Users, Places, TypeOK, exchangeVars
<1>4. CASE Requote
  <2>1. op' \in Ops
    BY <1>0, <1>4, AfterSideType, GotoType DEF Requote, Places
  <2> QED BY <1>4, <2>1 DEF Requote, TypeOK, exchangeVars
<1>5. CASE PlaceNew
  <2>1. Fresh \in Slots
    BY TransitionTable DEF Fresh, Slots, OrderStates, TypeOK
  <2>2. Moved(Fresh, "REJECTED") \in Slots
    BY <2>1, MovedType DEF OrderStates
  <2>3. op' \in Ops
    BY <1>0, <1>5, AfterSideType, GotoType DEF PlaceNew, Places
  <2>4. slot' \in [Sides -> Slots]
    BY <1>5, <2>1, <2>2, SetSlotType DEF PlaceNew
  <2>5. openCount' \in Nat
    BY <1>5, OpenOrdersType DEF PlaceNew, Sync, TypeOK
  <2> QED BY <1>5, <2>3, <2>4, <2>5 DEF PlaceNew, TypeOK, exchangeVars
<1>6. CASE Submit
  <2>1. Moved(slot[op.side], "REJECTED") \in Slots /\ Moved(slot[op.side], "ACKNOWLEDGED") \in Slots
    BY <1>0, MovedType DEF OrderStates
  <2>2. op' \in Ops
    BY <1>0, <1>6, AfterSideType DEF Submit
  <2>3. slot' \in [Sides -> Slots]
    BY <1>6, <2>1, SetSlotType DEF Submit
  <2>4. openCount' \in Nat
    BY <1>6, OpenOrdersType DEF Submit, Sync
  <2>5. Accepted(slot[op.side].cid, op.side) \subseteq Orders
    BY <1>0 DEF Accepted, Orders, Slots, TypeOK
  <2>6. live' \subseteq Orders
    BY <1>6, <2>5 DEF Submit, TypeOK
  <2>7. unanswered' \subseteq Nat
    BY <1>0, <1>6 DEF Submit, TypeOK, Slots
  <2>8. faults' \in Nat
    BY <1>6 DEF Submit, TypeOK, NoFault, Fault
  <2> QED BY <1>6, <2>2, <2>3, <2>4, <2>6, <2>7, <2>8 DEF Submit, TypeOK
<1>7. CASE CancelOk
  <2>1. Retired(slot[op.side], "CANCELED") \in Slots
    BY <1>0, MovedType DEF OrderStates
  <2>2. op' \in Ops
    BY <1>0, <1>7, AfterCancelType DEF CancelOk
  <2>3. slot' \in [Sides -> Slots] /\ openCount' \in Nat
    BY <1>7, <2>1, SetSlotType, OpenOrdersType DEF CancelOk, Sync
  <2> QED BY <1>7, <2>2, <2>3 DEF CancelOk, Without, TypeOK
<1>8. CASE CancelRetry
  <2>1. op' \in Ops
    BY <1>0, <1>8 DEF CancelRetry, Ops
  <2>2. live' \subseteq Orders /\ faults' \in Nat
    <3>1. faults' = faults + 1 /\ live' \in {live, Without(slot[op.side].cid)}
      BY <1>8 DEF CancelRetry, Fault
    <3> QED BY <3>1 DEF Without, TypeOK
  <2> QED BY <1>8, <2>1, <2>2 DEF CancelRetry, TypeOK
<1>9. CASE CancelGiveUp
  <2>1. Abandoned(slot[op.side]) \in Slots
    BY <1>0 DEF Abandoned, Slots
  <2>2. op' \in Ops
    BY <1>0, <1>9, AfterSideType DEF CancelGiveUp
  <2>3. slot' \in [Sides -> Slots] /\ openCount' \in Nat
    BY <1>9, <2>1, SetSlotType, OpenOrdersType DEF CancelGiveUp, Sync
  <2>4. live' \subseteq Orders /\ faults' \in Nat
    <3>1. faults' = faults + 1 /\ live' \in {live, Without(slot[op.side].cid)}
      BY <1>9 DEF CancelGiveUp, Fault
    <3> QED BY <3>1 DEF Without, TypeOK
  <2> QED BY <1>9, <2>2, <2>3, <2>4 DEF CancelGiveUp, Escalate, TypeOK
<1>10. CASE ClaimHalt
  BY <1>10 DEF ClaimHalt, TypeOK, exchangeVars
<1>11. CASE BeginHalt
  BY <1>11, EnterType DEF BeginHalt, Users, Places, TypeOK, exchangeVars
<1>12. CASE BeginShutdown
  BY <1>12, EnterType DEF BeginShutdown, Users, Places, TypeOK, exchangeVars
<1>13. CASE CancelOrSkip
  <2>1. op' \in Ops
    BY <1>0, <1>13, AfterSideType, GotoType DEF CancelOrSkip, Places
  <2>2. faults' \in Nat
    BY <1>13 DEF CancelOrSkip, NoFault, Fault, TypeOK
  <2> QED BY <1>13, <2>1, <2>2 DEF CancelOrSkip, TypeOK
<1>14. CASE SizeFlatten
  <2>0. position \in Int /\ inv \in Int /\ 0 \in Int
    BY DEF TypeOK
  <2>1. \E n \in Int : op' = [op EXCEPT !.at = "flatten", !.est = n]
    BY <1>14, <2>0, Zenon DEF SizeFlatten, HaltPosition
  <2>2. ASSUME NEW n \in Int PROVE [op EXCEPT !.at = "flatten", !.est = n] \in Ops
    BY <1>0 DEF Ops
  <2>3. op' \in Ops
    BY <2>1, <2>2
  <2>4. faults' \in Nat
    <3>1. NoFault \/ Fault
      BY <1>14, Zenon DEF SizeFlatten
    <3> QED BY <3>1 DEF NoFault, Fault, TypeOK
  <2> QED BY <1>14, <2>3, <2>4 DEF SizeFlatten, TypeOK
<1>15. CASE FlattenAndLeave
  <2>1. op' \in Ops
    BY <1>15, LeaveType DEF FlattenAndLeave
  <2>2. nextCid' \in Nat \ {0}
    BY <1>15 DEF FlattenAndLeave, TypeOK
  <2>3. op.est \in Int /\ (Abs(op.est) > FlattenThreshold => op.est \in Int \ {0})
    BY <1>0 DEF Ops, Abs
  <2>4. ExchangeTypeOK'
    <3>1. CASE Abs(op.est) > FlattenThreshold /\ Flatten(nextCid, op.est)
      BY <1>0, <2>3, <3>1, FlattenType DEF TypeOK
    <3>2. CASE Fault /\ UNCHANGED <<live, position, feed, subscribed, undelivered>>
      BY <1>0, <3>2 DEF ExchangeTypeOK, Fault
    <3>3. CASE UNCHANGED exchangeVars
      BY <1>0, <3>3 DEF ExchangeTypeOK, exchangeVars
    <3> QED BY <1>15, <3>1, <3>2, <3>3 DEF FlattenAndLeave
  <2>5. watcher' \in {"watching", "claimed", "handling", "done"} /\ closing' \in {"no", "cancelling", "done"}
    BY <1>15 DEF FlattenAndLeave, TypeOK
  <2> QED BY <1>15, <2>1, <2>2, <2>4, <2>5 DEF FlattenAndLeave, TypeOK, ExchangeTypeOK
<1>16. CASE ReconcileQuery
  <2>1. \E n \in {position, 0} :
          op' = [who |-> "reconcile", at |-> "compare", side |-> "BID", tries |-> 0, est |-> n]
    BY <1>16 DEF ReconcileQuery, Idle
  <2>2. op' \in Ops
    BY <2>1 DEF Ops, Users, Sides, TypeOK
  <2>3. faults' \in Nat
    <3>1. NoFault \/ Fault
      BY <1>16, Zenon DEF ReconcileQuery
    <3> QED BY <3>1 DEF NoFault, Fault, TypeOK
  <2> QED BY <1>16, <2>2, <2>3 DEF ReconcileQuery, TypeOK
<1>17. CASE ReconcileCompare
  <2>1. halted' \in BOOLEAN
    BY <1>17 DEF ReconcileCompare, Diverged
  <2> QED BY <1>17, <2>1, LeaveType DEF ReconcileCompare, TypeOK, exchangeVars
<1>18. CASE InjectFill
  <2>1. Head(feed) \in Events /\ Tail(feed) \in Seq(Events)
    BY <1>18 DEF InjectFill, TypeOK
  <2>2. slot' \in [Sides -> Slots]
    BY <1>18, <2>1, BookType DEF InjectFill, TypeOK
  <2>3. Sign(Head(feed).side) * Head(feed).qty \in Int
    BY <2>1 DEF Events, Sign
  <2>4. ring' \in Seq(Int) /\ Len(ring') <= RingCap /\ undelivered' \in Int
    <3> DEFINE n == Sign(Head(feed).side) * Head(feed).qty
    <3>1. PushFill(n) /\ n \in Int
      BY <1>18, <2>3 DEF InjectFill
    <3> HIDE DEF n
    <3>2. CASE Len(ring) < RingCap
      <4>1. ring \in Seq(Int) /\ undelivered \in Int
        BY DEF TypeOK
      <4>2. ring' = Append(ring, n) /\ undelivered' = undelivered
        BY <3>1, <3>2 DEF PushFill
      <4>3. Append(ring, n) \in Seq(Int) /\ Len(Append(ring, n)) = Len(ring) + 1
        BY <3>1, <4>1
      <4>4. Len(ring) \in Nat /\ RingCap \in Nat
        BY <4>1, OrderManagerAssumption
      <4> QED BY <3>2, <4>1, <4>2, <4>3, <4>4
    <3>3. CASE ~(Len(ring) < RingCap)
      BY <3>1, <3>3 DEF PushFill, TypeOK
    <3> QED BY <3>2, <3>3
  <2>5. openCount' \in Nat
    BY <1>18, OpenOrdersType DEF InjectFill, TypeOK
  <2> QED BY <1>18, <2>1, <2>2, <2>4, <2>5 DEF InjectFill, TypeOK
<1>19. CASE ApplyFill
  BY <1>19 DEF ApplyFill, TypeOK, exchangeVars
<1>20. CASE ExchangeFill
  <2>1. ExchangeTypeOK'
    BY <1>0, <1>20, TradeType DEF ExchangeFill
  <2> QED BY <1>20, <2>1 DEF ExchangeFill, omVars, TypeOK, ExchangeTypeOK
<1>21. CASE Trip
  BY <1>21 DEF Trip, TypeOK, exchangeVars
<1>22. CASE Stop
  BY <1>22 DEF Stop, TypeOK, exchangeVars
<1>23. CASE UNCHANGED vars
  BY <1>23 DEF vars, omVars, exchangeVars, TypeOK
<1> QED
  BY <1>1, <1>2, <1>3, <1>4, <1>5, <1>6, <1>7, <1>8, <1>9, <1>10, <1>11, <1>12, <1>13,
     <1>14, <1>15, <1>16, <1>17, <1>18, <1>19, <1>20, <1>21, <1>22, <1>23
  DEF Next, Critical

(* The variables keep their types. *)
THEOREM TypeCorrect == Spec => []TypeOK
  BY InitTypeOK, TypeOKStep, PTL DEF Spec

-----------------------------------------------------------------------------
(* The locking discipline: what holds while a critical section is between   *)
(* two REST calls, and therefore what every other thread finds when it gets *)
(* mu_.  First the inductive invariant.                                     *)

(* Who may be where inside a critical section. *)
Shape ==
  /\ op.who = "none" <=> op.at = "none"
  /\ op.at \in {"place", "submit"} => op.who = "quote"
  /\ op.at \in {"query", "flatten"} => op.who \in {"halt", "shutdown"}
  /\ op.at \in {"side", "cancel"} => op.who \in {"quote", "halt", "shutdown"}
  /\ op.at = "compare" => op.who = "reconcile"

(* Only the slot place_new works on is ever in flight, and only there. *)
InFlightSlots ==
  /\ \A side \in Sides : slot[side].state \in InFlight => op.at = "submit" /\ side = op.side
  /\ op.at = "submit" => slot[op.side].state = "SUBMITTED" /\ slot[op.side].active
  /\ op.at = "place" => ~Working(slot[op.side])

(* The RiskManager's count is behind only while place_new waits for REST. *)
Counted == op.at # "submit" => openCount = OpenOrders(slot)

(* The watcher acts on a set latch only, holds mu_ while it does, and no    *)
(* order is between breaker check and REST call once it is done.            *)
Halting ==
  /\ watcher # "watching" => halted
  /\ watcher = "handling" <=> op.who = "halt"
  /\ watcher = "done" => op.at # "submit"

Discipline == Shape /\ InFlightSlots /\ Counted /\ Halting

-----------------------------------------------------------------------------
(* Moves of the critical section *)

(* Where AfterSide leads: to the other side, to the flatten, or out. *)
LEMMA AfterSideMoves ==
  ASSUME op \in Ops, op.who \in {"quote", "halt", "shutdown"}, AfterSide
  PROVE /\ \/ op'.at = "side" /\ op'.who = op.who
           \/ op'.at = "none" /\ op'.who = "none" /\ op.who = "quote"
           \/ op'.at = "query" /\ op'.who = op.who /\ op.who # "quote"
        /\ Shape'
        /\ op'.at \notin {"place", "submit"}
        /\ op.who # "quote" => op'.who = op.who
        /\ op'.who = "halt" <=> op.who = "halt"
<1>1. CASE op.side = "BID"
  <2>1. op' = [op EXCEPT !.at = "side", !.side = "ASK", !.tries = 0]
    BY <1>1 DEF AfterSide, Goto, Leave
  <2>2. op'.at = "side" /\ op'.who = op.who
    BY <2>1 DEF Ops
  <2> QED BY <2>2 DEF Shape
<1>2. CASE op.side # "BID" /\ op.who = "quote"
  <2>1. op' = Idle
    BY <1>2 DEF AfterSide, Goto, Leave
  <2>2. op'.at = "none" /\ op'.who = "none"
    BY <2>1 DEF Idle
  <2> QED BY <1>2, <2>2 DEF Shape
<1>3. CASE op.side # "BID" /\ op.who # "quote"
  <2>1. op' = [op EXCEPT !.at = "query", !.tries = 0]
    BY <1>3 DEF AfterSide, Goto, Leave
  <2>2. op'.at = "query" /\ op'.who = op.who
    BY <2>1 DEF Ops
  <2> QED BY <1>3, <2>2 DEF Shape
<1> QED BY <1>1, <1>2, <1>3

(* Entering mu_ and moving on inside it. *)
LEMMA GotoMoves ==
  ASSUME op \in Ops, NEW at, Goto(at)
  PROVE op'.at = at /\ op'.who = op.who /\ op'.side = op.side
  BY DEF Goto, Ops

LEMMA EnterMoves ==
  ASSUME NEW who, NEW at, Enter(who, at)
  PROVE op'.at = at /\ op'.who = who
  BY DEF Enter, Idle

LEMMA LeaveMoves == Leave => op'.at = "none" /\ op'.who = "none"
  BY DEF Leave, Idle

(* What SetSlot leaves: the new slot on the current side, the other as is. *)
LEMMA SetSlotAt ==
  ASSUME TypeOK, NEW s, SetSlot(s)
  PROVE /\ slot'[op.side] = s
        /\ \A side \in Sides : side # op.side => slot'[side] = slot[side]
  BY DEF TypeOK, SetSlot, Ops

(* A fill settles nothing back into flight, keeps the cid, and changes      *)
(* whether the slot works only by deactivating it.                          *)
LEMMA BookFacts ==
  ASSUME NEW s \in Slots, s.state \notin InFlight, NEW e \in Events
  PROVE /\ Book(s, e).state \notin InFlight
        /\ Book(s, e).cid = s.cid
        /\ s.state \in Terminal => Book(s, e).state = s.state
        /\ ~(s.active /\ ~Book(s, e).active) => Working(Book(s, e)) = Working(s)
<1> DEFINE exec == s.exec + e.qty
           full == exec >= Qty
           to == CASE full /\ s.state \in {"ACKNOWLEDGED", "PARTIALLY_FILLED"} -> "FILLED"
                   [] ~full /\ s.state = "ACKNOWLEDGED" -> "PARTIALLY_FILLED"
                   [] OTHER -> s.state
           t == [s EXCEPT !.exec = exec, !.state = Transition(s.state, to),
                          !.active = to # "FILLED"]
<1>1. CASE s.active /\ s.cid = e.cid
  <2>1. Book(s, e) = t
    BY <1>1 DEF Book
  <2>2. \/ to = "FILLED" /\ s.state \in {"ACKNOWLEDGED", "PARTIALLY_FILLED"}
        \/ to = "PARTIALLY_FILLED" /\ s.state = "ACKNOWLEDGED"
        \/ to = s.state
    OBVIOUS
  <2> HIDE DEF exec, to
  <2>3. t.state = Transition(s.state, to) /\ t.cid = s.cid /\ t.active = (to # "FILLED")
    BY DEF Slots
  <2> HIDE DEF t
  <2>4. s.state \in OrderStates
    BY DEF Slots
  <2>5. t.state \notin InFlight /\ (s.state \in Terminal => t.state = s.state)
    BY <2>2, <2>3, <2>4, TransitionTable DEF Terminal, InFlight
  <2>6. t.active => (t.state \in Terminal <=> s.state \in Terminal)
    BY <2>2, <2>3, <2>4, TransitionTable DEF Terminal
  <2>7. t.active \in BOOLEAN /\ s.active \in BOOLEAN
    BY <2>3 DEF Slots
  <2> QED BY <1>1, <2>1, <2>3, <2>5, <2>6, <2>7 DEF Working
<1>2. CASE ~(s.active /\ s.cid = e.cid)
  <2>1. Book(s, e) = s
    BY <1>2 DEF Book
  <2> QED BY <2>1
<1> QED BY <1>1, <1>2

(* Slots whose sides work alike are counted alike. *)
LEMMA SameCount ==
  ASSUME NEW f, NEW g, \A side \in Sides : Working(f[side]) = Working(g[side])
  PROVE OpenOrders(f) = OpenOrders(g)
<1>1. {side \in Sides : Working(f[side])} = {side \in Sides : Working(g[side])}
  OBVIOUS
<1> QED BY <1>1 DEF OpenOrders

-----------------------------------------------------------------------------
(* The invariant holds initially *)

LEMMA InitDiscipline == Init => Discipline
<1> SUFFICES ASSUME Init PROVE Discipline
  OBVIOUS
<1>1. op.who = "none" /\ op.at = "none" /\ watcher = "watching" /\ openCount = 0
  BY DEF Init, OMInit, Idle
<1>2. \A side \in Sides : slot[side].state = "NEW" /\ ~slot[side].active
  BY DEF Init, OMInit, EmptySlot
<1>3. OpenOrders(slot) = 0
  <2>1. {side \in Sides : Working(slot[side])} = {}
    BY <1>2 DEF Working
  <2> QED BY <2>1, FS_EmptySet DEF OpenOrders
<1> QED BY <1>1, <1>2, <1>3 DEF Discipline, Shape, InFlightSlots, InFlight, Counted, Halting

(* and is kept by every step. *)
LEMMA DisciplineStep == TypeOK /\ Discipline /\ [Next]_vars => Discipline'
<1> SUFFICES ASSUME TypeOK, Discipline, [Next]_vars PROVE Discipline'
  OBVIOUS
<1>0. /\ op \in Ops /\ op.side \in Sides /\ slot[op.side] \in Slots
      /\ Shape /\ InFlightSlots /\ Counted /\ Halting
  BY DEF TypeOK, Ops, Discipline
(* Steps outside the critical section that leave op, slots and count alone. *)
<1>1. ASSUME UNCHANGED <<op, slot, openCount, watcher>>, halted => halted' PROVE Discipline'
  BY <1>0, <1>1 DEF Discipline, Shape, InFlightSlots, Counted, Halting
(* Steps that move the critical section, slots and count unchanged. *)
<1>2. ASSUME UNCHANGED <<slot, openCount, watcher>>, halted => halted', Shape',
             op.at # "submit", op'.at \notin {"place", "submit"},
             op'.who = "halt" <=> op.who = "halt"
      PROVE Discipline'
  <2>1. \A side \in Sides : slot[side].state \notin InFlight
    BY <1>0, <1>2 DEF InFlightSlots
  <2>2. InFlightSlots'
    BY <1>2, <2>1 DEF InFlightSlots
  <2>3. Counted'
    BY <1>0, <1>2 DEF Counted
  <2>4. Halting'
    BY <1>0, <1>2 DEF Halting
  <2> QED BY <1>2, <2>2, <2>3, <2>4 DEF Discipline
(* Steps that settle the slot of the current side and sync the count. *)
<1>3. ASSUME NEW s, SetSlot(s), s.state \notin InFlight, Sync, Shape',
             op'.at \notin {"place", "submit"}, UNCHANGED watcher, halted => halted',
             op'.who = "halt" <=> op.who = "halt"
      PROVE Discipline'
  <2>1. \A side \in Sides : slot'[side].state \notin InFlight
    BY <1>0, <1>3, SetSlotAt DEF InFlightSlots
  <2>2. InFlightSlots'
    BY <1>3, <2>1 DEF InFlightSlots
  <2>3. Counted'
    BY <1>3 DEF Counted, Sync
  <2>4. Halting'
    BY <1>0, <1>3 DEF Halting
  <2> QED BY <1>3, <2>2, <2>3, <2>4 DEF Discipline
<1>4. CASE EmitQuote \/ TakeQuote \/ ApplyFill \/ ExchangeFill \/ Trip \/ Stop
  <2>1. UNCHANGED <<op, slot, openCount, watcher>> /\ (halted => halted')
    BY <1>4 DEF EmitQuote, TakeQuote, ApplyFill, ExchangeFill, Trip, Stop, omVars
  <2> QED BY <1>1, <2>1
<1>5. CASE BeginRequote
  <2>1. op'.at = "side" /\ op'.who = "quote" /\ op.who = "none"
    BY <1>5, EnterMoves DEF BeginRequote, Unlocked
  <2>2. UNCHANGED <<slot, openCount, watcher>> /\ (halted => halted')
    BY <1>5 DEF BeginRequote
  <2>3. Shape' /\ op.at # "submit"
    BY <1>0, <2>1 DEF Shape
  <2> QED BY <1>2, <2>1, <2>2, <2>3
<1>6. CASE Requote
  <2>1. UNCHANGED <<slot, openCount, watcher>> /\ (halted => halted')
        /\ op.who = "quote" /\ op.at = "side"
    BY <1>6 DEF Requote
  <2>2. CASE AfterSide
    BY <1>0, <1>2, <2>1, <2>2, AfterSideMoves
  <2>3. CASE Goto("cancel")
    <3>1. op'.at = "cancel" /\ op'.who = "quote"
      BY <1>0, <2>1, <2>3, GotoMoves
    <3>2. Shape'
      BY <3>1 DEF Shape
    <3> QED BY <1>2, <2>1, <3>1, <3>2
  <2>4. CASE ~Working(slot[op.side]) /\ Goto("place")
    <3>1. op'.at = "place" /\ op'.who = "quote" /\ op'.side = op.side
      BY <1>0, <2>1, <2>4, GotoMoves
    <3>2. Shape' /\ Counted' /\ Halting'
      BY <1>0, <2>1, <3>1 DEF Shape, Counted, Halting
    <3>3. InFlightSlots'
      BY <1>0, <2>1, <2>4, <3>1 DEF InFlightSlots
    <3> QED BY <3>2, <3>3 DEF Discipline
  <2> QED BY <1>6, <2>2, <2>3, <2>4 DEF Requote
<1>7. CASE PlaceNew
  <2>1. /\ op.at = "place" /\ op.who = "quote" /\ watcher' = watcher /\ halted' = halted
    BY <1>0, <1>7 DEF PlaceNew, Shape
  <2>2. Fresh.state = "SUBMITTED" /\ Fresh.active
    BY TransitionTable DEF Fresh
  <2>3. CASE SetSlot(Moved(Fresh, "REJECTED")) /\ Sync /\ AfterSide
    <3>1. Moved(Fresh, "REJECTED").state = "REJECTED"
      BY <2>2, TransitionTable DEF Moved, Fresh
    <3>2. Moved(Fresh, "REJECTED").state \notin InFlight
      BY <3>1 DEF InFlight
    <3>3. Shape' /\ op'.at \notin {"place", "submit"} /\ (op'.who = "halt" <=> op.who = "halt")
      BY <1>0, <2>1, <2>3, AfterSideMoves
    <3> QED BY <1>3, <2>1, <2>3, <3>2, <3>3
  <2>4. CASE ~BreakerBlocks /\ SetSlot(Fresh) /\ Goto("submit")
    <3>1. op'.at = "submit" /\ op'.who = "quote" /\ op'.side = op.side
      BY <1>0, <2>1, <2>4, GotoMoves
    <3>2. slot'[op.side] = Fresh
          /\ \A side \in Sides : side # op.side => slot'[side].state \notin InFlight
      BY <1>0, <2>1, <2>4, SetSlotAt DEF InFlightSlots
    <3>3. InFlightSlots'
      BY <2>2, <3>1, <3>2 DEF InFlightSlots
    <3>4. Shape' /\ Counted'
      BY <3>1 DEF Shape, Counted
    <3>5. Halting'
      BY <1>0, <2>1, <2>4, <3>1 DEF Halting, BreakerBlocks
    <3> QED BY <3>3, <3>4, <3>5 DEF Discipline
  <2> QED BY <1>7, <2>3, <2>4 DEF PlaceNew
<1>8. CASE Submit
  <2>1. /\ op.at = "submit" /\ op.who = "quote" /\ Sync /\ AfterSide
        /\ watcher' = watcher /\ halted' = halted
    BY <1>0, <1>8 DEF Submit, Shape
  <2>2. slot[op.side].state = "SUBMITTED"
    BY <1>0, <2>1 DEF InFlightSlots
  <2>3. Moved(slot[op.side], "REJECTED").state \notin InFlight
        /\ Moved(slot[op.side], "ACKNOWLEDGED").state \notin InFlight
    <3>1. Moved(slot[op.side], "REJECTED").state = "REJECTED"
      BY <1>0, <2>2, TransitionTable DEF Moved, Slots
    <3>2. Moved(slot[op.side], "ACKNOWLEDGED").state = "ACKNOWLEDGED"
      BY <1>0, <2>2, TransitionTable DEF Moved, Slots
    <3> QED BY <3>1, <3>2 DEF InFlight
  <2>4. Shape' /\ op'.at \notin {"place", "submit"} /\ (op'.who = "halt" <=> op.who = "halt")
    BY <1>0, <2>1, AfterSideMoves
  <2>5. SetSlot(Moved(slot[op.side], "REJECTED")) \/ SetSlot(Moved(slot[op.side], "ACKNOWLEDGED"))
    BY <1>8 DEF Submit
  <2> QED BY <1>3, <2>1, <2>3, <2>4, <2>5
<1>9. CASE CancelOk
  <2>1. /\ op.at = "cancel" /\ op.who \in {"quote", "halt", "shutdown"} /\ Sync /\ AfterCancel
        /\ SetSlot(Retired(slot[op.side], "CANCELED"))
        /\ watcher' = watcher /\ halted' = halted
    BY <1>0, <1>9 DEF CancelOk, Shape
  <2>2. slot[op.side].state \in OrderStates \ InFlight
    BY <1>0, <2>1 DEF InFlightSlots, Slots
  <2>3. Retired(slot[op.side], "CANCELED").state \notin InFlight
        /\ ~Retired(slot[op.side], "CANCELED").active
    <3>1. Transition(slot[op.side].state, "CANCELED") \notin InFlight
      BY <2>2, TransitionTable
    <3>2. Retired(slot[op.side], "CANCELED").state = Transition(slot[op.side].state, "CANCELED")
          /\ Retired(slot[op.side], "CANCELED").active = FALSE
      BY <1>0 DEF Retired, Slots
    <3> QED BY <3>1, <3>2
  <2>4. CASE op.who = "quote"
    <3>1. Goto("place")
      BY <2>1, <2>4 DEF AfterCancel, AfterSide, Goto, Leave
    <3>2. op'.at = "place" /\ op'.who = "quote" /\ op'.side = op.side
      BY <1>0, <2>4, <3>1, GotoMoves
    <3>3. \A side \in Sides : slot'[side].state \notin InFlight
      BY <1>0, <2>1, <2>3, SetSlotAt DEF InFlightSlots
    <3>4. ~Working(slot'[op.side])
      BY <2>1, <2>3, SetSlotAt DEF Working
    <3>5. Shape' /\ InFlightSlots'
      BY <3>2, <3>3, <3>4 DEF Shape, InFlightSlots
    <3>6. Counted' /\ Halting'
      BY <1>0, <2>1, <2>4, <3>2 DEF Counted, Sync, Halting
    <3> QED BY <3>5, <3>6 DEF Discipline
  <2>5. CASE op.who # "quote"
    <3>1. AfterSide
      BY <2>1, <2>5 DEF AfterCancel, AfterSide, Goto, Leave
    <3>2. Shape' /\ op'.at \notin {"place", "submit"} /\ op'.who = op.who
      BY <1>0, <2>1, <2>5, <3>1, AfterSideMoves
    <3> QED BY <1>3, <2>1, <2>3, <3>2
  <2> QED BY <2>4, <2>5
<1>10. CASE CancelRetry
  <2>1. /\ op' = [op EXCEPT !.tries = op.tries + 1] /\ op.at = "cancel"
        /\ UNCHANGED <<slot, openCount, watcher, halted>>
    BY <1>10 DEF CancelRetry
  <2>2. op'.at = op.at /\ op'.who = op.who
    BY <1>0, <2>1 DEF Ops
  <2>3. Shape'
    BY <1>0, <2>2 DEF Shape
  <2> QED BY <1>2, <2>1, <2>2, <2>3
<1>11. CASE CancelGiveUp
  <2>1. /\ op.at = "cancel" /\ op.who \in {"quote", "halt", "shutdown"} /\ Sync /\ AfterSide
        /\ SetSlot(Abandoned(slot[op.side]))
        /\ UNCHANGED watcher /\ (halted => halted')
    BY <1>0, <1>11 DEF CancelGiveUp, Escalate, Shape
  <2>2. Abandoned(slot[op.side]).state \notin InFlight
    <3>1. Abandoned(slot[op.side]).state = slot[op.side].state
      BY <1>0 DEF Abandoned, Slots
    <3> QED BY <1>0, <2>1, <3>1 DEF InFlightSlots
  <2>3. Shape' /\ op'.at \notin {"place", "submit"} /\ (op'.who = "halt" <=> op.who = "halt")
    BY <1>0, <2>1, AfterSideMoves
  <2> QED BY <1>3, <2>1, <2>2, <2>3
<1>12. CASE ClaimHalt
  <2>1. UNCHANGED <<op, slot, openCount, halted>> /\ watcher = "watching"
        /\ watcher' = "claimed" /\ halted
    BY <1>12 DEF ClaimHalt, HaltPending
  <2> QED BY <1>0, <2>1 DEF Discipline, Shape, InFlightSlots, Counted, Halting
<1>13. CASE BeginHalt
  <2>1. op'.at = "side" /\ op'.who = "halt" /\ op.who = "none" /\ watcher = "claimed"
    BY <1>13, EnterMoves DEF BeginHalt, Unlocked
  <2>2. UNCHANGED <<slot, openCount, halted>> /\ watcher' = "handling"
    BY <1>13 DEF BeginHalt
  <2>3. \A side \in Sides : slot[side].state \notin InFlight
    BY <1>0, <2>1 DEF Shape, InFlightSlots
  <2>4. Shape' /\ InFlightSlots' /\ Counted' /\ Halting'
    BY <1>0, <2>1, <2>2, <2>3 DEF Shape, InFlightSlots, Counted, Halting
  <2> QED BY <2>4 DEF Discipline
<1>14. CASE BeginShutdown
  <2>1. op'.at = "side" /\ op'.who = "shutdown" /\ op.who = "none"
    BY <1>14, EnterMoves DEF BeginShutdown, Unlocked
  <2>2. UNCHANGED <<slot, openCount, watcher, halted>>
    BY <1>14 DEF BeginShutdown
  <2>3. Shape' /\ op.at # "submit"
    BY <1>0, <2>1 DEF Shape
  <2> QED BY <1>2, <2>1, <2>2, <2>3
<1>15. CASE CancelOrSkip
  <2>1. UNCHANGED <<slot, openCount, watcher, halted>> /\ op.who \in {"halt", "shutdown"}
        /\ op.at = "side"
    BY <1>15 DEF CancelOrSkip
  <2>2. CASE AfterSide
    BY <1>0, <1>2, <2>1, <2>2, AfterSideMoves
  <2>3. CASE Goto("cancel")
    <3>1. op'.at = "cancel" /\ op'.who = op.who
      BY <1>0, <2>1, <2>3, GotoMoves
    <3>2. Shape'
      BY <2>1, <3>1 DEF Shape
    <3> QED BY <1>2, <2>1, <3>1, <3>2
  <2> QED BY <1>15, <2>2, <2>3 DEF CancelOrSkip
<1>16. CASE SizeFlatten
  <2>1. UNCHANGED <<slot, openCount, watcher, halted>> /\ op.who \in {"halt", "shutdown"}
        /\ op.at = "query"
    BY <1>16 DEF SizeFlatten
  <2>2. \E n : op' = [op EXCEPT !.at = "flatten", !.est = n]
    BY <1>16 DEF SizeFlatten
  <2>3. op'.at = "flatten" /\ op'.who = op.who
    BY <1>0, <2>2 DEF Ops
  <2>4. Shape'
    BY <2>1, <2>3 DEF Shape
  <2> QED BY <1>2, <2>1, <2>3, <2>4
<1>17. CASE FlattenAndLeave
  <2>1. /\ op.at = "flatten" /\ UNCHANGED <<slot, openCount, halted>>
        /\ op'.at = "none" /\ op'.who = "none"
        /\ watcher' = IF op.who = "halt" THEN "done" ELSE watcher
    BY <1>17, LeaveMoves DEF FlattenAndLeave
  <2>2. \A side \in Sides : slot[side].state \notin InFlight
    BY <1>0, <2>1 DEF InFlightSlots
  <2>3. Shape' /\ InFlightSlots' /\ Counted'
    BY <1>0, <2>1, <2>2 DEF Shape, InFlightSlots, Counted
  <2>4. Halting'
    <3>1. CASE op.who = "halt"
      <4>1. halted
        BY <1>0, <1>17, <3>1 DEF Halting
      <4> QED BY <2>1, <3>1, <4>1 DEF Halting
    <3>2. CASE op.who # "halt"
      BY <1>0, <2>1, <3>2 DEF Halting
    <3> QED BY <3>1, <3>2
  <2> QED BY <2>3, <2>4 DEF Discipline
<1>18. CASE ReconcileQuery
  <2>1. /\ \/ op' = [Idle EXCEPT !.who = "reconcile", !.at = "compare", !.est = position]
           \/ op' = [Idle EXCEPT !.who = "reconcile", !.at = "compare"]
        /\ UNCHANGED <<slot, openCount, watcher, halted>> /\ op.who = "none"
    BY <1>18 DEF ReconcileQuery, Unlocked
  <2>2. op'.at = "compare" /\ op'.who = "reconcile"
    BY <2>1 DEF Idle
  <2>3. Shape' /\ op.at # "submit"
    BY <1>0, <2>1, <2>2 DEF Shape
  <2> QED BY <1>2, <2>1, <2>2, <2>3
<1>19. CASE ReconcileCompare
  <2>1. /\ op.at = "compare" /\ UNCHANGED <<slot, openCount, watcher>> /\ (halted => halted')
        /\ op'.at = "none" /\ op'.who = "none"
    BY <1>19, LeaveMoves DEF ReconcileCompare
  <2>2. Shape'
    BY <2>1 DEF Shape
  <2>3. op.who # "halt"
    BY <1>0, <2>1 DEF Shape
  <2> QED BY <1>2, <2>1, <2>2, <2>3
<1>20. CASE InjectFill
  <2>1. /\ op.who = "none" /\ UNCHANGED <<op, watcher, halted>>
        /\ slot' = [side \in Sides |-> Book(slot[side], Head(feed))]
        /\ openCount' = IF \E side \in Sides : slot[side].active /\ ~slot'[side].active
                        THEN OpenOrders(slot') ELSE openCount
    BY <1>20 DEF InjectFill, Unlocked
  <2>2. op.at = "none"
    BY <1>0, <2>1 DEF Shape
  <2>3. Head(feed) \in Events
    BY <1>20 DEF InjectFill, TypeOK
  <2>4. \A side \in Sides : slot[side] \in Slots /\ slot[side].state \notin InFlight
    BY <1>0, <2>2 DEF InFlightSlots, TypeOK
  <2>5. \A side \in Sides :
          /\ slot'[side].state \notin InFlight
          /\ ~(slot[side].active /\ ~slot'[side].active)
               => Working(slot'[side]) = Working(slot[side])
    BY <2>1, <2>3, <2>4, BookFacts
  <2>6. Counted'
    <3>1. CASE \E side \in Sides : slot[side].active /\ ~slot'[side].active
      BY <2>1, <3>1 DEF Counted
    <3>2. CASE ~\E side \in Sides : slot[side].active /\ ~slot'[side].active
      <4>1. OpenOrders(slot') = OpenOrders(slot)
        BY <2>5, <3>2, SameCount
      <4> QED BY <1>0, <2>1, <2>2, <3>2, <4>1 DEF Counted
    <3> QED BY <3>1, <3>2
  <2>7. Shape' /\ InFlightSlots' /\ Halting'
    BY <1>0, <2>1, <2>2, <2>5 DEF Shape, InFlightSlots, Halting
  <2> QED BY <2>6, <2>7 DEF Discipline
<1>21. CASE UNCHANGED vars
  BY <1>1, <1>21 DEF vars, omVars
<1> QED
  BY <1>4, <1>5, <1>6, <1>7, <1>8, <1>9, <1>10, <1>11, <1>12, <1>13, <1>14, <1>15, <1>16,
     <1>17, <1>18, <1>19, <1>20, <1>21
  DEF Next, Critical

LEMMA DisciplineHolds == Spec => [](TypeOK /\ Discipline)
  BY InitTypeOK, InitDiscipline, TypeOKStep, DisciplineStep, PTL DEF Spec

-----------------------------------------------------------------------------
(* Theorems *)

(* Whoever gets mu_ finds no order between submission and answer, and the   *)
(* RiskManager's open-order count equal to the number of working slots.     *)
THEOREM Settled == Spec => []SettledWhenUnlocked
<1>1. TypeOK /\ Discipline => SettledWhenUnlocked
  BY DEF Discipline, Shape, InFlightSlots, Counted, SettledWhenUnlocked, Unlocked, OpenOrders
<1> QED BY <1>1, DisciplineHolds, PTL

(* After on_halt has run, a step takes orders off the book only. *)
Quiet == watcher = "done" => Cids(live') \subseteq Cids(live)

LEMMA QuietStep == TypeOK /\ Discipline /\ [Next]_vars => Quiet
<1> SUFFICES ASSUME TypeOK, Discipline, [Next]_vars, watcher = "done"
             PROVE Cids(live') \subseteq Cids(live)
  BY DEF Quiet
<1>1. op.at # "submit"
  BY DEF Discipline, Halting
<1>2. ASSUME live' \subseteq live PROVE Cids(live') \subseteq Cids(live)
  BY <1>2 DEF Cids
<1>3. CASE live' \in {live, Without(slot[op.side].cid)}
  BY <1>2, <1>3 DEF Without
<1>4. CASE ExchangeFill
  <2>0. PICK o \in live : \E q \in 1..o.rem : Trade(o, q)
    BY <1>4 DEF ExchangeFill
  <2>1. PICK q \in 1..o.rem : Trade(o, q)
    BY <2>0
  <2>2. o \in Orders
    BY <2>1 DEF TypeOK
  <2>3. [o EXCEPT !.rem = o.rem - q].cid = o.cid
    BY <2>2 DEF Orders
  <2>4. \A p \in live' : p \in live \/ p = [o EXCEPT !.rem = o.rem - q]
    BY <2>1 DEF Trade
  <2> QED BY <2>1, <2>3, <2>4 DEF Cids
<1>5. ~ExchangeFill => live' \in {live, Without(slot[op.side].cid)}
  <2> SUFFICES ASSUME ~ExchangeFill PROVE live' \in {live, Without(slot[op.side].cid)}
    OBVIOUS
  <2>1. CASE CancelOk \/ CancelRetry \/ CancelGiveUp
    BY <2>1 DEF CancelOk, CancelRetry, CancelGiveUp
  <2>2. CASE FlattenAndLeave
    BY <2>2 DEF FlattenAndLeave, Flatten, exchangeVars
  <2>3. CASE Requote \/ PlaceNew \/ CancelOrSkip \/ SizeFlatten \/ ReconcileCompare
    BY <2>3 DEF Requote, PlaceNew, CancelOrSkip, SizeFlatten, ReconcileCompare, exchangeVars
  <2>4. CASE EmitQuote \/ TakeQuote \/ BeginRequote \/ ClaimHalt \/ BeginHalt \/ BeginShutdown
    BY <2>4 DEF EmitQuote, TakeQuote, BeginRequote, ClaimHalt, BeginHalt, BeginShutdown,
                exchangeVars
  <2>5. CASE ReconcileQuery \/ InjectFill \/ ApplyFill \/ Trip \/ Stop \/ UNCHANGED vars
    BY <2>5 DEF ReconcileQuery, InjectFill, ApplyFill, Trip, Stop, vars, exchangeVars
  <2> QED BY <1>1, <2>1, <2>2, <2>3, <2>4, <2>5 DEF Next, Critical, Submit
<1> QED BY <1>3, <1>4, <1>5

(* After on_halt no step puts a new order on the exchange's book. *)
THEOREM NoQuoteAfterHalt == Spec => QuietAfterHalt
<1>1. TypeOK /\ Discipline /\ [Next]_vars => [Quiet]_vars
  BY QuietStep
<1>2. QuietAfterHalt <=> [][Quiet]_vars
  BY DEF QuietAfterHalt, Quiet
<1> QED BY <1>1, <1>2, DisciplineHolds, PTL DEF Spec

-----------------------------------------------------------------------------
(* How long mu_ is held *)

(* What a critical section still has before it, at most: on each side a     *)
(* look at the slot, MaxCancelAttempts cancels, the breaker check and the   *)
(* submission; then the sizing of the flatten and the flatten.              *)
SideSteps == MaxCancelAttempts + 3
OnSide(o) ==
  CASE o.at = "side"   -> SideSteps
    [] o.at = "cancel" -> MaxCancelAttempts - o.tries + 2
    [] o.at = "place"  -> 2
    [] o.at = "submit" -> 1
    [] OTHER           -> 0
Behind(o) ==
  CASE o.at = "none"                   -> 0
    [] o.at \in {"flatten", "compare"} -> 1
    [] o.at = "query"                  -> 2
    [] OTHER -> IF o.side = "BID" THEN SideSteps + 2 ELSE 2
StepsLeft(o) == OnSide(o) + Behind(o)
LongestSection == 2 * SideSteps + 2

(* cancel_slot has an attempt left while it is in its loop. *)
Attempting == op.tries < MaxCancelAttempts

(* Where the work on a side may lead. *)
SidePlaces == {"side", "cancel", "place", "submit"}

(* A step of the critical section brings its end nearer. *)
Nearer ==
  /\ Critical => StepsLeft(op') < StepsLeft(op)
  /\ ~Critical /\ ~Unlocked => op' = op

(* mu_ is held for LongestSection steps at most, whatever the REST calls    *)
(* answer, and no step of another thread moves its holder.                  *)
SectionsEnd == [](StepsLeft(op) \in 0..LongestSection) /\ [][Nearer]_vars

LEMMA StepsLeftType ==
  ASSUME op \in Ops, Attempting
  PROVE  StepsLeft(op) \in 0..LongestSection
<1>1. /\ MaxCancelAttempts \in Nat \ {0} /\ op.tries \in Nat /\ op.tries < MaxCancelAttempts
      /\ op.side \in {"BID", "ASK"}
      /\ op.at \in {"none", "side", "cancel", "place", "submit", "query", "flatten", "compare"}
  BY OrderManagerAssumption DEF OrderManagerAssumption, Ops, Sides, Attempting
<1>2. CASE op.at = "side"
  BY <1>1, <1>2 DEF StepsLeft, OnSide, Behind, LongestSection, SideSteps
<1>3. CASE op.at = "cancel"
  BY <1>1, <1>3 DEF StepsLeft, OnSide, Behind, LongestSection, SideSteps
<1>4. CASE op.at \in {"place", "submit"}
  BY <1>1, <1>4 DEF StepsLeft, OnSide, Behind, LongestSection, SideSteps
<1>5. CASE op.at \in {"none", "query", "flatten", "compare"}
  BY <1>1, <1>5 DEF StepsLeft, OnSide, Behind, LongestSection, SideSteps
<1> QED BY <1>1, <1>2, <1>3, <1>4, <1>5

LEMMA AfterSideNearer ==
  ASSUME op \in Ops, Attempting, op.at \in SidePlaces, AfterSide
  PROVE  StepsLeft(op') < StepsLeft(op) /\ op'.tries = 0
<1>1. /\ MaxCancelAttempts \in Nat \ {0} /\ op.tries \in Nat /\ op.tries < MaxCancelAttempts
      /\ op.side \in {"BID", "ASK"}
  BY OrderManagerAssumption DEF OrderManagerAssumption, Ops, Sides, Attempting
<1>2. OnSide(op) \in Nat \ {0} /\ OnSide(op) >= 1
  BY <1>1 DEF SidePlaces, OnSide, SideSteps
<1>3. Behind(op) = IF op.side = "BID" THEN SideSteps + 2 ELSE 2
  BY DEF SidePlaces, Behind
<1>4. CASE op.side = "BID"
  <2>1. op' = [op EXCEPT !.at = "side", !.side = "ASK", !.tries = 0]
    BY <1>4 DEF AfterSide
  <2>2. op'.at = "side" /\ op'.side = "ASK" /\ op'.tries = 0
    BY <2>1 DEF Ops
  <2>3. OnSide(op') = SideSteps /\ Behind(op') = 2
    BY <2>2 DEF OnSide, Behind
  <2> QED BY <1>1, <1>2, <1>3, <1>4, <2>2, <2>3 DEF StepsLeft, SideSteps
<1>5. CASE op.side # "BID"
  <2>1. CASE op' = Idle
    <3>1. op'.at = "none" /\ op'.tries = 0
      BY <2>1 DEF Idle
    <3>2. OnSide(op') = 0 /\ Behind(op') = 0
      BY <3>1 DEF OnSide, Behind
    <3> QED BY <1>2, <1>3, <1>5, <3>1, <3>2 DEF StepsLeft
  <2>2. CASE op' = [op EXCEPT !.at = "query", !.tries = 0]
    <3>1. op'.at = "query" /\ op'.tries = 0
      BY <2>2 DEF Ops
    <3>2. OnSide(op') = 0 /\ Behind(op') = 2
      BY <3>1 DEF OnSide, Behind
    <3> QED BY <1>2, <1>3, <1>5, <3>1, <3>2 DEF StepsLeft
  <2> QED BY <1>5, <2>1, <2>2 DEF AfterSide, Goto, Leave
<1> QED BY <1>4, <1>5

(* On to a later place of the work on the same side. *)
LEMMA GotoNearer ==
  ASSUME op \in Ops, Attempting, NEW at, Goto(at),
         \/ op.at = "side" /\ at \in {"cancel", "place"}
         \/ op.at = "cancel" /\ at = "place"
         \/ op.at = "place" /\ at = "submit"
  PROVE  StepsLeft(op') < StepsLeft(op) /\ op'.tries = 0
<1>1. /\ MaxCancelAttempts \in Nat \ {0} /\ op.tries \in Nat /\ op.tries < MaxCancelAttempts
  BY OrderManagerAssumption DEF OrderManagerAssumption, Ops, Attempting
<1>2. op'.at = at /\ op'.side = op.side /\ op'.tries = 0
  BY DEF Goto, Ops
<1>3. Behind(op') = Behind(op) /\ Behind(op) \in Int
  BY <1>1, <1>2 DEF Behind, SideSteps
<1>4. OnSide(op') < OnSide(op) /\ OnSide(op) \in Int /\ OnSide(op') \in Int
  BY <1>1, <1>2 DEF OnSide, SideSteps
<1> QED BY <1>2, <1>3, <1>4 DEF StepsLeft

LEMMA CriticalNearer ==
  ASSUME TypeOK, Shape, Attempting, Critical
  PROVE  StepsLeft(op') < StepsLeft(op) /\ Attempting'
<1>0. op \in Ops /\ MaxCancelAttempts \in Nat \ {0} /\ op.tries \in Nat
  BY OrderManagerAssumption DEF OrderManagerAssumption, TypeOK, Ops
<1> SUFFICES StepsLeft(op') < StepsLeft(op) /\ (op'.tries = 0 \/ Attempting')
  BY <1>0 DEF Attempting
<1>1. CASE Requote
  <2>1. op.at = "side" /\ (AfterSide \/ Goto("cancel") \/ Goto("place"))
    BY <1>1 DEF Requote
  <2> QED BY <1>0, <2>1, AfterSideNearer, GotoNearer DEF SidePlaces
<1>2. CASE PlaceNew
  <2>1. op.at = "place" /\ (AfterSide \/ Goto("submit"))
    BY <1>2 DEF PlaceNew
  <2> QED BY <1>0, <2>1, AfterSideNearer, GotoNearer DEF SidePlaces
<1>3. CASE Submit \/ CancelGiveUp
  <2>1. op.at \in {"submit", "cancel"} /\ AfterSide
    BY <1>3 DEF Submit, CancelGiveUp
  <2> QED BY <1>0, <2>1, AfterSideNearer DEF SidePlaces
<1>4. CASE CancelOk
  <2>1. op.at = "cancel" /\ (AfterSide \/ Goto("place"))
    BY <1>4 DEF CancelOk, AfterCancel
  <2> QED BY <1>0, <2>1, AfterSideNearer, GotoNearer DEF SidePlaces
<1>5. CASE CancelRetry
  <2>1. op.at = "cancel" /\ op.tries + 1 < MaxCancelAttempts
        /\ op' = [op EXCEPT !.tries = op.tries + 1]
    BY <1>5 DEF CancelRetry
  <2>2. op'.at = "cancel" /\ op'.side = op.side /\ op'.tries = op.tries + 1
    BY <1>0, <2>1 DEF Ops
  <2>3. OnSide(op) = MaxCancelAttempts - op.tries + 2
        /\ OnSide(op') = MaxCancelAttempts - (op.tries + 1) + 2
    BY <2>1, <2>2 DEF OnSide
  <2>4. Behind(op') = Behind(op) /\ Behind(op) \in Int
    BY <1>0, <2>1, <2>2 DEF Behind, SideSteps
  <2> QED BY <1>0, <2>1, <2>2, <2>3, <2>4 DEF StepsLeft, Attempting
<1>6. CASE CancelOrSkip
  <2>1. op.at = "side" /\ (AfterSide \/ Goto("cancel"))
    BY <1>6 DEF CancelOrSkip
  <2> QED BY <1>0, <2>1, AfterSideNearer, GotoNearer DEF SidePlaces
<1>7. CASE SizeFlatten
  <2>1. op.at = "query" /\ op'.at = "flatten" /\ op'.tries = op.tries
    BY <1>0, <1>7 DEF SizeFlatten, Ops
  <2>2. StepsLeft(op) = 2 /\ StepsLeft(op') = 1
    BY <2>1 DEF StepsLeft, OnSide, Behind
  <2> QED BY <2>1, <2>2 DEF Attempting
<1>8. CASE FlattenAndLeave \/ ReconcileCompare
  <2>1. op.at \in {"flatten", "compare"} /\ op' = Idle
    BY <1>8 DEF FlattenAndLeave, ReconcileCompare, Leave
  <2>2. StepsLeft(op) = 1 /\ StepsLeft(op') = 0 /\ op'.tries = 0
    BY <2>1 DEF StepsLeft, OnSide, Behind, Idle
  <2> QED BY <2>2
<1> QED BY <1>1, <1>2, <1>3, <1>4, <1>5, <1>6, <1>7, <1>8 DEF Critical

(* Other steps leave op alone, but for those that take a free mu_. *)
LEMMA OthersWait ==
  ASSUME [Next]_vars, ~Critical
  PROVE  op' = op \/ (Unlocked /\ op'.tries = 0)
<1>1. CASE BeginRequote \/ BeginHalt \/ BeginShutdown \/ ReconcileQuery
  BY <1>1 DEF BeginRequote, BeginHalt, BeginShutdown, ReconcileQuery, Enter, Idle
<1>2. CASE \/ EmitQuote \/ TakeQuote \/ ClaimHalt \/ InjectFill \/ ApplyFill
           \/ ExchangeFill \/ Trip \/ Stop \/ UNCHANGED vars
  BY <1>2 DEF EmitQuote, TakeQuote, ClaimHalt, InjectFill, ApplyFill, ExchangeFill, Trip,
              Stop, vars, omVars
<1> QED BY <1>1, <1>2 DEF Next

LEMMA SectionStep ==
  TypeOK /\ Discipline /\ Attempting /\ [Next]_vars => Attempting' /\ Nearer
<1> SUFFICES ASSUME TypeOK, Discipline, Attempting, [Next]_vars
             PROVE  Attempting' /\ Nearer
  OBVIOUS
<1>1. CASE Critical
  BY <1>1, CriticalNearer DEF Discipline, Nearer
<1>2. CASE ~Critical
  <2>1. Attempting'
    BY <1>2, OthersWait, OrderManagerAssumption DEF OrderManagerAssumption, Attempting
  <2> QED BY <1>2, <2>1, OthersWait DEF Nearer
<1> QED BY <1>1, <1>2

(* A critical section ends after a bounded number of its own steps, which   *)
(* no other thread can undo: with WF_vars(Critical), the requests have      *)
(* timeouts, mu_ always comes free.                                         *)
THEOREM SectionsAlwaysEnd == Spec => SectionsEnd
<1>1. Init => Attempting
  BY OrderManagerAssumption DEF OrderManagerAssumption, Init, OMInit, Idle, Attempting
<1>2. TypeOK /\ Attempting => StepsLeft(op) \in 0..LongestSection
  BY StepsLeftType DEF TypeOK
<1>3. TypeOK /\ Discipline /\ Attempting /\ [Next]_vars => Attempting' /\ [Nearer]_vars
  BY SectionStep
<1> QED BY <1>1, <1>2, <1>3, InitTypeOK, InitDiscipline, TypeOKStep, DisciplineStep, PTL
        DEF Spec, SectionsEnd

-----------------------------------------------------------------------------
(* Sums *)

(* Induction over the natural numbers, for the set of those that have a     *)
(* property.                                                                *)
LEMMA Induction ==
  ASSUME NEW S, 0 \in S, \A n \in Nat : n \in S => n + 1 \in S
  PROVE  Nat \subseteq S
<1> SUFFICES ASSUME Nat \ S # {} PROVE FALSE
  OBVIOUS
<1>1. Nat \ S \subseteq Nat /\ IsWellFoundedOn(OpToRel(<, Nat), Nat)
  BY NatLessThanWellFounded
<1>2. PICK x \in Nat \ S : \A y \in Nat \ S : ~(<<y, x>> \in OpToRel(<, Nat))
  BY <1>1, WFMin
<1>3. x - 1 \in Nat /\ (x - 1) + 1 = x
  OBVIOUS
<1>4. x - 1 \in S
  <2>1. <<x - 1, x>> \in OpToRel(<, Nat)
    BY <1>3 DEF OpToRel
  <2> QED BY <1>2, <1>3, <2>1
<1> QED BY <1>3, <1>4

(* The running totals of s, which is what Sum computes. *)
Totals(f, s) == f = [i \in 0..Len(s) |-> IF i = 0 THEN 0 ELSE f[i - 1] + s[i]]

LEMMA TotalsExist == \A s \in Seq(Int) : \E f \in [0..Len(s) -> Int] : Totals(f, s)
<1> DEFINE Has(n) == \A s \in Seq(Int) : Len(s) = n => \E f \in [0..n -> Int] : Totals(f, s)
           S == {n \in Nat : Has(n)}
<1>1. 0 \in S
  <2>1. ASSUME NEW s \in Seq(Int), Len(s) = 0
        PROVE  \E f \in [0..0 -> Int] : Totals(f, s)
    <3>1. [i \in 0..0 |-> 0] \in [0..0 -> Int] /\ Totals([i \in 0..0 |-> 0], s)
      BY <2>1 DEF Totals
    <3> QED BY <3>1
  <2> QED BY <2>1
<1>2. ASSUME NEW n \in Nat, n \in S PROVE n + 1 \in S
  <2>1. ASSUME NEW s \in Seq(Int), Len(s) = n + 1
        PROVE  \E f \in [0..n + 1 -> Int] : Totals(f, s)
    <3> DEFINE t == [i \in 1..n |-> s[i]]
    <3>1. t \in Seq(Int) /\ Len(t) = n /\ \A i \in 1..n : t[i] = s[i]
      BY <2>1
    <3> HIDE DEF t
    <3>2. PICK f \in [0..n -> Int] : Totals(f, t)
      BY <1>2, <3>1
    <3> DEFINE g == [i \in 0..n + 1 |-> IF i = n + 1 THEN f[n] + s[n + 1] ELSE f[i]]
    <3>3. g \in [0..n + 1 -> Int]
      BY <2>1, <3>2
    <3>4. ASSUME NEW i \in 0..n + 1
          PROVE  g[i] = IF i = 0 THEN 0 ELSE g[i - 1] + s[i]
      <4>1. \A k \in 0..n : f[k] = IF k = 0 THEN 0 ELSE f[k - 1] + t[k]
        BY <3>1, <3>2 DEF Totals
      <4>2. CASE i = n + 1
        BY <4>2
      <4>3. CASE i \in 1..n
        BY <3>1, <4>1, <4>3
      <4>4. CASE i = 0
        BY <4>1, <4>4
      <4> QED BY <4>2, <4>3, <4>4
    <3>5. Totals(g, s)
      BY <2>1, <3>4 DEF Totals
    <3> QED BY <3>3, <3>5
  <2> QED BY <2>1
<1>3. Nat \subseteq S
  <2> HIDE DEF S
  <2> QED BY <1>1, <1>2, Induction
<1> QED BY <1>3, LenProperties

(* Totals that agree with another sequence's, shifted by a constant. *)
LEMMA SumIs == ASSUME NEW s \in Seq(Int)
               PROVE \E f \in [0..Len(s) -> Int] : Totals(f, s) /\ Sum(s) = f[Len(s)]
<1> DEFINE F == CHOOSE f : Totals(f, s)
<1>1. PICK f \in [0..Len(s) -> Int] : Totals(f, s)
  BY TotalsExist
<1>2. Totals(F, s)
  BY <1>1
<1>3. Sum(s) = F[Len(s)]
  BY DEF Sum, Totals
<1>4. \A i \in 0..Len(s) : F[i] = IF i = 0 THEN 0 ELSE F[i - 1] + s[i]
  <2> HIDE DEF F
  <2> QED BY <1>2 DEF Totals
<1>5. F \in [0..Len(s) -> Int]
  <2> DEFINE S == {n \in Nat : n <= Len(s) => F[n] \in Int}
  <2>1. 0 \in S
    <3> HIDE DEF F
    <3> QED BY <1>4
  <2>2. \A n \in Nat : n \in S => n + 1 \in S
    <3> HIDE DEF F
    <3> QED BY <1>4
  <2>3. Nat \subseteq S
    <3> HIDE DEF S
    <3> QED BY <2>1, <2>2, Induction
  <2>4. F = [i \in 0..Len(s) |-> IF i = 0 THEN 0 ELSE F[i - 1] + s[i]]
    <3> HIDE DEF F
    <3> QED BY <1>2 DEF Totals
  <2> HIDE DEF F
  <2> QED BY <2>3, <2>4
<1> HIDE DEF F
<1> QED BY <1>2, <1>3, <1>5

LEMMA TotalsAdd ==
  ASSUME NEW s \in Seq(Int), NEW f, Totals(f, s)
  PROVE  f[0] = 0 /\ \A l \in Nat : l + 1 <= Len(s) => f[l + 1] = f[l] + s[l + 1]
<1>1. Len(s) \in Nat
  OBVIOUS
<1>2. ASSUME NEW i \in 0..Len(s) PROVE f[i] = IF i = 0 THEN 0 ELSE f[i - 1] + s[i]
  BY DEF Totals
<1>3. ASSUME NEW l \in Nat, l + 1 <= Len(s) PROVE f[l + 1] = f[l] + s[l + 1]
  <2>1. l + 1 \in 0..Len(s) /\ l + 1 # 0 /\ (l + 1) - 1 = l
    BY <1>1, <1>3
  <2> QED BY <1>2, <2>1
<1>4. f[0] = 0
  BY <1>1, <1>2
<1> QED BY <1>3, <1>4

(* The totals of a stretch of s grow like those of s. *)
LEMMA TotalsOfStretch ==
  ASSUME NEW s \in Seq(Int), NEW t \in Seq(Int), NEW k \in Nat, k + Len(t) <= Len(s),
         \A i \in 1..Len(t) : t[i] = s[i + k],
         NEW f \in [0..Len(s) -> Int], NEW g \in [0..Len(t) -> Int], Totals(f, s), Totals(g, t)
  PROVE  f[k + Len(t)] = f[k] + g[Len(t)]
<1> DEFINE S == {n \in Nat : n <= Len(t) => f[n + k] = f[k] + g[n]}
<1>a. /\ Len(s) \in Nat /\ Len(t) \in Nat
      /\ \A i \in 0..Len(s) : f[i] \in Int
      /\ \A i \in 0..Len(t) : g[i] \in Int
  <2>1. Len(s) \in Nat /\ Len(t) \in Nat
    BY LenProperties
  <2> QED BY <2>1
<1>0. g[0] = 0
  BY TotalsAdd
<1>1. 0 \in S
  <2>1. f[0 + k] = f[k] /\ f[k] \in Int
    BY <1>a
  <2> QED BY <1>0, <2>1
<1>2. ASSUME NEW n \in Nat, n \in S PROVE n + 1 \in S
  <2>1. SUFFICES ASSUME n + 1 <= Len(t) PROVE f[n + 1 + k] = f[k] + g[n + 1]
    OBVIOUS
  <2>2. f[n + k] = f[k] + g[n] /\ s[n + 1 + k] = t[n + 1]
    BY <1>2, <2>1
  <2>3. f[n + 1 + k] = f[n + k] + s[n + 1 + k] /\ g[n + 1] = g[n] + t[n + 1]
    <3>1. (n + k) + 1 <= Len(s) /\ n + k \in Nat /\ n + 1 + k = (n + k) + 1
      BY <1>a, <2>1
    <3>2. f[(n + k) + 1] = f[n + k] + s[(n + k) + 1]
      BY <3>1, TotalsAdd
    <3>3. g[n + 1] = g[n] + t[n + 1]
      BY <2>1, TotalsAdd
    <3> QED BY <3>1, <3>2, <3>3
  <2>4. f[k] \in Int /\ g[n] \in Int /\ t[n + 1] \in Int
    <3> HIDE DEF S
    <3>1. k \in 0..Len(s) /\ n \in 0..Len(t) /\ n + 1 \in 1..Len(t)
      BY <1>a, <2>1
    <3>2. t[n + 1] \in Int
      BY <3>1, ElementOfSeq, Zenon
    <3> QED BY <1>a, <3>1, <3>2, Zenon
  <2> QED BY <2>2, <2>3, <2>4
<1>3. Nat \subseteq S
  <2> HIDE DEF S
  <2> QED BY <1>1, <1>2, Induction
<1>4. f[Len(t) + k] = f[k] + g[Len(t)]
  <2>1. Len(t) \in S
    <3>1. Len(t) \in Nat
      BY LenProperties
    <3> HIDE DEF S
    <3> QED BY <3>1, <1>3, Zenon
  <2>2. \A n \in S : n <= Len(t) => f[n + k] = f[k] + g[n]
    OBVIOUS
  <2>3. Len(t) <= Len(t)
    BY <1>a
  <2> HIDE DEF S
  <2> QED BY <2>1, <2>2, <2>3, Zenon
<1> QED BY <1>4, <1>a

LEMMA SumFacts ==
  ASSUME NEW s \in Seq(Int)
  PROVE  /\ Sum(s) \in Int
         /\ Len(s) = 0 => Sum(s) = 0
         /\ \A n \in Int : Sum(Append(s, n)) = Sum(s) + n
         /\ s # <<>> => Sum(s) = Head(s) + Sum(Tail(s))
<1>1. PICK f \in [0..Len(s) -> Int] : Totals(f, s) /\ Sum(s) = f[Len(s)]
  BY SumIs
<1>2. Len(s) \in Nat /\ f[0] = 0
  BY <1>1 DEF Totals
<1>3. Sum(s) \in Int /\ (Len(s) = 0 => Sum(s) = 0)
  BY <1>1, <1>2
<1>4. ASSUME NEW n \in Int PROVE Sum(Append(s, n)) = Sum(s) + n
  <2> DEFINE t == Append(s, n)
  <2>1. t \in Seq(Int) /\ Len(t) = Len(s) + 1 /\ t[Len(t)] = n /\ \A i \in 1..Len(s) : s[i] = t[i + 0]
    BY <1>2, AppendProperties
  <2> HIDE DEF t
  <2>2. PICK g \in [0..Len(t) -> Int] : Totals(g, t) /\ Sum(t) = g[Len(t)]
    BY <2>1, SumIs
  <2>3. g[0 + Len(s)] = g[0] + f[Len(s)]
    <3>1. 0 + Len(s) <= Len(t) /\ 0 \in Nat
      BY <1>2, <2>1
    <3> QED BY <1>1, <2>1, <2>2, <3>1, TotalsOfStretch
  <2>4. g[0] = 0 /\ g[Len(t)] = g[Len(t) - 1] + n
    BY <1>2, <2>1, <2>2 DEF Totals
  <2> QED BY <1>1, <1>2, <2>1, <2>2, <2>3, <2>4 DEF t
<1>5. ASSUME s # <<>> PROVE Sum(s) = Head(s) + Sum(Tail(s))
  <2> DEFINE t == Tail(s)
  <2>1. /\ t \in Seq(Int) /\ Len(s) = Len(t) + 1 /\ Len(t) \in Nat /\ Head(s) = s[1]
        /\ \A i \in 1..Len(t) : t[i] = s[i + 1]
    BY <1>2, <1>5, HeadTailProperties
  <2> HIDE DEF t
  <2>2. PICK g \in [0..Len(t) -> Int] : Totals(g, t) /\ Sum(t) = g[Len(t)]
    BY <2>1, SumIs
  <2>3. f[1 + Len(t)] = f[1] + g[Len(t)]
    <3>1. 1 + Len(t) <= Len(s) /\ 1 \in Nat
      BY <2>1
    <3> QED BY <1>1, <2>1, <2>2, <3>1, TotalsOfStretch
  <2>4. f[1] = 0 + s[1] /\ s[1] \in Int
    BY <1>1, <1>2, <2>1 DEF Totals
  <2> QED BY <1>1, <2>1, <2>2, <2>3, <2>4 DEF t
<1> QED BY <1>3, <1>4, <1>5

(* The signed quantities of the events under way. *)
Signed(events) == [i \in 1..Len(events) |-> Sign(events[i].side) * events[i].qty]

LEMMA SignedFacts ==
  ASSUME NEW s \in Seq(Events)
  PROVE  /\ Sum(Signed(s)) \in Int
         /\ Len(s) = 0 => Sum(Signed(s)) = 0
         /\ \A e \in Events : Sum(Signed(Append(s, e))) = Sum(Signed(s)) + Sign(e.side) * e.qty
         /\ s # <<>> => Sum(Signed(s)) = Sign(Head(s).side) * Head(s).qty + Sum(Signed(Tail(s)))
<1>1. \A e \in Events : Sign(e.side) * e.qty \in Int
  BY DEF Events, Sign, Sides
<1>2. ASSUME NEW t \in Seq(Events)
      PROVE  Signed(t) \in Seq(Int) /\ Len(Signed(t)) = Len(t)
  <2>1. Len(t) \in Nat /\ \A i \in 1..Len(t) : t[i] \in Events
    OBVIOUS
  <2> QED BY <1>1, <2>1 DEF Signed
<1>3. ASSUME NEW e \in Events
      PROVE  Sum(Signed(Append(s, e))) = Sum(Signed(s)) + Sign(e.side) * e.qty
  <2>0. Append(s, e) \in Seq(Events) /\ Len(Append(s, e)) = Len(s) + 1 /\ Len(s) \in Nat
    BY AppendProperties
  <2>1. Signed(Append(s, e)) = Append(Signed(s), Sign(e.side) * e.qty)
    <3>1. ASSUME NEW i \in 1..Len(s) + 1
          PROVE  Signed(Append(s, e))[i] = Append(Signed(s), Sign(e.side) * e.qty)[i]
      <4>1. CASE i \in 1..Len(s)
        <5>1. Append(s, e)[i] = s[i] /\ i \in 1..Len(Append(s, e))
          BY <2>0, <4>1, AppendProperties
        <5>2. Append(Signed(s), Sign(e.side) * e.qty)[i] = Signed(s)[i]
          BY <1>1, <1>2, <4>1, AppendProperties
        <5> QED BY <4>1, <5>1, <5>2, Zenon DEF Signed
      <4>2. CASE i = Len(s) + 1
        <5>1. Append(s, e)[i] = e /\ i \in 1..Len(Append(s, e))
          BY <2>0, <4>2, AppendProperties
        <5>2. Append(Signed(s), Sign(e.side) * e.qty)[i] = Sign(e.side) * e.qty
          BY <1>1, <1>2, <4>2, AppendProperties
        <5> QED BY <5>1, <5>2, Zenon DEF Signed
      <4>3. i \in 1..Len(s) \/ i = Len(s) + 1
        BY <2>0
      <4> QED BY <4>1, <4>2, <4>3, Zenon
    <3>2. /\ Append(Signed(s), Sign(e.side) * e.qty) \in Seq(Int)
          /\ Len(Append(Signed(s), Sign(e.side) * e.qty)) = Len(s) + 1
      BY <1>1, <1>2, AppendProperties
    <3>3. /\ Signed(Append(s, e)) \in Seq(Int)
          /\ Len(Signed(Append(s, e))) = Len(s) + 1
      BY <1>2, <2>0, Zenon
    <3> QED BY <3>1, <3>2, <3>3, SeqEqual, Zenon
  <2> QED BY <1>1, <1>2, <2>1, SumFacts
<1>4. ASSUME s # <<>>
      PROVE  Sum(Signed(s)) = Sign(Head(s).side) * Head(s).qty + Sum(Signed(Tail(s)))
  <2>0. /\ Tail(s) \in Seq(Events) /\ Len(s) = Len(Tail(s)) + 1 /\ Len(Tail(s)) \in Nat
        /\ Head(s) = s[1] /\ \A i \in 1..Len(Tail(s)) : Tail(s)[i] = s[i + 1]
    BY <1>4, HeadTailProperties
  <2>1. Signed(s) # <<>> /\ Head(Signed(s)) = Sign(Head(s).side) * Head(s).qty
    BY <1>2, <2>0 DEF Signed
  <2>2. Tail(Signed(s)) = Signed(Tail(s))
    <3>1. /\ Tail(Signed(s)) \in Seq(Int) /\ Len(Tail(Signed(s))) = Len(Tail(s))
          /\ \A i \in 1..Len(Tail(s)) : Tail(Signed(s))[i] = Signed(s)[i + 1]
      BY <1>2, <2>0, <2>1, HeadTailProperties
    <3>2. \A i \in 1..Len(Tail(s)) : Signed(s)[i + 1] = Signed(Tail(s))[i]
      BY <2>0 DEF Signed
    <3> QED BY <1>2, <2>0, <3>1, <3>2, SeqEqual
  <2> QED BY <1>2, <2>1, <2>2, SumFacts
<1> QED BY <1>2, <1>3, <1>4, SumFacts

-----------------------------------------------------------------------------
(* Conservation of fills *)

(* What is on its way, in the terms of the lemmas. *)
LEMMA ConservationIs ==
  FillConservation <=> position = inv + Sum(ring) + undelivered + Sum(Signed(feed))
  BY DEF FillConservation, Signed

(* An event that is delivered or missed accounts for its quantity. *)
LEMMA EmitConserves ==
  ASSUME TypeOK, NEW e \in Events, Emit(e), NEW n \in Int, n = Sign(e.side) * e.qty
  PROVE  /\ undelivered' \in Int /\ Sum(Signed(feed')) \in Int
         /\ undelivered' + Sum(Signed(feed')) = undelivered + Sum(Signed(feed)) + n
<1>1. undelivered \in Int /\ feed \in Seq(Events)
  BY DEF TypeOK
<1>2. Sum(Signed(feed)) \in Int
  BY <1>1, SignedFacts
<1>3. CASE Delivered(e)
  <2>1. Sum(Signed(feed')) = Sum(Signed(feed)) + n
    BY <1>1, <1>3, SignedFacts DEF Delivered
  <2> QED BY <1>1, <1>2, <1>3, <2>1 DEF Delivered
<1>4. CASE Missed(e)
  BY <1>1, <1>2, <1>4 DEF Missed
<1> QED BY <1>3, <1>4 DEF Emit

LEMMA FillConserves ==
  ASSUME TypeOK, FillConservation, UNCHANGED <<inv, ring>>, NEW e \in Events, Emit(e),
         Sign(e.side) * e.qty \in Int, position' = position + Sign(e.side) * e.qty
  PROVE  position' = inv' + Sum(ring') + undelivered' + Sum(Signed(feed'))
<1> DEFINE n == Sign(e.side) * e.qty
<1>1. /\ n \in Int /\ position' = position + n /\ inv' = inv /\ ring' = ring
      /\ position = inv + Sum(ring) + undelivered + Sum(Signed(feed))
  BY ConservationIs
<1>2. /\ inv \in Int /\ undelivered \in Int /\ Sum(ring) \in Int /\ Sum(Signed(feed)) \in Int
  BY SumFacts, SignedFacts DEF TypeOK
<1>3. /\ undelivered' \in Int /\ Sum(Signed(feed')) \in Int
      /\ undelivered' + Sum(Signed(feed')) = undelivered + Sum(Signed(feed)) + n
  BY <1>1, EmitConserves
<1> HIDE DEF n
<1> QED BY <1>1, <1>2, <1>3

LEMMA ConservationStep == TypeOK /\ FillConservation /\ [Next]_vars => FillConservation'
<1> SUFFICES ASSUME TypeOK, FillConservation, [Next]_vars
             PROVE  position' = inv' + Sum(ring') + undelivered' + Sum(Signed(feed'))
  BY DEF FillConservation, Signed
<1>0. /\ position \in Int /\ inv \in Int /\ undelivered \in Int
      /\ ring \in Seq(Int) /\ feed \in Seq(Events)
      /\ Sum(ring) \in Int /\ Sum(Signed(feed)) \in Int
      /\ position = inv + Sum(ring) + undelivered + Sum(Signed(feed))
  BY ConservationIs, SumFacts, SignedFacts DEF TypeOK
<1>1. CASE FlattenAndLeave
  <2>1. UNCHANGED <<inv, ring>> /\ op.est \in Int /\ nextCid \in Nat
    BY <1>1 DEF FlattenAndLeave, TypeOK, Ops
  <2>2. CASE Flatten(nextCid, op.est) /\ Abs(op.est) > FlattenThreshold
    <3> DEFINE side == IF op.est > 0 THEN "ASK" ELSE "BID"
               size == IF op.est > 0 THEN op.est ELSE -op.est
               e == [cid |-> nextCid, side |-> side, qty |-> size, acc |-> size]
    <3>1. e \in Events /\ e.side = side /\ e.qty = size
      BY <2>1, <2>2, OrderManagerAssumption DEF Events, Sides, Abs
    <3>2. position' = position + Sign(side) * size /\ Emit(e)
      BY <2>2 DEF Flatten
    <3>3. Sign(side) * size \in Int
      BY <2>1 DEF Sign
    <3> HIDE DEF e, side, size
    <3> QED BY <2>1, <3>1, <3>2, <3>3, FillConserves
  <2>3. CASE UNCHANGED <<position, undelivered, feed>>
    BY <1>0, <2>1, <2>3
  <2> QED BY <1>1, <2>2, <2>3 DEF FlattenAndLeave, exchangeVars
<1>2. CASE ExchangeFill
  <2>1. PICK o \in live : \E q \in 1..o.rem : Trade(o, q)
    BY <1>2 DEF ExchangeFill
  <2>2. PICK q \in 1..o.rem : Trade(o, q)
    BY <2>1
  <2> DEFINE e == [cid |-> o.cid, side |-> o.side, qty |-> q, acc |-> Qty - o.rem + q]
  <2>3. e \in Events /\ e.side = o.side /\ e.qty = q
    BY <2>2, ExchangeAssumption DEF TypeOK, Orders, Events
  <2>4. position' = position + Sign(o.side) * q /\ Emit(e) /\ UNCHANGED <<inv, ring>>
    BY <1>2, <2>2 DEF Trade, ExchangeFill, omVars
  <2>5. Sign(o.side) * q \in Int
    BY <2>2 DEF Sign
  <2> HIDE DEF e
  <2> QED BY <2>3, <2>4, <2>5, FillConserves
<1>3. CASE InjectFill
  <2> DEFINE n == Sign(Head(feed).side) * Head(feed).qty
  <2>1. feed # <<>> /\ feed' = Tail(feed) /\ PushFill(n) /\ position' = position /\ inv' = inv
    BY <1>3 DEF InjectFill
  <2>2. Head(feed) \in Events /\ feed' \in Seq(Events)
    BY <1>0, <2>1
  <2>3. n \in Int
    BY <2>2 DEF Events, Sign
  <2>4. Sum(Signed(feed)) = n + Sum(Signed(feed')) /\ Sum(Signed(feed')) \in Int
    BY <1>0, <2>1, <2>2, SignedFacts
  <2> HIDE DEF n
  <2>5. CASE ring' = Append(ring, n) /\ undelivered' = undelivered
    <3>1. Sum(ring') = Sum(ring) + n
      BY <1>0, <2>3, <2>5, SumFacts
    <3>2. position = inv + Sum(ring) + undelivered + (n + Sum(Signed(feed')))
      BY <1>0, <2>4
    <3> QED BY <1>0, <2>1, <2>3, <2>4, <2>5, <3>1, <3>2
  <2>6. CASE undelivered' = undelivered + n /\ ring' = ring
    <3>1. position = inv + Sum(ring) + undelivered + (n + Sum(Signed(feed')))
      BY <1>0, <2>4
    <3> QED BY <1>0, <2>1, <2>3, <2>4, <2>6, <3>1
  <2> QED BY <2>1, <2>5, <2>6 DEF PushFill
<1>4. CASE ApplyFill
  <2>1. /\ ring # <<>> /\ inv' = inv + Head(ring) /\ ring' = Tail(ring)
        /\ UNCHANGED <<position, undelivered, feed>>
    BY <1>4 DEF ApplyFill, exchangeVars
  <2>2. Head(ring) \in Int /\ Tail(ring) \in Seq(Int)
    BY <1>0, <2>1
  <2>3. Sum(ring) = Head(ring) + Sum(ring') /\ Sum(ring') \in Int
    BY <1>0, <2>1, <2>2, SumFacts
  <2> QED BY <1>0, <2>1, <2>2, <2>3
<1>5. CASE ~(FlattenAndLeave \/ ExchangeFill \/ InjectFill \/ ApplyFill)
  <2>1. UNCHANGED <<position, inv, ring, undelivered, feed>>
    BY <1>5 DEF Next, Critical, EmitQuote, TakeQuote, BeginRequote, Requote, PlaceNew, Submit,
         CancelOk, CancelRetry, CancelGiveUp, CancelOrSkip, SizeFlatten, ReconcileCompare,
         ClaimHalt, BeginHalt, BeginShutdown, ReconcileQuery, Trip, Stop, exchangeVars, omVars,
         vars
  <2> QED BY <1>0, <2>1
<1> QED BY <1>1, <1>2, <1>3, <1>4, <1>5

(* No fill is counted twice or lost unaccounted on its way from the         *)
(* exchange to the PositionTracker, for every capacity of the ring.         *)
THEOREM FillsAreConserved == Spec => []FillConservation
<1>1. ASSUME Init PROVE FillConservation
  <2>1. /\ position = 0 /\ inv = 0 /\ undelivered = 0
        /\ ring \in Seq(Int) /\ Len(ring) = 0 /\ feed \in Seq(Events) /\ Len(feed) = 0
    BY <1>1, EmptySeq DEF Init, ExchangeInit, OMInit
  <2>2. Sum(ring) = 0 /\ Sum(Signed(feed)) = 0
    BY <2>1, SumFacts, SignedFacts
  <2> QED BY <2>1, <2>2, ConservationIs
<1> QED BY <1>1, InitTypeOK, TypeOKStep, ConservationStep, PTL DEF Spec

(* Reconcile trips the breaker only for a fill that is lost or on its way,  *)
(* or for a position that is not the account's any more: with every fill    *)
(* booked the local inventory is the account's position, for every          *)
(* tolerance.                                                               *)
THEOREM AlarmsHaveCause == Spec => AlarmHasCause
<1> DEFINE Caused ==
      ReconcileCompare /\ feed = <<>> /\ ring = <<>> /\ undelivered = 0 /\ op.est = position
        => UNCHANGED halted
<1>1. ASSUME TypeOK, FillConservation, feed = <<>>, ring = <<>>, undelivered = 0,
             op.est = position
      PROVE  inv = op.est
  <2>1. Len(ring) = 0 /\ Len(feed) = 0 /\ position \in Int /\ inv \in Int
    BY <1>1 DEF TypeOK
  <2>2. Sum(ring) = 0 /\ Sum(Signed(feed)) = 0
    BY <1>1, <2>1, SumFacts, SignedFacts DEF TypeOK
  <2> QED BY <1>1, <2>1, <2>2, ConservationIs
<1>2. ASSUME TypeOK, inv = op.est PROVE ~Diverged
  BY <1>2, OrderManagerAssumption DEF OrderManagerAssumption, Diverged, Abs, TypeOK
<1>3. TypeOK /\ FillConservation => Caused
  BY <1>1, <1>2, Zenon DEF ReconcileCompare, TypeOK
<1>4. AlarmHasCause <=> [][Caused]_vars
  BY DEF AlarmHasCause
<1> HIDE DEF Caused
<1>5. Spec => []TypeOK
  BY InitTypeOK, TypeOKStep, PTL DEF Spec
<1>6. TypeOK /\ FillConservation /\ [Next]_vars => [Caused]_vars
  BY <1>3
<1> QED BY <1>4, <1>5, <1>6, FillsAreConserved, PTL DEF Spec

=============================================================================
