------------------------ MODULE OrderManagerAccounts ------------------------
(***************************************************************************)
(* What the engine's slots, the fill events under way and the exchange's   *)
(* book say of one order agree, so that no acknowledged order is lost from *)
(* sight, and a halt that nothing goes wrong in leaves none behind.        *)
(* Proved for every value of the constants.                                *)
(***************************************************************************)
EXTENDS OrderManagerProofs

-----------------------------------------------------------------------------
(* The inductive invariant *)

(* Client order ids are used once. *)
Numbered ==
  /\ \A side \in Sides : slot[side].cid < nextCid
  /\ \A o \in live : o.cid < nextCid
  /\ \A i \in 1..Len(feed) : feed[i].cid < nextCid

(* Nobody knows an order yet that place_new is about to submit. *)
Unknown ==
  op.at = "submit" =>
    LET c == slot[op.side].cid
    IN /\ slot[op.side].exec = 0
       /\ \A side \in Sides : side # op.side => slot[side].cid # c
       /\ \A o \in live : o.cid # c
       /\ \A i \in 1..Len(feed) : feed[i].cid # c

(* An order rests once. *)
OneOrder == \A o, p \in live : o.cid = p.cid => o = p

(* Of an order that still rests, no event and no slot counts more than has  *)
(* traded.                                                                  *)
EventsBehind == \A o \in live : \A i \in 1..Len(feed) : feed[i].cid = o.cid => feed[i].acc <= Qty - o.rem
SlotsBehind == \A o \in live : \A side \in Sides : slot[side].cid = o.cid => slot[side].exec <= Qty - o.rem

(* A slot is behind every event still under way for its order, and an       *)
(* event behind the later ones.                                             *)
SlotsBeforeEvents ==
  \A i \in 1..Len(feed) : \A side \in Sides :
    slot[side].cid = feed[i].cid => slot[side].exec + feed[i].qty <= feed[i].acc
EventsInOrder ==
  \A i, j \in 1..Len(feed) :
    i < j /\ feed[i].cid = feed[j].cid => feed[i].acc + feed[j].qty <= feed[j].acc

Accounts == OneOrder /\ EventsBehind /\ SlotsBehind /\ SlotsBeforeEvents /\ EventsInOrder
Ledger == Numbered /\ Unknown /\ Accounts

-----------------------------------------------------------------------------
LEMMA InitLedger == Init => Ledger
<1> SUFFICES ASSUME Init PROVE Ledger
  OBVIOUS
<1>1. live = {} /\ Len(feed) = 0 /\ nextCid = 1 /\ op.at = "none"
  BY DEF Init, ExchangeInit, OMInit, Idle
<1>2. \A side \in Sides : slot[side].cid = 0
  BY DEF Init, OMInit, EmptySlot
<1> QED
  BY <1>1, <1>2
  DEF Ledger, Numbered, Unknown, Accounts, OneOrder, EventsBehind, SlotsBehind,
      SlotsBeforeEvents, EventsInOrder

(* Types of the parts the arithmetic below is about. *)
LEMMA PartTypes ==
  ASSUME TypeOK
  PROVE /\ Len(feed) \in Nat /\ nextCid \in Nat
        /\ \A i \in 1..Len(feed) :
             feed[i].cid \in Nat /\ feed[i].acc \in Nat /\ feed[i].qty \in Nat
        /\ \A side \in Sides : slot[side].cid \in Nat /\ slot[side].exec \in Nat
        /\ \A o \in live : o.cid \in Nat /\ o.rem \in Nat
<1>1. feed \in Seq(Events)
  BY DEF TypeOK
<1>2. Len(feed) \in Nat /\ \A i \in 1..Len(feed) : feed[i] \in Events
  BY <1>1
<1>3. \A i \in 1..Len(feed) :
        feed[i].cid \in Nat /\ feed[i].acc \in Nat /\ feed[i].qty \in Nat
  BY <1>2 DEF Events
<1>4. \A side \in Sides : slot[side].cid \in Nat /\ slot[side].exec \in Nat
  BY DEF TypeOK, Slots
<1>5. \A o \in live : o.cid \in Nat /\ o.rem \in Nat
  BY DEF TypeOK, Orders
<1> QED BY <1>2, <1>3, <1>4, <1>5 DEF TypeOK

(* The slots keep their order and its executed quantity. *)
SameOrders ==
  \A side \in Sides : slot'[side].cid = slot[side].cid /\ slot'[side].exec = slot[side].exec

(* A step that adds no order and no event. *)
LEMMA LedgerFrame ==
  ASSUME TypeOK, TypeOK', Ledger, live' \subseteq live, UNCHANGED feed, SameOrders,
         nextCid' >= nextCid, op'.at = "submit" => op' = op
  PROVE Ledger'
<1>1. Numbered'
  <2>1. nextCid' \in Nat
    BY DEF TypeOK
  <2> QED BY <2>1, PartTypes DEF Ledger, Numbered, SameOrders
<1>2. Unknown'
  <2> SUFFICES ASSUME op'.at = "submit" PROVE Unknown'
    BY DEF Unknown
  <2>1. op' = op /\ op.side \in Sides
    BY DEF TypeOK, Ops
  <2> QED BY <2>1 DEF Ledger, Unknown, SameOrders
<1>3. OneOrder' /\ EventsBehind' /\ EventsInOrder'
  BY DEF Ledger, Accounts, OneOrder, EventsBehind, EventsInOrder
<1>4. SlotsBehind' /\ SlotsBeforeEvents'
  BY DEF Ledger, Accounts, SlotsBehind, SlotsBeforeEvents, SameOrders
<1> QED BY <1>1, <1>2, <1>3, <1>4 DEF Ledger, Accounts

(* A slot takes up a fresh order. *)
LEMMA LedgerPlace ==
  ASSUME TypeOK, TypeOK', Ledger, NEW s \in Slots, SetSlot(s), s.cid = nextCid, s.exec = 0,
         nextCid' = nextCid + 1, UNCHANGED <<live, feed>>,
         op'.at = "submit" => op'.side = op.side
  PROVE Ledger'
<1>1. /\ op.side \in Sides /\ slot'[op.side] = s
      /\ \A side \in Sides : side # op.side => slot'[side] = slot[side]
  BY SetSlotAt DEF TypeOK, Ops
<1>2. Numbered'
  BY <1>1, PartTypes DEF Ledger, Numbered
<1>3. Unknown'
  <2>1. /\ \A side \in Sides : slot[side].cid # nextCid
        /\ \A o \in live : o.cid # nextCid
        /\ \A i \in 1..Len(feed) : feed[i].cid # nextCid
    BY PartTypes DEF Ledger, Numbered
  <2> QED BY <1>1, <2>1 DEF Unknown
<1>4. OneOrder' /\ EventsBehind' /\ EventsInOrder'
  BY DEF Ledger, Accounts, OneOrder, EventsBehind, EventsInOrder
<1>5. SlotsBehind'
  <2>1. \A o \in live : o.cid # nextCid
    BY PartTypes DEF Ledger, Numbered
  <2> QED BY <1>1, <2>1 DEF Ledger, Accounts, SlotsBehind
<1>6. SlotsBeforeEvents'
  <2>1. \A i \in 1..Len(feed) : feed[i].cid # nextCid
    BY PartTypes DEF Ledger, Numbered
  <2> QED BY <1>1, <2>1 DEF Ledger, Accounts, SlotsBeforeEvents
<1> QED BY <1>2, <1>3, <1>4, <1>5, <1>6 DEF Ledger, Accounts

(* The exchange accepts the order being submitted. *)
LEMMA LedgerAccept ==
  ASSUME TypeOK, TypeOK', Ledger, op.at = "submit", op'.at # "submit", SameOrders,
         live' = Accepted(slot[op.side].cid, op.side), UNCHANGED <<feed, nextCid>>
  PROVE Ledger'
<1> DEFINE n == [cid |-> slot[op.side].cid, side |-> op.side, rem |-> Qty]
<1>1. live' = live \cup {n}
  BY DEF Accepted
<1>2. n.cid = slot[op.side].cid /\ n.rem = Qty /\ op.side \in Sides /\ Qty \in Nat \ {0}
  BY ExchangeAssumption DEF TypeOK, Ops
<1> HIDE DEF n
<1>3. /\ slot[op.side].exec = 0
      /\ \A side \in Sides : side # op.side => slot[side].cid # n.cid
      /\ \A o \in live : o.cid # n.cid
      /\ \A i \in 1..Len(feed) : feed[i].cid # n.cid
  BY <1>2 DEF Ledger, Unknown
<1>4. Numbered'
  BY <1>1, <1>2 DEF Ledger, Numbered, SameOrders
<1>5. Unknown'
  BY DEF Unknown
<1>6. OneOrder'
  BY <1>1, <1>3 DEF Ledger, Accounts, OneOrder
<1>7. EventsBehind' /\ EventsInOrder'
  BY <1>1, <1>3 DEF Ledger, Accounts, EventsBehind, EventsInOrder
<1>8. SlotsBehind'
  <2>1. \A side \in Sides : slot[side].cid = n.cid => slot[side].exec <= Qty - n.rem
    BY <1>2, <1>3
  <2> QED BY <1>1, <2>1 DEF Ledger, Accounts, SlotsBehind, SameOrders
<1>9. SlotsBeforeEvents'
  BY DEF Ledger, Accounts, SlotsBeforeEvents, SameOrders
<1> QED BY <1>4, <1>5, <1>6, <1>7, <1>8, <1>9 DEF Ledger, Accounts

(* The exchange sends an event of an order that rests, or of a fresh one    *)
(* (the flatten).                                                           *)
LEMMA EmitFeed ==
  ASSUME TypeOK, NEW e \in Events, Emit(e)
  PROVE /\ Len(feed) \in Nat
        /\ \/ feed' = feed
           \/ /\ Len(feed') = Len(feed) + 1
              /\ feed'[Len(feed) + 1] = e
              /\ \A i \in 1..Len(feed) : feed'[i] = feed[i]
        /\ \A i \in 1..Len(feed') : (i \in 1..Len(feed) /\ feed'[i] = feed[i]) \/ feed'[i] = e
<1>1. feed \in Seq(Events) /\ Len(feed) \in Nat
  BY DEF TypeOK
<1>2. feed' = feed \/ feed' = Append(feed, e)
  BY DEF Emit, Delivered, Missed
<1>3. CASE feed' = feed
  BY <1>1, <1>3
<1>4. CASE feed' = Append(feed, e)
  <2>1. /\ Len(feed') = Len(feed) + 1
        /\ feed'[Len(feed) + 1] = e
        /\ \A i \in 1..Len(feed) : feed'[i] = feed[i]
    BY <1>1, <1>4, AppendProperties
  <2>2. \A i \in 1..Len(feed') : i \in 1..Len(feed) \/ i = Len(feed) + 1
    <3>1. \A n \in Nat : \A i \in 1..(n + 1) : i \in 1..n \/ i = n + 1
      OBVIOUS
    <3> QED BY <1>1, <2>1, <3>1
  <2> QED BY <1>1, <2>1, <2>2
<1> QED BY <1>2, <1>3, <1>4

(* An event whose accumulated quantity is ahead of those before it of its   *)
(* order leaves the stream in order.                                        *)
LEMMA EmitInOrder ==
  ASSUME TypeOK, EventsInOrder, NEW e \in Events, Emit(e),
         \A i \in 1..Len(feed) : feed[i].cid = e.cid => feed[i].acc + e.qty <= e.acc
  PROVE EventsInOrder'
<1>1. CASE feed' = feed
  BY <1>1 DEF EventsInOrder
<1>2. CASE /\ Len(feed') = Len(feed) + 1
           /\ feed'[Len(feed) + 1] = e
           /\ \A i \in 1..Len(feed) : feed'[i] = feed[i]
  <2> SUFFICES ASSUME NEW i \in 1..Len(feed'), NEW j \in 1..Len(feed'), i < j,
                      feed'[i].cid = feed'[j].cid
               PROVE feed'[i].acc + feed'[j].qty <= feed'[j].acc
    BY DEF EventsInOrder
  <2>1. i \in 1..Len(feed) /\ (j \in 1..Len(feed) \/ j = Len(feed) + 1)
    <3>1. \A n \in Nat : \A a, b \in 1..(n + 1) :
            a < b => a \in 1..n /\ (b \in 1..n \/ b = n + 1)
      OBVIOUS
    <3> QED BY <1>2, <3>1, EmitFeed
  <2>2. CASE j \in 1..Len(feed)
    <3>1. feed'[i] = feed[i] /\ feed'[j] = feed[j]
      BY <1>2, <2>1, <2>2
    <3> QED BY <2>1, <2>2, <3>1 DEF EventsInOrder
  <2>3. CASE j = Len(feed) + 1
    <3>1. feed'[i] = feed[i] /\ feed'[j] = e
      BY <1>2, <2>1, <2>3
    <3> QED BY <2>1, <3>1
  <2> QED BY <2>1, <2>2, <2>3
<1> QED BY <1>1, <1>2, EmitFeed

LEMMA LedgerFlatten ==
  ASSUME TypeOK, TypeOK', Ledger, NEW net \in Int \ {0}, Flatten(nextCid, net),
         nextCid' = nextCid + 1, UNCHANGED slot, op'.at # "submit"
  PROVE Ledger'
<1> DEFINE side0 == IF net > 0 THEN "ASK" ELSE "BID"
           size == IF net > 0 THEN net ELSE -net
           e == [cid |-> nextCid, side |-> side0, qty |-> size, acc |-> size]
<1>1. e \in Events /\ e.cid = nextCid /\ Emit(e) /\ live' = live
  BY DEF Events, Sides, TypeOK, Flatten
<1> HIDE DEF e
<1>2. /\ Len(feed) \in Nat
      /\ \/ feed' = feed
         \/ /\ Len(feed') = Len(feed) + 1
            /\ feed'[Len(feed) + 1] = e
            /\ \A i \in 1..Len(feed) : feed'[i] = feed[i]
  BY <1>1, EmitFeed
<1>3. /\ \A side \in Sides : slot[side].cid < nextCid
      /\ \A o \in live : o.cid < nextCid
      /\ \A i \in 1..Len(feed) : feed[i].cid < nextCid
  BY DEF Ledger, Numbered
<1>4. \A i \in 1..Len(feed') : (i \in 1..Len(feed) /\ feed'[i] = feed[i]) \/ feed'[i].cid = nextCid
  BY <1>1, EmitFeed
<1>5. /\ \A side \in Sides : slot[side].cid \in Nat
      /\ \A o \in live : o.cid \in Nat
      /\ \A i \in 1..Len(feed) : feed[i].cid \in Nat
      /\ nextCid \in Nat
  BY PartTypes
<1>6. Numbered'
  BY <1>1, <1>3, <1>4, <1>5 DEF Numbered
<1>7. Unknown'
  BY DEF Unknown
<1>8. OneOrder' /\ SlotsBehind'
  BY <1>1 DEF Ledger, Accounts, OneOrder, SlotsBehind
<1>9. EventsBehind' /\ SlotsBeforeEvents'
  <2>1. (\A side \in Sides : slot[side].cid # nextCid) /\ (\A o \in live : o.cid # nextCid)
    BY <1>3, <1>5
  <2>2. EventsBehind'
    BY <1>1, <1>4, <2>1 DEF Ledger, Accounts, EventsBehind
  <2>3. SlotsBeforeEvents'
    BY <1>4, <2>1 DEF Ledger, Accounts, SlotsBeforeEvents
  <2> QED BY <2>2, <2>3
<1>10. EventsInOrder'
  <2>1. \A i \in 1..Len(feed) : feed[i].cid # e.cid
    BY <1>1, <1>3, <1>5
  <2> QED BY <1>1, <2>1, EmitInOrder DEF Ledger, Accounts
<1> QED BY <1>6, <1>7, <1>8, <1>9, <1>10 DEF Ledger, Accounts

LEMMA LedgerTrade ==
  ASSUME TypeOK, TypeOK', Ledger, NEW o \in live, NEW q \in 1..o.rem, Trade(o, q),
         UNCHANGED <<slot, nextCid, op>>
  PROVE Ledger'
<1> DEFINE e == [cid |-> o.cid, side |-> o.side, qty |-> q, acc |-> Qty - o.rem + q]
           r == [o EXCEPT !.rem = o.rem - q]
<1>1. o \in Orders /\ o.rem \in 1..Qty /\ Qty \in Nat /\ o.cid \in Nat
  BY ExchangeAssumption DEF TypeOK, Orders
<1>2. e \in Events /\ e.cid = o.cid /\ e.qty = q /\ e.acc = Qty - o.rem + q /\ Emit(e)
  BY <1>1 DEF Events, Orders, Trade
<1>3. r.cid = o.cid /\ r.rem = o.rem - q
  BY <1>1 DEF Orders
<1>4. \A p \in live' : (p \in live /\ p # o) \/ p = r
  BY DEF Trade
<1> HIDE DEF e, r
<1>5. /\ Len(feed) \in Nat
      /\ \/ feed' = feed
         \/ /\ Len(feed') = Len(feed) + 1
            /\ feed'[Len(feed) + 1] = e
            /\ \A i \in 1..Len(feed) : feed'[i] = feed[i]
  BY <1>2, EmitFeed
<1>6. \A i \in 1..Len(feed') : (i \in 1..Len(feed) /\ feed'[i] = feed[i]) \/ feed'[i] = e
  BY <1>2, EmitFeed
<1>7. \A p \in live' : (p \in live /\ p.cid # o.cid) \/ (p.cid = o.cid /\ p.rem = o.rem - q)
  BY <1>3, <1>4 DEF Ledger, Accounts, OneOrder
<1>8. Numbered'
  BY <1>2, <1>6, <1>7 DEF Ledger, Numbered
<1>9. Unknown'
  BY <1>2, <1>6, <1>7 DEF Ledger, Unknown
<1>10. OneOrder'
  BY <1>3, <1>4 DEF Ledger, Accounts, OneOrder
<1>11. EventsBehind'
  <2>1. \A i \in 1..Len(feed) : feed[i].cid = o.cid => feed[i].acc <= Qty - o.rem
    BY DEF Ledger, Accounts, EventsBehind
  <2>2. \A i \in 1..Len(feed) : feed[i].acc \in Nat
    BY PartTypes
  <2>3. \A p \in live' : \A i \in 1..Len(feed') :
          p.cid # o.cid /\ feed'[i].cid = p.cid => feed'[i].acc <= Qty - p.rem
    BY <1>2, <1>6, <1>7 DEF Ledger, Accounts, EventsBehind
  <2>4. \A p \in live' : \A i \in 1..Len(feed') :
          p.cid = o.cid /\ feed'[i].cid = p.cid => feed'[i].acc <= Qty - p.rem
    <3> SUFFICES ASSUME NEW p \in live', NEW i \in 1..Len(feed'), p.cid = o.cid,
                        feed'[i].cid = p.cid
                 PROVE feed'[i].acc <= Qty - p.rem
      OBVIOUS
    <3>1. p.rem = o.rem - q
      BY <1>7
    <3>2. CASE i \in 1..Len(feed) /\ feed'[i] = feed[i]
      <4>1. feed[i].acc <= Qty - o.rem /\ feed[i].acc \in Nat
        BY <2>1, <2>2, <3>2
      <4> QED BY <1>1, <3>1, <3>2, <4>1
    <3>3. CASE feed'[i] = e
      BY <1>1, <1>2, <3>1, <3>3
    <3> QED BY <1>6, <3>2, <3>3
  <2> QED BY <2>3, <2>4 DEF EventsBehind
<1>12. SlotsBehind'
  <2>1. \A side \in Sides : slot[side].cid = o.cid => slot[side].exec <= Qty - o.rem
    BY DEF Ledger, Accounts, SlotsBehind
  <2>2. \A side \in Sides : slot[side].exec \in Nat
    BY PartTypes
  <2> QED BY <1>1, <1>7, <2>1, <2>2 DEF Ledger, Accounts, SlotsBehind
<1>13. SlotsBeforeEvents'
  <2>1. \A side \in Sides : slot[side].cid = o.cid => slot[side].exec <= Qty - o.rem
    BY DEF Ledger, Accounts, SlotsBehind
  <2>2. \A side \in Sides : slot[side].exec \in Nat
    BY PartTypes
  <2>3. \A side \in Sides : slot[side].cid = e.cid => slot[side].exec + e.qty <= e.acc
    BY <1>1, <1>2, <2>1, <2>2
  <2> QED BY <1>6, <2>3 DEF Ledger, Accounts, SlotsBeforeEvents
<1>14. EventsInOrder'
  <2>1. \A i \in 1..Len(feed) : feed[i].cid = e.cid => feed[i].acc + e.qty <= e.acc
    <3>1. \A i \in 1..Len(feed) : feed[i].cid = o.cid => feed[i].acc <= Qty - o.rem
      BY DEF Ledger, Accounts, EventsBehind
    <3>2. \A i \in 1..Len(feed) : feed[i].acc \in Nat
      BY PartTypes
    <3> SUFFICES ASSUME NEW i \in 1..Len(feed), feed[i].cid = e.cid
                 PROVE feed[i].acc + e.qty <= e.acc
      OBVIOUS
    <3>3. feed[i].acc <= Qty - o.rem /\ feed[i].acc \in Nat
      BY <1>2, <3>1, <3>2
    <3>4. feed[i].acc + q <= Qty - o.rem + q
      BY <1>1, <3>3
    <3> QED BY <1>2, <3>4
  <2> QED BY <1>2, <2>1, EmitInOrder DEF Ledger, Accounts
<1> QED BY <1>8, <1>9, <1>10, <1>11, <1>12, <1>13, <1>14 DEF Ledger, Accounts

(* What inject_fill does to the executed quantity of a slot. *)
LEMMA BookExec ==
  ASSUME NEW s \in Slots, NEW e \in Events
  PROVE /\ Book(s, e).cid = s.cid
        /\ Book(s, e).exec = s.exec \/ (s.cid = e.cid /\ Book(s, e).exec = s.exec + e.qty)
<1>1. CASE s.active /\ s.cid = e.cid
  BY <1>1 DEF Book, Slots
<1>2. CASE ~(s.active /\ s.cid = e.cid)
  BY <1>2 DEF Book
<1> QED BY <1>1, <1>2

(* inject_fill consumes the first event. *)
LEMMA LedgerBook ==
  ASSUME TypeOK, TypeOK', Ledger, op.at # "submit", InjectFill
  PROVE Ledger'
<1> DEFINE e == feed[1]
<1>1. /\ feed \in Seq(Events) /\ feed # <<>> /\ feed' = Tail(feed)
      /\ slot' = [side \in Sides |-> Book(slot[side], e)]
      /\ UNCHANGED <<live, nextCid, op>>
  BY DEF InjectFill, TypeOK
<1>2. /\ Len(feed) \in Nat \ {0} /\ Len(feed') = Len(feed) - 1
      /\ \A i \in 1..Len(feed') : i + 1 \in 1..Len(feed) /\ feed'[i] = feed[i + 1]
      /\ e \in Events
  BY <1>1
<1>3. \A side \in Sides :
        /\ slot'[side].cid = slot[side].cid
        /\ \/ slot'[side].exec = slot[side].exec
           \/ slot[side].cid = e.cid /\ slot'[side].exec = slot[side].exec + e.qty
  BY <1>1, <1>2, BookExec DEF TypeOK
<1>4. /\ \A side \in Sides : slot[side].exec \in Nat
      /\ \A i \in 1..Len(feed) : feed[i].acc \in Nat /\ feed[i].qty \in Nat
  BY PartTypes
<1>5. \A side \in Sides : slot[side].cid = e.cid => slot[side].exec + e.qty <= e.acc
  BY <1>2 DEF Ledger, Accounts, SlotsBeforeEvents
<1>6. Numbered'
  BY <1>1, <1>2, <1>3 DEF Ledger, Numbered
<1>7. Unknown'
  BY <1>1 DEF Unknown
<1>8. OneOrder' /\ EventsBehind'
  BY <1>1, <1>2 DEF Ledger, Accounts, OneOrder, EventsBehind
<1>9. EventsInOrder'
  <2>1. \A i, j \in 1..Len(feed') : i < j => i + 1 < j + 1
    BY <1>2
  <2> QED BY <1>2, <2>1 DEF Ledger, Accounts, EventsInOrder
<1>10. SlotsBehind'
  <2>1. \A o \in live : e.cid = o.cid => e.acc <= Qty - o.rem
    BY <1>2 DEF Ledger, Accounts, EventsBehind
  <2>2. \A o \in live : o.rem \in Nat
    BY PartTypes
  <2>3. e.acc \in Nat /\ e.qty \in Nat /\ Qty \in Nat
    BY <1>2, <1>4, ExchangeAssumption
  <2> HIDE DEF e
  <2> QED BY <1>1, <1>3, <1>4, <1>5, <2>1, <2>2, <2>3 DEF Ledger, Accounts, SlotsBehind
<1>11. SlotsBeforeEvents'
  <2>1. \A i \in 1..Len(feed') : feed'[i].cid = e.cid => e.acc + feed'[i].qty <= feed'[i].acc
    <3>1. \A i \in 1..Len(feed') : 1 < i + 1 /\ 1 \in 1..Len(feed)
      BY <1>2
    <3> QED BY <1>2, <3>1 DEF Ledger, Accounts, EventsInOrder
  <2>2. \A i \in 1..Len(feed') : \A side \in Sides :
          slot[side].cid = feed'[i].cid => slot[side].exec + feed'[i].qty <= feed'[i].acc
    BY <1>2 DEF Ledger, Accounts, SlotsBeforeEvents
  <2>3. \A i \in 1..Len(feed') : feed'[i].acc \in Nat /\ feed'[i].qty \in Nat
    BY <1>2, <1>4
  <2>4. e.acc \in Nat /\ e.qty \in Nat
    BY <1>2, <1>4
  <2> HIDE DEF e
  <2> SUFFICES ASSUME NEW i \in 1..Len(feed'), NEW side \in Sides,
                      slot'[side].cid = feed'[i].cid
               PROVE slot'[side].exec + feed'[i].qty <= feed'[i].acc
    BY DEF SlotsBeforeEvents
  <2>5. slot[side].cid = feed'[i].cid /\ slot[side].exec \in Nat
    BY <1>3, <1>4
  <2>6. CASE slot'[side].exec = slot[side].exec
    BY <2>2, <2>5, <2>6
  <2>7. CASE slot[side].cid = e.cid /\ slot'[side].exec = slot[side].exec + e.qty
    <3>1. slot'[side].exec <= e.acc
      BY <1>5, <2>7
    <3>2. e.acc + feed'[i].qty <= feed'[i].acc
      BY <2>1, <2>5, <2>7
    <3>3. feed'[i].acc \in Nat /\ feed'[i].qty \in Nat /\ slot'[side].exec \in Nat
      BY <2>3, <2>4, <2>5, <2>7
    <3> HIDE DEF e
    <3> QED BY <2>4, <3>1, <3>2, <3>3
  <2> QED BY <1>3, <2>6, <2>7
<1> QED BY <1>6, <1>7, <1>8, <1>9, <1>10, <1>11 DEF Ledger, Accounts

(* Moving a slot to another state keeps its order. *)
LEMMA KeepOrder ==
  ASSUME NEW s \in Slots, NEW to
  PROVE /\ Moved(s, to).cid = s.cid /\ Moved(s, to).exec = s.exec
        /\ Moved(s, to).active = s.active /\ Moved(s, to).state = Transition(s.state, to)
        /\ Retired(s, to).cid = s.cid /\ Retired(s, to).exec = s.exec
        /\ Retired(s, to).state = Transition(s.state, to)
        /\ Abandoned(s).cid = s.cid /\ Abandoned(s).exec = s.exec
        /\ Abandoned(s).state = s.state
  BY DEF Moved, Retired, Abandoned, Slots

LEMMA SetSameOrder ==
  ASSUME TypeOK, NEW s, SetSlot(s), s.cid = slot[op.side].cid, s.exec = slot[op.side].exec
  PROVE SameOrders
  BY SetSlotAt DEF SameOrders

LEMMA FreshFacts ==
  TypeOK => /\ Fresh \in Slots /\ Fresh.cid = nextCid /\ Fresh.exec = 0
            /\ Fresh.state = "SUBMITTED" /\ Fresh.active
  BY TransitionTable DEF Fresh, Slots, OrderStates, TypeOK

LEMMA LedgerStep == TypeOK /\ Discipline /\ Ledger /\ [Next]_vars => Ledger'
<1> SUFFICES ASSUME TypeOK, Discipline, Ledger, [Next]_vars PROVE Ledger'
  OBVIOUS
<1>0. /\ TypeOK' /\ op \in Ops /\ op.side \in Sides /\ slot[op.side] \in Slots
      /\ Shape /\ nextCid \in Nat
  BY TypeOKStep DEF TypeOK, Ops, Discipline
(* Steps that add no order and no event and leave the slots' orders. *)
<1>1. ASSUME live' \subseteq live, UNCHANGED <<feed, slot>>,
             nextCid' = nextCid \/ nextCid' = nextCid + 1, op'.at = "submit" => op' = op
      PROVE Ledger'
  <2>1. SameOrders /\ nextCid' >= nextCid /\ UNCHANGED feed
    BY <1>0, <1>1 DEF SameOrders
  <2> QED BY <1>0, <1>1, <2>1, LedgerFrame
<1>2. ASSUME NEW s, SetSlot(s), s.cid = slot[op.side].cid, s.exec = slot[op.side].exec,
             live' \subseteq live, UNCHANGED <<feed, nextCid>>, op'.at # "submit"
      PROVE Ledger'
  <2>1. SameOrders /\ nextCid' >= nextCid /\ UNCHANGED feed
    BY <1>0, <1>2, SetSameOrder
  <2> QED BY <1>0, <1>2, <2>1, LedgerFrame
<1>3. CASE EmitQuote \/ TakeQuote \/ ApplyFill \/ ClaimHalt \/ Trip \/ Stop \/ UNCHANGED vars
  BY <1>1, <1>3 DEF EmitQuote, TakeQuote, ApplyFill, ClaimHalt, Trip, Stop, vars, omVars,
                    exchangeVars
<1>4. CASE BeginRequote \/ BeginHalt \/ BeginShutdown
  <2>1. op'.at = "side"
    BY <1>4, EnterMoves DEF BeginRequote, BeginHalt, BeginShutdown
  <2> QED BY <1>1, <1>4, <2>1 DEF BeginRequote, BeginHalt, BeginShutdown, exchangeVars
<1>5. CASE Requote \/ CancelOrSkip
  <2>1. op.who \in {"quote", "halt", "shutdown"}
        /\ (AfterSide \/ Goto("cancel") \/ Goto("place"))
    BY <1>5 DEF Requote, CancelOrSkip
  <2>2. op'.at # "submit"
    BY <1>0, <2>1, AfterSideMoves, GotoMoves
  <2> QED BY <1>1, <1>5, <2>2 DEF Requote, CancelOrSkip, exchangeVars
<1>6. CASE PlaceNew
  <2>1. op.at = "place" /\ op.who = "quote" /\ nextCid' = nextCid + 1 /\ UNCHANGED <<live, feed>>
    BY <1>0, <1>6 DEF PlaceNew, Shape, exchangeVars
  <2>2. CASE SetSlot(Fresh) /\ Goto("submit")
    <3>1. op'.side = op.side
      BY <1>0, <2>2, GotoMoves
    <3> QED BY <1>0, <2>1, <2>2, <3>1, FreshFacts, LedgerPlace
  <2>3. CASE SetSlot(Moved(Fresh, "REJECTED")) /\ AfterSide
    <3>1. op'.at # "submit"
      BY <1>0, <2>1, <2>3, AfterSideMoves
    <3>2. /\ Moved(Fresh, "REJECTED") \in Slots /\ Moved(Fresh, "REJECTED").cid = nextCid
          /\ Moved(Fresh, "REJECTED").exec = 0
      BY FreshFacts, KeepOrder, MovedType DEF OrderStates
    <3> QED BY <1>0, <2>1, <2>3, <3>1, <3>2, LedgerPlace
  <2> QED BY <1>6, <2>2, <2>3 DEF PlaceNew
<1>7. CASE Submit
  <2>1. op.at = "submit" /\ op.who = "quote" /\ AfterSide /\ UNCHANGED <<feed, nextCid>>
    BY <1>0, <1>7 DEF Submit, Shape
  <2>2. op'.at # "submit"
    BY <1>0, <2>1, AfterSideMoves
  <2>3. /\ SetSlot(Moved(slot[op.side], "REJECTED")) \/ SetSlot(Moved(slot[op.side], "ACKNOWLEDGED"))
        /\ live' = live \/ live' = Accepted(slot[op.side].cid, op.side)
    BY <1>7 DEF Submit
  <2>4. SameOrders
    BY <1>0, <2>3, KeepOrder, SetSameOrder
  <2>5. CASE live' = live
    <3>1. live' \subseteq live /\ nextCid' >= nextCid /\ UNCHANGED feed
      BY <1>0, <2>1, <2>5
    <3> QED BY <1>0, <2>2, <2>4, <3>1, LedgerFrame
  <2>6. CASE live' = Accepted(slot[op.side].cid, op.side)
    BY <1>0, <2>1, <2>2, <2>4, <2>6, LedgerAccept
  <2> QED BY <2>3, <2>5, <2>6
<1>8. CASE CancelOk
  <2>1. /\ op.at = "cancel" /\ op.who \in {"quote", "halt", "shutdown"} /\ AfterCancel
        /\ SetSlot(Retired(slot[op.side], "CANCELED")) /\ live' = Without(slot[op.side].cid)
        /\ UNCHANGED <<feed, nextCid>>
    BY <1>0, <1>8 DEF CancelOk, Shape
  <2>2. op'.at # "submit"
    <3>1. AfterSide \/ Goto("place")
      BY <2>1 DEF AfterCancel, AfterSide, Goto, Leave
    <3> QED BY <1>0, <2>1, <3>1, AfterSideMoves, GotoMoves
  <2>3. live' \subseteq live
    BY <2>1 DEF Without
  <2> QED BY <1>0, <1>2, <2>1, <2>2, <2>3, KeepOrder
<1>9. CASE CancelRetry
  <2>1. op' = [op EXCEPT !.tries = op.tries + 1] /\ op.at = "cancel"
        /\ live' \in {live, Without(slot[op.side].cid)} /\ UNCHANGED <<feed, slot, nextCid>>
    BY <1>9 DEF CancelRetry
  <2>2. op'.at # "submit" /\ live' \subseteq live
    BY <1>0, <2>1 DEF Ops, Without
  <2> QED BY <1>1, <2>1, <2>2
<1>10. CASE CancelGiveUp
  <2>1. /\ op.at = "cancel" /\ op.who \in {"quote", "halt", "shutdown"} /\ AfterSide
        /\ SetSlot(Abandoned(slot[op.side]))
        /\ live' \in {live, Without(slot[op.side].cid)} /\ UNCHANGED <<feed, nextCid>>
    BY <1>0, <1>10 DEF CancelGiveUp, Shape
  <2>2. op'.at # "submit"
    BY <1>0, <2>1, AfterSideMoves
  <2>3. live' \subseteq live
    BY <2>1 DEF Without
  <2> QED BY <1>0, <1>2, <2>1, <2>2, <2>3, KeepOrder
<1>11. CASE SizeFlatten
  <2>1. \E n : op' = [op EXCEPT !.at = "flatten", !.est = n]
    BY <1>11 DEF SizeFlatten
  <2>2. op'.at # "submit"
    BY <1>0, <2>1 DEF Ops
  <2> QED BY <1>1, <1>11, <2>2 DEF SizeFlatten
<1>12. CASE FlattenAndLeave
  <2>1. op'.at # "submit" /\ UNCHANGED slot
    BY <1>12, LeaveMoves DEF FlattenAndLeave
  <2>2. CASE Abs(op.est) > FlattenThreshold /\ Flatten(nextCid, op.est) /\ nextCid' = nextCid + 1
    <3>1. op.est \in Int \ {0}
      BY <1>0, <2>2, OrderManagerAssumption DEF Ops, Abs
    <3> QED BY <1>0, <2>1, <2>2, <3>1, LedgerFlatten
  <2>3. CASE UNCHANGED <<live, feed>> /\ (nextCid' = nextCid + 1 \/ nextCid' = nextCid)
    BY <1>1, <2>1, <2>3
  <2> QED BY <1>12, <2>2, <2>3 DEF FlattenAndLeave, exchangeVars
<1>13. CASE ReconcileQuery
  <2>1. op'.at = "compare"
    BY <1>13 DEF ReconcileQuery, Idle
  <2>2. op'.at # "submit"
    BY <2>1
  <2> QED BY <1>1, <1>13, <2>2 DEF ReconcileQuery, exchangeVars
<1>14. CASE ReconcileCompare
  <2>1. op'.at # "submit"
    BY <1>14, LeaveMoves DEF ReconcileCompare
  <2> QED BY <1>1, <1>14, <2>1 DEF ReconcileCompare, exchangeVars
<1>15. CASE InjectFill
  <2>1. op.at # "submit"
    BY <1>0, <1>15 DEF InjectFill, Unlocked, Shape
  <2> QED BY <1>0, <1>15, <2>1, LedgerBook
<1>16. CASE ExchangeFill
  <2>1. PICK o \in live : \E q \in 1..o.rem : Trade(o, q)
    BY <1>16 DEF ExchangeFill
  <2>2. PICK q \in 1..o.rem : Trade(o, q)
    BY <2>1
  <2>3. UNCHANGED <<slot, nextCid, op>>
    BY <1>16 DEF ExchangeFill, omVars
  <2> QED BY <1>0, <2>2, <2>3, LedgerTrade
<1> QED
  BY <1>3, <1>4, <1>5, <1>6, <1>7, <1>8, <1>9, <1>10, <1>11, <1>12, <1>13, <1>14, <1>15,
     <1>16
  DEF Next, Critical

-----------------------------------------------------------------------------
(* The exchange's book and the slots *)

(* An order whose slot a step leaves alone stays tracked. *)
LEMMA StaysTracked ==
  ASSUME NEW o, TrackedBySlot(o), slot'[o.side] = slot[o.side]
  PROVE TrackedBySlot(o)'
  BY DEF TrackedBySlot

(* A fill of an order that still rests leaves its slot working. *)
LEMMA BookKeepsWorking ==
  ASSUME NEW s \in Slots, NEW e \in Events, s.active,
         s.state \in {"ACKNOWLEDGED", "PARTIALLY_FILLED"},
         s.cid = e.cid => s.exec + e.qty < Qty
  PROVE Book(s, e).active /\ Book(s, e).state \in {"ACKNOWLEDGED", "PARTIALLY_FILLED"}
<1> DEFINE exec == s.exec + e.qty
           full == exec >= Qty
           to == CASE full /\ s.state \in {"ACKNOWLEDGED", "PARTIALLY_FILLED"} -> "FILLED"
                   [] ~full /\ s.state = "ACKNOWLEDGED" -> "PARTIALLY_FILLED"
                   [] OTHER -> s.state
           t == [s EXCEPT !.exec = exec, !.state = Transition(s.state, to),
                          !.active = to # "FILLED"]
<1>1. CASE s.cid = e.cid
  <2>1. Book(s, e) = t
    BY <1>1 DEF Book
  <2>2. ~full
    <3>1. s.exec + e.qty \in Nat /\ Qty \in Nat
      BY ExchangeAssumption DEF Slots, Events
    <3> QED BY <1>1, <3>1
  <2>3. to = "PARTIALLY_FILLED"
    BY <2>2
  <2> HIDE DEF exec, full, to
  <2>4. t.active = (to # "FILLED") /\ t.state = Transition(s.state, to)
    BY DEF Slots
  <2> HIDE DEF t
  <2>5. t.active /\ t.state = "PARTIALLY_FILLED"
    BY <2>3, <2>4, TransitionTable DEF OrderStates
  <2> QED BY <2>1, <2>5
<1>2. CASE s.cid # e.cid
  BY <1>2 DEF Book
<1> QED BY <1>1, <1>2

(* Whatever step is taken, an order that rests afterwards is tracked by its *)
(* slot if it was before, unless the reply to its placement was lost or the *)
(* cancel of a slot was given up.                                           *)
LEMMA TrackedStep ==
  ASSUME TypeOK, Discipline, Ledger, [Next]_vars, ~CancelGiveUp, NEW p \in live',
         \A o \in live : o.cid = p.cid /\ o.side = p.side => TrackedBySlot(o)
  PROVE TrackedBySlot(p)' \/ p.cid \in unanswered'
<1>0. /\ op.side \in Sides /\ slot[op.side] \in Slots
      /\ \A o \in live : o.side \in Sides
      /\ p \in live => TrackedBySlot(p)
  BY DEF TypeOK, Ops, Orders
(* Steps that change no slot and add no order. *)
<1>1. ASSUME live' \subseteq live, UNCHANGED slot
      PROVE TrackedBySlot(p)' \/ p.cid \in unanswered'
  BY <1>0, <1>1, StaysTracked
(* Steps that change a slot that tracks none of the orders left. *)
<1>2. ASSUME p \in live, ~(p.side = op.side /\ TrackedBySlot(p)), NEW s, SetSlot(s)
      PROVE TrackedBySlot(p)' \/ p.cid \in unanswered'
  BY <1>0, <1>2, SetSlotAt, StaysTracked
<1>3. CASE \/ EmitQuote \/ TakeQuote \/ ApplyFill \/ ClaimHalt \/ Trip \/ Stop
           \/ BeginRequote \/ BeginHalt \/ BeginShutdown
  BY <1>1, <1>3 DEF EmitQuote, TakeQuote, ApplyFill, ClaimHalt, Trip, Stop, BeginRequote,
                    BeginHalt, BeginShutdown, exchangeVars
<1>4. CASE \/ Requote \/ CancelOrSkip \/ SizeFlatten \/ ReconcileQuery
           \/ ReconcileCompare \/ UNCHANGED vars
  <2>1. CASE Requote \/ ReconcileQuery
    BY <1>1, <2>1 DEF Requote, ReconcileQuery, exchangeVars
  <2>2. CASE CancelOrSkip \/ SizeFlatten
    BY <1>1, <2>2 DEF CancelOrSkip, SizeFlatten
  <2>3. CASE ReconcileCompare
    BY <1>1, <2>3 DEF ReconcileCompare, exchangeVars
  <2>4. CASE UNCHANGED vars
    BY <1>1, <2>4 DEF vars, omVars, exchangeVars
  <2> QED BY <1>4, <2>1, <2>2, <2>3, <2>4
<1>5. CASE FlattenAndLeave
  <2>1. live' = live /\ UNCHANGED <<slot, unanswered, halted>>
    BY <1>5 DEF FlattenAndLeave, Flatten, exchangeVars
  <2> QED BY <1>1, <2>1
<1>6. CASE PlaceNew
  <2>1. op.at = "place" /\ UNCHANGED <<live, unanswered, halted>>
        /\ (SetSlot(Fresh) \/ SetSlot(Moved(Fresh, "REJECTED")))
    BY <1>6 DEF PlaceNew, exchangeVars
  <2>2. ~Working(slot[op.side])
    BY <2>1 DEF Discipline, InFlightSlots
  <2>3. ~(p.side = op.side /\ TrackedBySlot(p))
    BY <2>2 DEF Working, TrackedBySlot, Terminal
  <2> QED BY <1>2, <2>1, <2>3
<1>7. CASE Submit
  <2>1. op.at = "submit" /\ UNCHANGED halted /\ unanswered \subseteq unanswered'
        /\ (SetSlot(Moved(slot[op.side], "REJECTED")) \/ SetSlot(Moved(slot[op.side], "ACKNOWLEDGED")))
    BY <1>7 DEF Submit
  <2>2. slot[op.side].state = "SUBMITTED" /\ slot[op.side].active
    BY <2>1 DEF Discipline, InFlightSlots
  <2>3. ~(p.side = op.side /\ TrackedBySlot(p))
    BY <2>2 DEF TrackedBySlot
  <2>4. CASE p \in live
    BY <1>2, <2>1, <2>3, <2>4
  <2>5. CASE p \notin live
    <3>1. live' # live /\ (live' = live \/ live' = Accepted(slot[op.side].cid, op.side))
      BY <1>7, <2>5 DEF Submit
    <3>2. p = [cid |-> slot[op.side].cid, side |-> op.side, rem |-> Qty]
      BY <2>5, <3>1 DEF Accepted
    <3>3. p.cid = slot[op.side].cid /\ p.side = op.side
      BY <3>2
    <3>4. \/ SetSlot(Moved(slot[op.side], "ACKNOWLEDGED"))
          \/ slot[op.side].cid \in unanswered'
      BY <1>7, <3>1 DEF Submit
    <3>5. CASE SetSlot(Moved(slot[op.side], "ACKNOWLEDGED"))
      <4>1. /\ Moved(slot[op.side], "ACKNOWLEDGED").cid = p.cid
            /\ Moved(slot[op.side], "ACKNOWLEDGED").active
            /\ Moved(slot[op.side], "ACKNOWLEDGED").state = "ACKNOWLEDGED"
        BY <1>0, <2>2, <3>3, KeepOrder, TransitionTable
      <4>2. slot'[p.side] = Moved(slot[op.side], "ACKNOWLEDGED")
        BY <3>3, <3>5, SetSlotAt
      <4> QED BY <4>1, <4>2 DEF TrackedBySlot
    <3> QED BY <3>3, <3>4, <3>5
  <2> QED BY <2>4, <2>5
<1>8. CASE CancelOk
  <2>1. /\ live' = Without(slot[op.side].cid) /\ UNCHANGED <<halted, unanswered>>
        /\ SetSlot(Retired(slot[op.side], "CANCELED"))
    BY <1>8 DEF CancelOk
  <2>2. p \in live /\ p.cid # slot[op.side].cid
    BY <2>1 DEF Without
  <2>3. ~(p.side = op.side /\ TrackedBySlot(p))
    BY <2>2 DEF TrackedBySlot
  <2> QED BY <1>2, <2>1, <2>2, <2>3
<1>9. CASE CancelRetry
  <2>1. live' \in {live, Without(slot[op.side].cid)} /\ UNCHANGED <<slot, unanswered, halted>>
    BY <1>9 DEF CancelRetry
  <2>2. live' \subseteq live
    BY <2>1 DEF Without
  <2> QED BY <1>1, <2>1, <2>2
<1>11. CASE InjectFill
  <2> DEFINE e == Head(feed)
  <2>1. /\ UNCHANGED <<live, unanswered, halted>> /\ feed # <<>> /\ feed \in Seq(Events)
        /\ slot' = [side \in Sides |-> Book(slot[side], e)]
    BY <1>11 DEF InjectFill, TypeOK
  <2>2. /\ p \in live /\ p.side \in Sides /\ TrackedBySlot(p) /\ slot[p.side] \in Slots
        /\ slot'[p.side] = Book(slot[p.side], e)
    BY <1>0, <2>1 DEF TypeOK
  <2>3. e \in Events /\ e = feed[1] /\ 1 \in 1..Len(feed)
    BY <2>1
  <2> HIDE DEF e
  <2>5. TrackedBySlot(p)'
    <3> DEFINE s == slot[p.side]
    <3>1. s.cid = p.cid /\ s.active /\ s.state \in {"ACKNOWLEDGED", "PARTIALLY_FILLED"}
      BY <2>2 DEF TrackedBySlot
    <3>2. s.cid = e.cid => s.exec + e.qty < Qty
      <4>1. s.cid = e.cid => s.exec + e.qty <= e.acc /\ e.acc <= Qty - p.rem
        BY <2>2, <2>3, <3>1 DEF Ledger, Accounts, SlotsBeforeEvents, EventsBehind
      <4>2. p.rem \in 1..Qty /\ Qty \in Nat /\ s.exec \in Nat /\ e.qty \in Nat /\ e.acc \in Nat
        BY <2>2, <2>3, ExchangeAssumption DEF TypeOK, Orders, Slots, Events
      <4> HIDE DEF s
      <4> QED BY <4>1, <4>2
    <3>3. /\ Book(s, e).active /\ Book(s, e).cid = s.cid
          /\ Book(s, e).state \in {"ACKNOWLEDGED", "PARTIALLY_FILLED"}
      BY <2>2, <2>3, <3>1, <3>2, BookKeepsWorking, BookExec
    <3> QED BY <2>2, <3>1, <3>3 DEF TrackedBySlot
  <2> QED BY <2>5
<1>12. CASE ExchangeFill
  <2>1. PICK o \in live : \E q \in 1..o.rem : Trade(o, q)
    BY <1>12 DEF ExchangeFill
  <2>2. PICK q \in 1..o.rem : Trade(o, q)
    BY <2>1
  <2>3. p \in live \/ p = [o EXCEPT !.rem = o.rem - q]
    BY <2>2 DEF Trade
  <2>4. \E m \in live : m.cid = p.cid /\ m.side = p.side
    BY <2>1, <2>3 DEF TypeOK, Orders
  <2>5. UNCHANGED <<slot, unanswered, halted>>
    BY <1>12 DEF ExchangeFill, omVars
  <2> QED BY <1>0, <2>4, <2>5 DEF TrackedBySlot
<1> QED
  BY <1>3, <1>4, <1>5, <1>6, <1>7, <1>8, <1>9, <1>11, <1>12 DEF Next, Critical

(* A step keeps an order's id and side, the lost replies and a set latch;   *)
(* giving a cancel up sets it.                                              *)
LEMMA WatchFrame ==
  ASSUME TypeOK, [Next]_vars
  PROVE /\ unanswered \subseteq unanswered'
        /\ halted => halted'
        /\ CancelGiveUp => halted'
<1>1. unanswered \subseteq unanswered'
  BY DEF Next, Critical, EmitQuote, TakeQuote, BeginRequote, Requote, PlaceNew, Submit,
         CancelOk, CancelRetry, CancelGiveUp, CancelOrSkip, SizeFlatten, FlattenAndLeave,
         ReconcileCompare, ClaimHalt, BeginHalt, BeginShutdown, ReconcileQuery, InjectFill,
         ApplyFill, ExchangeFill, Trip, Stop, omVars, vars
<1>2. halted => halted'
  BY DEF Next, Critical, EmitQuote, TakeQuote, BeginRequote, Requote, PlaceNew, Submit,
         CancelOk, CancelRetry, CancelGiveUp, Escalate, CancelOrSkip, SizeFlatten,
         FlattenAndLeave, ReconcileCompare, ClaimHalt, BeginHalt, BeginShutdown,
         ReconcileQuery, InjectFill, ApplyFill, ExchangeFill, Trip, Stop, omVars, vars
<1>3. CancelGiveUp => halted'
  BY DEF CancelGiveUp, Escalate
<1> QED BY <1>1, <1>2, <1>3

LEMMA OrphanStep ==
  TypeOK /\ Discipline /\ Ledger /\ NoSilentOrphan /\ [Next]_vars => NoSilentOrphan'
<1> SUFFICES ASSUME TypeOK, Discipline, Ledger, NoSilentOrphan, [Next]_vars,
                    NEW p \in live'
             PROVE TrackedBySlot(p)' \/ p.cid \in unanswered' \/ halted'
  BY DEF NoSilentOrphan
<1>1. CASE \E o \in live : o.cid = p.cid /\ o.side = p.side /\ ~TrackedBySlot(o)
  BY <1>1, WatchFrame DEF NoSilentOrphan
<1>2. CASE \A o \in live : o.cid = p.cid /\ o.side = p.side => TrackedBySlot(o)
  BY <1>2, TrackedStep, WatchFrame
<1> QED BY <1>1, <1>2

-----------------------------------------------------------------------------
(* Theorems *)

LEMMA LedgerHolds == Spec => [](TypeOK /\ Discipline /\ Ledger)
  BY InitTypeOK, InitDiscipline, InitLedger, TypeOKStep, DisciplineStep, LedgerStep, PTL
  DEF Spec

(* The engine never loses an acknowledged order from sight without tripping *)
(* the breaker.                                                             *)
THEOREM NoOrphan == Spec => []NoSilentOrphan
<1>1. Init => NoSilentOrphan
  BY DEF Init, ExchangeInit, NoSilentOrphan
<1> QED
  BY <1>1, InitTypeOK, InitDiscipline, InitLedger, TypeOKStep, DisciplineStep, LedgerStep,
     OrphanStep, PTL
  DEF Spec

(* A step leaves a settled order settled as it is. *)
Final ==
  \A side \in Sides :
    slot[side].state \in Terminal /\ slot'[side].cid = slot[side].cid
      => slot'[side].state = slot[side].state

LEMMA FinalStep == TypeOK /\ Discipline /\ Ledger /\ [Next]_vars => Final
<1> SUFFICES ASSUME TypeOK, Discipline, Ledger, [Next]_vars, NEW side \in Sides,
                    slot[side].state \in Terminal, slot'[side].cid = slot[side].cid
             PROVE slot'[side].state = slot[side].state
  BY DEF Final
<1>0. op.side \in Sides /\ slot[side] \in Slots /\ slot[side].state \in OrderStates
  BY DEF TypeOK, Ops, Slots
<1>1. CASE slot'[side] = slot[side]
  BY <1>1
<1>2. CASE PlaceNew
  <2>1. SetSlot(Fresh) \/ SetSlot(Moved(Fresh, "REJECTED"))
    BY <1>2 DEF PlaceNew
  <2>2. slot[side].cid # nextCid
    BY PartTypes DEF Ledger, Numbered
  <2>3. side # op.side
    BY <2>1, <2>2, SetSlotAt, FreshFacts, KeepOrder
  <2> QED BY <1>1, <2>1, <2>3, SetSlotAt
<1>3. CASE Submit
  <2>1. slot[op.side].state = "SUBMITTED"
        /\ (SetSlot(Moved(slot[op.side], "REJECTED")) \/ SetSlot(Moved(slot[op.side], "ACKNOWLEDGED")))
    BY <1>3 DEF Submit, Discipline, InFlightSlots
  <2>2. side # op.side
    BY <2>1 DEF Terminal
  <2> QED BY <1>1, <2>1, <2>2, SetSlotAt
<1>4. CASE CancelOk
  <2>1. SetSlot(Retired(slot[op.side], "CANCELED"))
    BY <1>4 DEF CancelOk
  <2>2. CASE side = op.side
    <3>1. slot'[side].state = Transition(slot[side].state, "CANCELED")
      BY <1>0, <2>1, <2>2, SetSlotAt, KeepOrder
    <3> QED BY <1>0, <3>1, TransitionFacts DEF OrderStates
  <2>3. CASE side # op.side
    BY <1>1, <2>1, <2>3, SetSlotAt
  <2> QED BY <2>2, <2>3
<1>5. CASE CancelGiveUp
  <2>1. SetSlot(Abandoned(slot[op.side]))
    BY <1>5 DEF CancelGiveUp
  <2>2. CASE side = op.side
    BY <1>0, <2>1, <2>2, SetSlotAt, KeepOrder
  <2>3. CASE side # op.side
    BY <1>1, <2>1, <2>3, SetSlotAt
  <2> QED BY <2>2, <2>3
<1>6. CASE InjectFill
  <2>1. slot'[side] = Book(slot[side], Head(feed)) /\ Head(feed) \in Events
    BY <1>6 DEF InjectFill, TypeOK
  <2>2. slot[side].state \notin InFlight
    BY DEF Terminal, InFlight
  <2> QED BY <1>0, <2>1, <2>2, BookFacts
<1>7. CASE \/ Requote \/ CancelRetry \/ CancelOrSkip \/ SizeFlatten \/ FlattenAndLeave
           \/ ReconcileCompare \/ ReconcileQuery \/ ClaimHalt \/ BeginHalt
           \/ BeginShutdown
  BY <1>1, <1>7 DEF Requote, CancelRetry, CancelOrSkip, SizeFlatten, FlattenAndLeave,
                    ReconcileCompare, ReconcileQuery, ClaimHalt, BeginHalt, BeginShutdown
<1>8. CASE \/ EmitQuote \/ TakeQuote \/ BeginRequote \/ ApplyFill \/ ExchangeFill
           \/ Trip \/ Stop \/ UNCHANGED vars
  BY <1>1, <1>8 DEF EmitQuote, TakeQuote, BeginRequote, ApplyFill, ExchangeFill, Trip,
                    Stop, vars, omVars
<1> QED BY <1>2, <1>3, <1>4, <1>5, <1>6, <1>7, <1>8 DEF Next, Critical

(* A late fill, a cancel or a halt never revives an order that is settled. *)
THEOREM SettledOrdersStay == Spec => TerminalIsFinal
<1>1. TypeOK /\ Discipline /\ Ledger /\ [Next]_vars => [Final]_vars
  BY FinalStep
<1>2. TerminalIsFinal <=> [][Final]_vars
  BY DEF TerminalIsFinal, Final
<1> QED BY <1>1, <1>2, LedgerHolds, PTL DEF Spec

-----------------------------------------------------------------------------
(* What a halt leaves behind: if no call goes wrong, on_halt ends with no   *)
(* order resting and a position that is not worth a market order.           *)

Untouched == faults = 0

(* Without a lost reply or a cancel given up every resting order is the one *)
(* its slot works on, so a side without a working slot has none.            *)
AllTracked == unanswered = {} /\ \A o \in live : TrackedBySlot(o)

(* How far a cancel loop has come: it has been through BID, or through both *)
(* sides.                                                                   *)
Swept(who) ==
  /\ op.who = who /\ op.at \in {"side", "cancel"} /\ op.side = "ASK" => ~Working(slot["BID"])
  /\ op.who = who /\ op.at \in {"query", "flatten"} => \A side \in Sides : ~Working(slot[side])

(* on_halt then reads the position.                                         *)
Progress ==
  /\ Swept("halt")
  /\ op.who = "halt" /\ op.at = "flatten" => op.est = position

(* What it leaves: nothing works, and the position stays small until a      *)
(* shutdown flattens by an inventory of its own.                            *)
Left ==
  watcher = "done" =>
    /\ \A side \in Sides : ~Working(slot[side])
    /\ closing = "no" => Abs(position) <= FlattenThreshold

Cleaned == Untouched => AllTracked /\ Progress /\ Left

-----------------------------------------------------------------------------
(* The parts of a step the invariant depends on *)

(* The number of faults never falls; a step without one loses no reply and  *)
(* gives no cancel up.                                                      *)
LEMMA FaultsGrow == [Next]_vars => faults' = faults \/ Fault
<1> SUFFICES ASSUME [Next]_vars PROVE faults' = faults \/ Fault
  OBVIOUS
<1>1. CASE Critical
  BY <1>1 DEF Critical, Requote, PlaceNew, Submit, CancelOk, CancelRetry, CancelGiveUp,
              CancelOrSkip, SizeFlatten, FlattenAndLeave, ReconcileCompare, Flatten, Emit,
              NoFault, exchangeVars
<1>2. CASE ExchangeFill
  BY <1>2 DEF ExchangeFill, Trade, Emit, NoFault
<1>3. CASE ~Critical /\ ~ExchangeFill
  BY <1>3 DEF Next, EmitQuote, TakeQuote, BeginRequote, ClaimHalt, BeginHalt, BeginShutdown,
              ReconcileQuery, InjectFill, ApplyFill, Trip, Stop, NoFault, exchangeVars, vars
<1> QED BY <1>1, <1>2, <1>3

LEMMA FaultFrame ==
  ASSUME TypeOK, [Next]_vars, faults' = 0
  PROVE faults = 0 /\ ~CancelGiveUp /\ unanswered' = unanswered
<1>1. faults = 0 /\ ~Fault
  BY FaultsGrow DEF Fault, TypeOK
<1>2. ~CancelGiveUp
  BY <1>1 DEF CancelGiveUp
<1>3. unanswered' = unanswered
  BY <1>1 DEF Next, Critical, EmitQuote, TakeQuote, BeginRequote, Requote, PlaceNew, Submit,
         CancelOk, CancelRetry, CancelGiveUp, CancelOrSkip, SizeFlatten, FlattenAndLeave,
         ReconcileCompare, ClaimHalt, BeginHalt, BeginShutdown, ReconcileQuery, InjectFill,
         ApplyFill, ExchangeFill, Trip, Stop, omVars, vars
<1> QED BY <1>1, <1>2, <1>3

(* No fill makes a slot work again. *)
LEMMA BookSettled ==
  ASSUME NEW s \in Slots, NEW e \in Events, ~Working(s), s.state \notin InFlight
  PROVE ~Working(Book(s, e))
<1>1. CASE ~s.active
  BY <1>1 DEF Book
<1>2. CASE s.state \in Terminal
  BY <1>2, BookFacts DEF Working
<1> QED BY <1>1, <1>2 DEF Working

(* A side whose slot does not work stays so while place_new is not at work, *)
(* or is stopped by the breaker.                                            *)
LEMMA StaysSettled ==
  ASSUME TypeOK, Discipline, [Next]_vars, op.at # "submit", halted \/ op.who # "quote",
         NEW side \in Sides, ~Working(slot[side])
  PROVE ~Working(slot'[side])
<1>0. /\ op.side \in Sides /\ slot[op.side] \in Slots /\ slot[side] \in Slots
      /\ slot[side].state \notin InFlight /\ Shape
  BY DEF TypeOK, Ops, Discipline, InFlightSlots
<1>1. ASSUME NEW s, SetSlot(s), ~Working(s) PROVE ~Working(slot'[side])
  <2>1. CASE side = op.side
    BY <1>1, <2>1, SetSlotAt
  <2>2. CASE side # op.side
    BY <1>1, <2>2, SetSlotAt
  <2> QED BY <2>1, <2>2
<1>2. CASE PlaceNew
  <2>1. halted /\ SetSlot(Moved(Fresh, "REJECTED"))
    BY <1>0, <1>2 DEF PlaceNew, BreakerBlocks, Shape
  <2>2. Moved(Fresh, "REJECTED").state = "REJECTED"
    BY FreshFacts, KeepOrder, TransitionTable
  <2> QED BY <1>1, <2>1, <2>2 DEF Working, Terminal
<1>3. CASE CancelOk
  <2>1. SetSlot(Retired(slot[op.side], "CANCELED"))
    BY <1>3 DEF CancelOk
  <2>2. ~Retired(slot[op.side], "CANCELED").active
    BY <1>0 DEF Retired, Slots
  <2> QED BY <1>1, <2>1, <2>2 DEF Working
<1>4. CASE CancelGiveUp
  <2>1. SetSlot(Abandoned(slot[op.side]))
    BY <1>4 DEF CancelGiveUp
  <2>2. ~Abandoned(slot[op.side]).active
    BY <1>0 DEF Abandoned, Slots
  <2> QED BY <1>1, <2>1, <2>2 DEF Working
<1>5. CASE InjectFill
  <2>1. slot'[side] = Book(slot[side], Head(feed)) /\ Head(feed) \in Events
    BY <1>5 DEF InjectFill, TypeOK
  <2> QED BY <1>0, <2>1, BookSettled
<1>6. CASE ~(PlaceNew \/ CancelOk \/ CancelGiveUp \/ InjectFill)
  <2>1. slot' = slot
    BY <1>6 DEF Next, Critical, EmitQuote, TakeQuote, BeginRequote, Requote, Submit,
         CancelRetry, CancelOrSkip, SizeFlatten, FlattenAndLeave, ReconcileCompare, ClaimHalt,
         BeginHalt, BeginShutdown, ReconcileQuery, ApplyFill, ExchangeFill, Trip, Stop,
         omVars, vars
  <2> QED BY <2>1
<1> QED BY <1>2, <1>3, <1>4, <1>5, <1>6

(* Without working slots the exchange has nothing of ours to trade. *)
LEMMA NothingRests ==
  ASSUME TypeOK, AllTracked, \A side \in Sides : ~Working(slot[side])
  PROVE live = {} /\ ~ExchangeFill
<1>1. \A o \in live : o.side \in Sides /\ Working(slot[o.side])
  BY DEF TypeOK, Orders, AllTracked, TrackedBySlot, Working, Terminal
<1> QED BY <1>1 DEF ExchangeFill

(* Apart from a trade, only a flatten moves the position, by what it was    *)
(* sized for.                                                               *)
LEMMA PositionFrame ==
  ASSUME TypeOK, [Next]_vars, ~ExchangeFill, ~FlattenAndLeave
  PROVE position' = position
  BY DEF Next, Critical, EmitQuote, TakeQuote, BeginRequote, Requote, PlaceNew, Submit,
         CancelOk, CancelRetry, CancelGiveUp, CancelOrSkip, SizeFlatten, ReconcileCompare,
         ClaimHalt, BeginHalt, BeginShutdown, ReconcileQuery, InjectFill, ApplyFill, Trip,
         Stop, exchangeVars, vars

LEMMA FlattenMoves ==
  ASSUME TypeOK, NEW cid, NEW net \in Int, Flatten(cid, net)
  PROVE position' = position - net
<1>1. position \in Int
  BY DEF TypeOK
<1>2. CASE net > 0
  BY <1>1, <1>2 DEF Flatten, Sign
<1>3. CASE ~(net > 0)
  BY <1>1, <1>3 DEF Flatten, Sign
<1> QED BY <1>2, <1>3

-----------------------------------------------------------------------------
(* Every step keeps the invariant *)

(* A cancel loop takes a step of its own. *)
LEMMA SweepProgresses ==
  ASSUME NEW who \in {"halt", "shutdown"}, TypeOK, Discipline, Swept(who), [Next]_vars,
         faults' = 0, op.who = who, op' # op
  PROVE  Swept(who)'
<1>0. /\ op \in Ops /\ op.side \in Sides /\ slot[op.side] \in Slots
      /\ op.at \in {"side", "cancel", "query", "flatten"}
  BY DEF TypeOK, Ops, Discipline, Shape
<1>1. /\ faults = 0 /\ ~CancelGiveUp /\ ~Fault
  BY FaultFrame DEF Fault, TypeOK
(* AfterSide, once the slot of the current side does not work. *)
<1>2. ASSUME AfterSide, ~Working(slot'[op.side]),
             \A side \in Sides : ~Working(slot[side]) => ~Working(slot'[side]),
             op.at \in {"side", "cancel"}
      PROVE Swept(who)'
  <2>1. CASE op.side = "BID"
    <3>1. op' = [op EXCEPT !.at = "side", !.side = "ASK", !.tries = 0]
      BY <2>1, <1>2 DEF AfterSide, Goto, Leave
    <3>2. op'.at = "side" /\ op'.side = "ASK"
      BY <1>0, <3>1 DEF Ops
    <3> QED BY <1>2, <2>1, <3>2 DEF Swept
  <2>2. CASE op.side # "BID"
    <3>1. op' = [op EXCEPT !.at = "query", !.tries = 0] /\ op.side = "ASK"
      BY <1>0, <1>2, <2>2 DEF AfterSide, Goto, Leave, Sides
    <3>2. op'.at = "query"
      BY <1>0, <3>1 DEF Ops
    <3>3. \A side \in Sides : ~Working(slot'[side])
      BY <1>2, <3>1 DEF Swept, Sides
    <3> QED BY <3>2, <3>3 DEF Swept
  <2> QED BY <2>1, <2>2
<1>3. \A side \in Sides : ~Working(slot[side]) => ~Working(slot'[side])
  BY <1>0, StaysSettled
<1>4. CASE CancelOrSkip
  <2>1. slot' = slot /\ op.at = "side"
    BY <1>4 DEF CancelOrSkip
  <2>2. CASE Goto("cancel")
    <3>1. op'.at = "cancel" /\ op'.side = op.side
      BY <1>0, <2>2, GotoMoves
    <3> QED BY <2>1, <3>1 DEF Swept
  <2>3. CASE ~Working(slot[op.side]) /\ AfterSide
    BY <1>0, <1>2, <1>3, <2>1, <2>3
  <2> QED BY <1>1, <1>4, <2>2, <2>3 DEF CancelOrSkip
<1>5. CASE CancelOk
  <2>1. /\ op.at = "cancel" /\ AfterCancel /\ SetSlot(Retired(slot[op.side], "CANCELED"))
    BY <1>5 DEF CancelOk
  <2>2. AfterSide
    BY <2>1 DEF AfterCancel, AfterSide, Goto, Leave
  <2>3. ~Working(slot'[op.side])
    <3>1. ~Retired(slot[op.side], "CANCELED").active
      BY <1>0 DEF Retired, Slots
    <3> QED BY <2>1, <3>1, SetSlotAt DEF Working
  <2> QED BY <1>2, <1>3, <2>1, <2>2, <2>3
<1>6. CASE SizeFlatten
  <2>1. op.at = "query" /\ slot' = slot
    BY <1>6 DEF SizeFlatten
  <2>2. op'.at = "flatten"
    <3>1. \E n : op' = [op EXCEPT !.at = "flatten", !.est = n]
      BY <1>6 DEF SizeFlatten
    <3> QED BY <1>0, <3>1 DEF Ops
  <2> QED BY <2>1, <2>2 DEF Swept
<1>7. CASE FlattenAndLeave
  <2>1. op'.who = "none"
    BY <1>7, LeaveMoves DEF FlattenAndLeave
  <2> QED BY <2>1 DEF Swept
<1>8. CASE CancelRetry
  BY <1>1, <1>8 DEF CancelRetry
<1>9. CASE Requote \/ PlaceNew \/ Submit \/ ReconcileCompare
  BY <1>0, <1>9 DEF Requote, PlaceNew, Submit, ReconcileCompare
<1>10. CASE BeginRequote \/ BeginHalt \/ BeginShutdown \/ ReconcileQuery
  BY <1>10 DEF BeginRequote, BeginHalt, BeginShutdown, ReconcileQuery, Unlocked
<1>11. CASE \/ EmitQuote \/ TakeQuote \/ ClaimHalt \/ InjectFill \/ ApplyFill
            \/ ExchangeFill \/ Trip \/ Stop \/ UNCHANGED vars
  BY <1>11 DEF EmitQuote, TakeQuote, ClaimHalt, InjectFill, ApplyFill, ExchangeFill, Trip,
               Stop, omVars, vars
<1> QED
  BY <1>1, <1>4, <1>5, <1>6, <1>7, <1>8, <1>9, <1>10, <1>11 DEF Next, Critical

(* While it waits, no slot it has been through works again. *)
LEMMA SweepStays ==
  ASSUME NEW who \in {"halt", "shutdown"}, TypeOK, Discipline, Swept(who), [Next]_vars,
         op.who = who, op' = op
  PROVE  Swept(who)'
<1>1. op.at # "submit"
  BY DEF Discipline, Shape
<1>2. \A side \in Sides : ~Working(slot[side]) => ~Working(slot'[side])
  BY <1>1, StaysSettled
<1> QED BY <1>2 DEF Swept, Sides

(* on_halt sizes its flatten by the position, which then stays. *)
LEMMA EstimateStep ==
  ASSUME TypeOK, Discipline, AllTracked, Progress, [Next]_vars, faults' = 0,
         op.who = "halt", op'.who = "halt", op'.at = "flatten"
  PROVE  op'.est = position'
<1>0. op \in Ops /\ op.at \in {"side", "cancel", "query", "flatten"}
  BY DEF TypeOK, Ops, Discipline, Shape
<1>1. ~Fault
  BY FaultFrame DEF Fault, TypeOK
<1>2. CASE SizeFlatten
  <2>1. op' = [op EXCEPT !.at = "flatten", !.est = position] /\ position' = position
    BY <1>1, <1>2 DEF SizeFlatten, HaltPosition
  <2> QED BY <1>0, <2>1 DEF Ops
<1>3. CASE ~SizeFlatten
  <2>1. ~FlattenAndLeave
    BY LeaveMoves DEF FlattenAndLeave
  <2>2. op' = op
    <3>1. CASE CancelOrSkip \/ CancelOk
      <4>1. AfterSide \/ Goto("cancel") \/ Goto("place")
        BY <3>1 DEF CancelOrSkip, CancelOk, AfterCancel
      <4> QED BY <1>0, <4>1, AfterSideMoves, GotoMoves
    <3>2. CASE ~(CancelOrSkip \/ CancelOk)
      BY <1>0, <1>1, <1>3, <2>1, <3>2 DEF Next, Critical, EmitQuote, TakeQuote, BeginRequote,
         Requote, PlaceNew, Submit, CancelRetry, CancelGiveUp, ReconcileCompare, ClaimHalt,
         BeginHalt, BeginShutdown, ReconcileQuery, InjectFill, ApplyFill, ExchangeFill, Trip,
         Stop, Unlocked, omVars, vars
    <3> QED BY <3>1, <3>2
  <2>3. position' = position
    BY <2>1, <2>2, NothingRests, PositionFrame DEF Progress, Swept
  <2> QED BY <2>2, <2>3 DEF Progress
<1> QED BY <1>2, <1>3

(* Only the watcher enters the critical section as a halt. *)
LEMMA OnlyBeginHalt ==
  ASSUME TypeOK, Discipline, [Next]_vars, op.who # "halt", ~BeginHalt
  PROVE op'.who # "halt"
<1>0. op \in Ops /\ Shape
  BY DEF TypeOK, Discipline
<1>1. CASE op' = op
  BY <1>1
<1>2. ASSUME AfterSide, op.who \in {"quote", "shutdown"} PROVE op'.who # "halt"
  BY <1>0, <1>2, AfterSideMoves
<1>3. ASSUME NEW at, Goto(at) PROVE op'.who # "halt"
  BY <1>0, <1>3, GotoMoves
<1>4. CASE Requote \/ PlaceNew \/ Submit \/ CancelGiveUp \/ CancelOrSkip
  <2>1. op.who \in {"quote", "shutdown"}
    BY <1>0, <1>4 DEF Requote, PlaceNew, Submit, CancelGiveUp, CancelOrSkip, Shape
  <2>2. AfterSide \/ \E at \in {"cancel", "place", "submit"} : Goto(at)
    BY <1>4 DEF Requote, PlaceNew, Submit, CancelGiveUp, CancelOrSkip
  <2> QED BY <1>2, <1>3, <2>1, <2>2
<1>5. CASE CancelOk
  <2>1. op.who \in {"quote", "shutdown"} /\ AfterCancel
    BY <1>0, <1>5 DEF CancelOk, Shape
  <2>2. AfterSide \/ Goto("place")
    BY <2>1, Zenon DEF AfterCancel
  <2> QED BY <1>2, <1>3, <2>1, <2>2
<1>6. CASE CancelRetry
  <2>1. op' = [op EXCEPT !.tries = op.tries + 1]
    BY <1>6 DEF CancelRetry
  <2> QED BY <1>0, <2>1 DEF Ops
<1>7. CASE SizeFlatten
  <2>1. \E n : op' = [op EXCEPT !.at = "flatten", !.est = n]
    BY <1>7 DEF SizeFlatten
  <2> QED BY <1>0, <2>1 DEF Ops
<1>8. CASE FlattenAndLeave \/ ReconcileCompare
  BY <1>8, LeaveMoves DEF FlattenAndLeave, ReconcileCompare
<1>9. CASE BeginRequote \/ BeginShutdown
  BY <1>9, EnterMoves DEF BeginRequote, BeginShutdown
<1>10. CASE ReconcileQuery
  <2>1. op'.at = "compare" /\ op'.who = "reconcile"
    BY <1>10 DEF ReconcileQuery, Idle
  <2> QED BY <2>1
<1>11. CASE \/ EmitQuote \/ TakeQuote \/ ClaimHalt \/ InjectFill \/ ApplyFill
            \/ ExchangeFill \/ Trip \/ Stop \/ UNCHANGED vars
  BY <1>1, <1>11 DEF EmitQuote, TakeQuote, ClaimHalt, InjectFill, ApplyFill, ExchangeFill,
                     Trip, Stop, omVars, vars
<1> QED
  BY <1>4, <1>5, <1>6, <1>7, <1>8, <1>9, <1>10, <1>11 DEF Next, Critical

LEMMA ProgressStep ==
  ASSUME TypeOK, Discipline, AllTracked, Progress, [Next]_vars, faults' = 0
  PROVE Progress'
<1>1. CASE op.who = "halt"
  <2>1. Swept("halt")'
    BY <1>1, SweepProgresses, SweepStays DEF Progress
  <2> QED BY <1>1, <2>1, EstimateStep DEF Progress
<1>2. CASE op.who # "halt"
  <2>1. CASE BeginHalt
    <3>1. op'.at = "side" /\ op'.side = "BID"
      BY <2>1 DEF BeginHalt, Enter, Idle
    <3> QED BY <3>1 DEF Progress, Swept
  <2>2. CASE ~BeginHalt
    <3>1. op'.who # "halt"
      BY <1>2, <2>2, OnlyBeginHalt
    <3> QED BY <3>1 DEF Progress, Swept
  <2> QED BY <2>1, <2>2
<1> QED BY <1>1, <1>2

LEMMA LeftStep ==
  ASSUME TypeOK, Discipline, AllTracked, Progress, Left, [Next]_vars, faults' = 0
  PROVE Left'
<1>0. ~Fault /\ position \in Int /\ op.est \in Int /\ FlattenThreshold \in Nat
  BY FaultFrame, OrderManagerAssumption DEF Fault, TypeOK, Ops
<1>1. CASE op.who = "halt" /\ FlattenAndLeave
  <2>1. /\ \A side \in Sides : ~Working(slot[side])
        /\ op.est = position /\ slot' = slot
    BY <1>1 DEF FlattenAndLeave, Progress, Swept
  <2>2. CASE Abs(op.est) > FlattenThreshold /\ Flatten(nextCid, op.est)
    <3>1. position' = 0
      BY <1>0, <2>1, <2>2, FlattenMoves
    <3> QED BY <1>0, <2>1, <3>1 DEF Left, Abs
  <2>3. CASE Abs(op.est) <= FlattenThreshold /\ UNCHANGED exchangeVars
    BY <2>1, <2>3 DEF Left, exchangeVars
  <2> QED BY <1>0, <1>1, <2>2, <2>3 DEF FlattenAndLeave
<1>2. CASE watcher = "done" /\ ~(op.who = "halt" /\ FlattenAndLeave)
  <2>1. halted /\ op.at # "submit" /\ op.who # "halt"
    BY <1>2 DEF Discipline, Halting
  <2>2. \A side \in Sides : ~Working(slot'[side])
    BY <1>2, <2>1, StaysSettled DEF Left
  <2>3. CASE FlattenAndLeave
    <3>1. op.who = "shutdown"
      BY <2>1, <2>3 DEF FlattenAndLeave, Discipline, Shape
    <3>2. closing' = "done"
      BY <2>3, <3>1 DEF FlattenAndLeave
    <3> QED BY <2>2, <3>2 DEF Left
  <2>4. CASE ~FlattenAndLeave
    <3>1. position' = position
      BY <1>2, <2>4, NothingRests, PositionFrame DEF Left
    <3>2. closing' = "no" => closing = "no"
      BY <2>4 DEF Next, Critical, EmitQuote, TakeQuote, BeginRequote, Requote, PlaceNew, Submit,
         CancelOk, CancelRetry, CancelGiveUp, CancelOrSkip, SizeFlatten, ReconcileCompare,
         ClaimHalt, BeginHalt, BeginShutdown, ReconcileQuery, InjectFill, ApplyFill,
         ExchangeFill, Trip, Stop, omVars, vars
    <3> QED BY <1>2, <2>2, <3>1, <3>2 DEF Left
  <2> QED BY <2>3, <2>4
<1>3. CASE watcher # "done" /\ ~(op.who = "halt" /\ FlattenAndLeave)
  <2>1. watcher' # "done"
    BY <1>3 DEF Next, Critical, EmitQuote, TakeQuote, BeginRequote, Requote, PlaceNew, Submit,
         CancelOk, CancelRetry, CancelGiveUp, CancelOrSkip, SizeFlatten, FlattenAndLeave,
         ReconcileCompare, ClaimHalt, BeginHalt, BeginShutdown, ReconcileQuery, InjectFill,
         ApplyFill, ExchangeFill, Trip, Stop, omVars, vars
  <2> QED BY <2>1 DEF Left
<1> QED BY <1>1, <1>2, <1>3

LEMMA CleanedStep == TypeOK /\ Discipline /\ Ledger /\ Cleaned /\ [Next]_vars => Cleaned'
<1> SUFFICES ASSUME TypeOK, Discipline, Ledger, Cleaned, [Next]_vars, faults' = 0
             PROVE AllTracked' /\ Progress' /\ Left'
  BY DEF Cleaned, Untouched
<1>1. faults = 0 /\ ~CancelGiveUp /\ unanswered' = unanswered
  BY FaultFrame
<1>2. AllTracked /\ Progress /\ Left
  BY <1>1 DEF Cleaned, Untouched
<1>3. \A p \in live' : TrackedBySlot(p)'
  BY <1>1, <1>2, TrackedStep DEF AllTracked
<1> QED BY <1>1, <1>2, <1>3, ProgressStep, LeftStep DEF AllTracked

-----------------------------------------------------------------------------
(* If no call goes wrong, on_halt cancels everything it has to and leaves a *)
(* position within the flatten threshold, whatever fills and quotes came in *)
(* between.                                                                 *)
THEOREM HaltLeavesClean == Spec => []HaltCleansUp
<1>1. Init => Cleaned
  BY DEF Init, ExchangeInit, OMInit, Idle, Cleaned, AllTracked, Progress, Swept,
         Left
<1>2. TypeOK /\ Cleaned => HaltCleansUp
  BY NothingRests DEF Cleaned, Untouched, Left, HaltCleansUp
<1> QED
  BY <1>1, <1>2, InitTypeOK, InitDiscipline, InitLedger, TypeOKStep, DisciplineStep,
     LedgerStep, CleanedStep, PTL
  DEF Spec

=============================================================================
