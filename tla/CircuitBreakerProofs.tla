------------------------ MODULE CircuitBreakerProofs ------------------------
(***************************************************************************)
(* Proofs about the CircuitBreaker and the PositionTracker it watches: the *)
(* event queue, whatever the account and the monitor's reads do; the types *)
(* of the account and the monitor; and, where prices are fine enough for   *)
(* every mean entry price to be whole, that calm reads are exact and the   *)
(* alarms they raise true.                                                 *)
(***************************************************************************)
EXTENDS CircuitBreaker, SequenceTheorems, TLAPS

(* The lengths of the queue and the ring are numbers: all that the first    *)
(* reason's way from Trip to the ring depends on.                           *)
Reasons ==
  /\ pending \in Nat /\ events \in Nat
  /\ ReasonKept

LEMMA TripKeepsReasons ==
  ASSUME Reasons, Trip
  PROVE  Reasons'
BY CircuitBreakerAssumption DEF Reasons, ReasonKept, Trip, Queued, CircuitBreakerAssumption

LEMMA LatchKeepsReasons ==
  ASSUME NEW t, NEW condition, Reasons, Latch(t, condition)
  PROVE  Reasons'
<1>1. CASE condition /\ t \notin active
  BY <1>1, TripKeepsReasons DEF Latch
<1>2. CASE ~(condition /\ t \notin active)
  BY <1>2 DEF Latch, eventVars, Reasons, ReasonKept
<1> QED
  BY <1>1, <1>2

(* The queue is taken whole, so publishing loses a reason only if the ring  *)
(* has another already.                                                     *)
LEMMA PublishKeepsReasons ==
  ASSUME Reasons, PublishPending
  PROVE  Reasons'
BY CircuitBreakerAssumption
   DEF Reasons, ReasonKept, PublishPending, Published, Least, CircuitBreakerAssumption

LEMMA StepKeepsReasons ==
  ASSUME Reasons, [BreakerNext]_vars
  PROVE  Reasons'
<1>1. CASE BeginTick \/ Stop \/ Account
  BY <1>1 DEF BeginTick, Stop, Account, breakerVars, eventVars, Reasons, ReasonKept
<1>2. CASE CheckDrawdown
  <2>1. CASE Peak > MinEquity
    BY <1>2, <2>1, LatchKeepsReasons DEF CheckDrawdown
  <2>2. CASE ~(Peak > MinEquity)
    BY <1>2, <2>2 DEF CheckDrawdown, eventVars, Reasons, ReasonKept
  <2> QED
    BY <2>1, <2>2
<1>3. CASE CheckInventory
  BY <1>3, LatchKeepsReasons DEF CheckInventory
<1>4. CASE CheckLoss
  BY <1>4, LatchKeepsReasons DEF CheckLoss
<1>5. CASE CheckRejections
  BY <1>5, LatchKeepsReasons DEF CheckRejections
<1>6. CASE PublishPending
  BY <1>6, PublishKeepsReasons
<1>7. CASE Load /\ UNCHANGED <<breakerVars, highest>>
  BY <1>7 DEF breakerVars, eventVars, Reasons, ReasonKept
<1>8. CASE Notify
  BY <1>8, TripKeepsReasons DEF Notify
<1>9. CASE UNCHANGED vars
  BY <1>9 DEF vars, breakerVars, eventVars, Reasons, ReasonKept
<1> QED
  BY <1>1, <1>2, <1>3, <1>4, <1>5, <1>6, <1>7, <1>8, <1>9 DEF BreakerNext, Monitor

(* The reason of a halt waits in the queue or has reached the event ring,   *)
(* for every capacity of both and every account.                            *)
THEOREM ReasonIsKept == BreakerSpec => []ReasonKept
<1>1. BreakerInit => Reasons
  BY DEF BreakerInit, Reasons, ReasonKept
<1>2. Reasons /\ [BreakerNext]_vars => Reasons'
  BY StepKeepsReasons
<1>3. Reasons => ReasonKept
  BY DEF Reasons
<1> QED
  BY <1>1, <1>2, <1>3, PTL DEF BreakerSpec

-----------------------------------------------------------------------------
(* The arithmetic of a fill *)

(* Naturals are closed under division and multiplication. *)
LEMMA DivType == \A a \in Nat, b \in Nat \ {0} : a \div b \in Nat
  OBVIOUS

LEMMA ProdType == \A a \in Nat, b \in Nat : a * b \in Nat
  OBVIOUS

LEMMA DivExact == \A b \in Nat \ {0}, w \in Int : (w * b) \div b = w
  OBVIOUS

(* A mean of prices is a price. *)
LEMMA MeanType ==
  ASSUME NEW i \in Int, NEW e \in Nat, NEW n \in Int \ {0}, NEW p \in Nat
  PROVE  Mean(i, e, n, p) \in Nat
<1>1. Abs(i) \in Nat /\ Abs(n) \in Nat \ {0}
  BY DEF Abs
<1>2. Abs(i) * e + Abs(n) * p \in Nat /\ Abs(i) + Abs(n) \in Nat \ {0}
  BY <1>1, ProdType
<1> QED BY <1>2, DivType DEF Mean

LEMMA EntryType ==
  ASSUME NEW i \in Int, NEW e \in Nat, NEW n \in Int \ {0}, NEW p \in Nat
  PROVE  Entry(i, e, n, p) \in Nat /\ Gain(i, e, n, p) \in Int
<1>1. Mean(i, e, n, p) \in Nat
  BY MeanType
<1>2. Least(Abs(i), Abs(n)) \in Nat
  BY DEF Least, Abs
<1> QED BY <1>1, <1>2 DEF Entry, Gain

(* A fill leaves the books balanced: what the position cost goes up by what *)
(* the fill cost and by what it gained.                                     *)
LEMMA FillBalances ==
  ASSUME NEW i \in Int, NEW e \in Nat, NEW n \in Int \ {0}, NEW p \in Nat,
         i # 0 /\ SameDirection(i, n) => Mean(i, e, n, p) * (i + n) = i * e + n * p
  PROVE  (i + n) * Entry(i, e, n, p) = i * e + n * p + Gain(i, e, n, p)
<1>1. CASE i = 0
  <2>1. Entry(i, e, n, p) = p /\ Gain(i, e, n, p) = 0
    BY <1>1 DEF Entry, Gain
  <2> QED BY <1>1, <2>1
<1>2. CASE i # 0 /\ SameDirection(i, n)
  <2>1. Entry(i, e, n, p) = Mean(i, e, n, p)
    BY <1>2 DEF Entry
  <2>2. Gain(i, e, n, p) = 0
    BY <1>2 DEF Gain, SameDirection
  <2> QED BY <1>2, <2>1, <2>2, MeanType
<1>3. CASE i # 0 /\ ~SameDirection(i, n)
  <2>1. Abs(i) \in Nat /\ Abs(n) \in Nat
    BY DEF Abs
  <2>2. (IF i > 0 THEN 1 ELSE -1) * Least(Abs(i), Abs(n)) = IF Abs(n) >= Abs(i) THEN i ELSE -n
    BY <1>3 DEF Least, Abs, SameDirection
  <2>3. Gain(i, e, n, p) = (IF Abs(n) >= Abs(i) THEN i ELSE -n) * (p - e)
    BY <1>3, <2>2 DEF Gain
  <2>4. CASE Abs(n) > Abs(i)
    <3>0. i + n # 0
      BY <2>4 DEF Abs
    <3>1. Entry(i, e, n, p) = p
      BY <1>3, <2>1, <2>4, <3>0 DEF Entry
    <3>2. Gain(i, e, n, p) = i * (p - e)
      BY <2>1, <2>3, <2>4
    <3> QED BY <3>1, <3>2
  <2>5. CASE i + n = 0
    <3>1. Abs(n) = Abs(i) /\ n = -i
      BY <2>5 DEF Abs
    <3>2. Entry(i, e, n, p) = 0 /\ Gain(i, e, n, p) = i * (p - e)
      BY <1>3, <2>1, <2>3, <2>5, <3>1 DEF Entry
    <3> QED BY <3>1, <3>2
  <2>6. CASE Abs(n) < Abs(i)
    <3>1. i + n # 0
      BY <2>6 DEF Abs
    <3>2. Entry(i, e, n, p) = e /\ Gain(i, e, n, p) = (-n) * (p - e)
      BY <1>3, <2>1, <2>3, <2>6, <3>1 DEF Entry
    <3> QED BY <3>2
  <2>7. Abs(n) = Abs(i) => i + n = 0
    BY <1>3 DEF Abs, SameDirection
  <2> QED BY <2>1, <2>4, <2>5, <2>6, <2>7
<1> QED BY <1>1, <1>2, <1>3

(* Least and greatest of three numbers, the third often one of the others. *)
LEMMA LowestIsThere ==
  ASSUME NEW a \in Int, NEW b \in Int, NEW c \in Int
  PROVE  Lowest({a, b, c}) \in {a, b, c} /\ \A e \in {a, b, c} : Lowest({a, b, c}) <= e
<1>1. \E e \in {a, b, c} : \A o \in {a, b, c} : e <= o
  <2>1. CASE a <= b /\ a <= c
    BY <2>1
  <2>2. CASE b <= a /\ b <= c
    BY <2>2
  <2>3. CASE c <= a /\ c <= b
    BY <2>3
  <2> QED BY <2>1, <2>2, <2>3
<1> QED BY <1>1 DEF Lowest

LEMMA GreatestIsThere ==
  ASSUME NEW a \in Int, NEW b \in Int, NEW c \in Int
  PROVE  Greatest({a, b, c}) \in {a, b, c} /\ \A e \in {a, b, c} : e <= Greatest({a, b, c})
<1>1. \E e \in {a, b, c} : \A o \in {a, b, c} : o <= e
  <2>1. CASE b <= a /\ c <= a
    BY <2>1
  <2>2. CASE a <= b /\ c <= b
    BY <2>2
  <2>3. CASE a <= c /\ b <= c
    BY <2>3
  <2> QED BY <2>1, <2>2, <2>3
<1> QED BY <1>1 DEF Greatest

-----------------------------------------------------------------------------
(* Types *)

(* What the types need besides themselves: the stores bring the position to *)
(* the lots bought less those sold.                                         *)
AccountTyped ==
  /\ TypeOK
  /\ storing \in {"none", "entry"} => inv = held
  /\ storing # "none" => new.inv = held

(* The two equities a fill under way lies between. *)
Now == cash + held * mid
Before == IF storing = "none" THEN Now
          ELSE cash + new.qty * new.price + (held - new.qty) * mid

LEMMA Products == \A x, y \in Int : x * y \in Int
  OBVIOUS

(* The true equities, before a step and after it. *)
LEMMA TheEquities ==
  ASSUME held \in Int, mid \in Int, cash \in Int, new.qty \in Int, new.price \in Int
  PROVE  TrueEquities = {Now, Before} /\ Now \in Int /\ Before \in Int
<1>1. held - new.qty \in Int
  OBVIOUS
<1>2. held * mid \in Int /\ new.qty * new.price \in Int /\ (held - new.qty) * mid \in Int
  BY <1>1, Products
<1>3. Now \in Int /\ Before \in Int
  BY <1>2 DEF Now, Before
<1> QED BY <1>3 DEF TrueEquities, Now, Before

LEMMA TheEquitiesAfter ==
  ASSUME held' \in Int, mid' \in Int, cash' \in Int, new.qty' \in Int, new.price' \in Int
  PROVE  TrueEquities' = {Now, Before}' /\ Now' \in Int /\ Before' \in Int
<1>1. held' - new.qty' \in Int
  OBVIOUS
<1>2. held' * mid' \in Int /\ new.qty' * new.price' \in Int /\ (held' - new.qty') * mid' \in Int
  BY <1>1, Products
<1>3. Now' \in Int /\ Before' \in Int
  BY <1>2 DEF Now, Before
<1> QED BY <1>3 DEF TrueEquities, Now, Before

(* What a step of another thread does to a call of equity() in progress. *)
LEMMA WitnessedFacts ==
  ASSUME lowest \in Int, calm \in BOOLEAN, Witnessed,
         TrueEquities' = {Now, Before}', Now' \in Int, Before' \in Int
  PROVE  /\ lowest' \in Int /\ calm' \in BOOLEAN /\ lowest' <= lowest
         /\ left = <<>> => lowest' = lowest /\ calm' = calm
         /\ left # <<>> => calm' = FALSE
<1>1. CASE left = <<>>
  BY <1>1 DEF Witnessed
<1>2. CASE left # <<>>
  <2>1. {lowest} \cup TrueEquities' = {lowest, Now', Before'}
    OBVIOUS
  <2>2. lowest' = Lowest({lowest, Now', Before'}) /\ calm' = FALSE
    BY <1>2, <2>1 DEF Witnessed
  <2> QED BY <1>2, <2>2, LowestIsThere
<1> QED BY <1>1, <1>2

LEMMA AccountNumbers ==
  ASSUME AccountTyped
  PROVE  /\ held \in Int /\ mid \in Nat /\ cash \in Int /\ new.qty \in Int /\ new.price \in Nat
         /\ inv \in Int /\ ae \in Nat /\ realized \in Int /\ new.inv \in Int /\ new.ae \in Nat
         /\ new.gain \in Int /\ lowest \in Int /\ calm \in BOOLEAN /\ MaxInv \in Nat
BY PositionTrackerAssumption DEF AccountTyped, TypeOK, PositionTrackerAssumption

(* A step of the fill or the strategy thread. *)
AccountStep ==
  \/ \E n \in Quantities, p \in Prices : ApplyFill(n, p)
  \/ StoreRealized \/ StoreInventory \/ StoreEntry
  \/ \E m \in Prices : UpdateMid(m)

(* The fields such a step writes; the call of equity() is another lemma's.  *)
WriterTyped ==
  /\ inv \in -MaxInv..MaxInv /\ held \in -MaxInv..MaxInv
  /\ ae \in Nat /\ realized \in Int /\ mid \in Prices /\ cash \in Int
  /\ storing \in {"none", "realized", "inventory", "entry"}
  /\ new \in [qty : Int, price : Nat, inv : -MaxInv..MaxInv, ae : Nat, gain : Int]
  /\ fills \in 0..MaxFills
  /\ storing \in {"none", "entry"} => inv = held
  /\ storing # "none" => new.inv = held

LEMMA FillTyped ==
  ASSUME AccountTyped, NEW n \in Quantities, NEW p \in Prices, ApplyFill(n, p)
  PROVE  WriterTyped'
<1>1. /\ MaxInv \in Nat /\ p \in Nat /\ MaxFills \in Nat /\ n \in Int \ {0}
      /\ held \in -MaxInv..MaxInv /\ inv = held /\ ae \in Nat /\ cash \in Int
      /\ fills \in 0..MaxFills /\ fills < MaxFills
  BY PositionTrackerAssumption
     DEF PositionTrackerAssumption, Quantities, AccountTyped, TypeOK, ApplyFill
<1>2. held + n \in -MaxInv..MaxInv
  <2>1. Abs(held + n) <= MaxInv
    BY DEF Quantities
  <2> QED BY <1>1, <2>1 DEF Abs
<1>3. Entry(inv, ae, n, p) \in Nat /\ Gain(inv, ae, n, p) \in Int
  <2>1. inv \in Int
    BY <1>1
  <2> QED BY <1>1, <2>1, EntryType
<1>4. n * p \in Int
  BY <1>1, Products
<1>5. cash - n * p \in Int
  BY <1>1, <1>4
<1>6. new' \in [qty : Int, price : Nat, inv : -MaxInv..MaxInv, ae : Nat, gain : Int]
  BY <1>1, <1>2, <1>3 DEF ApplyFill
<1>7. new'.inv = held'
  BY <1>1 DEF ApplyFill
<1> QED
  BY <1>1, <1>2, <1>5, <1>6, <1>7 DEF WriterTyped, ApplyFill, AccountTyped, TypeOK

LEMMA WriterStep ==
  ASSUME AccountTyped, AccountStep
  PROVE  WriterTyped' /\ Witnessed /\ UNCHANGED readerVars
<1>1. CASE \E n \in Quantities, p \in Prices : ApplyFill(n, p)
  BY <1>1, FillTyped DEF ApplyFill
<1>2. CASE StoreRealized
  BY <1>2 DEF StoreRealized, AccountTyped, TypeOK, WriterTyped
<1>3. CASE StoreInventory
  BY <1>3 DEF StoreInventory, AccountTyped, TypeOK, WriterTyped
<1>4. CASE StoreEntry
  BY <1>4, PositionTrackerAssumption
     DEF StoreEntry, AccountTyped, TypeOK, WriterTyped, NoFill, PositionTrackerAssumption
<1>5. CASE \E m \in Prices : UpdateMid(m)
  BY <1>5 DEF UpdateMid, writerVars, AccountTyped, TypeOK, WriterTyped
<1> QED
  BY <1>1, <1>2, <1>3, <1>4, <1>5 DEF AccountStep

LEMMA AccountStepTyped ==
  ASSUME AccountTyped, AccountStep
  PROVE  /\ AccountTyped'
         /\ TrueEquities' = {Now, Before}' /\ Now' \in Int /\ Before' \in Int
<1>1. WriterTyped' /\ Witnessed /\ UNCHANGED readerVars
  BY WriterStep
<1>2. held' \in Int /\ mid' \in Int /\ cash' \in Int /\ new.qty' \in Int /\ new.price' \in Int
  BY <1>1, PositionTrackerAssumption DEF WriterTyped, PositionTrackerAssumption
<1>3. TrueEquities' = {Now, Before}' /\ Now' \in Int /\ Before' \in Int
  BY <1>2, TheEquitiesAfter
<1>4. lowest' \in Int /\ calm' \in BOOLEAN
  BY <1>1, <1>3, AccountNumbers, WitnessedFacts
<1> QED
  BY <1>1, <1>3, <1>4 DEF AccountTyped, TypeOK, WriterTyped, readerVars

(* The steps of a call of equity() *)

(* Either order loads every field. *)
LEMMA LoadOrders ==
  ASSUME NEW order \in Orders
  PROVE  /\ order \in Seq({"inv", "ae", "realized", "mid"}) /\ Len(order) = 4
         /\ \A field \in {"inv", "ae", "realized", "mid"} : \E i \in 1..4 : order[i] = field
<1> DEFINE Names == {"inv", "ae", "realized", "mid"}
<1>1. <<"realized">> \in Seq(Names) /\ Unrealized \in Seq(Names)
  BY DEF Unrealized
<1>2. Len(<<"realized">>) = 1 /\ Len(Unrealized) = 3
  BY DEF Unrealized
<1>3. Unrealized[1] = "inv" /\ Unrealized[2] = "mid" /\ Unrealized[3] = "ae"
  BY DEF Unrealized
<1>4. CASE order = <<"realized">> \o Unrealized
  <2>1. /\ order \in Seq(Names) /\ Len(order) = 4
        /\ \A i \in 1..4 : order[i] = IF i <= 1 THEN <<"realized">>[i] ELSE Unrealized[i - 1]
    BY <1>1, <1>2, <1>4, ConcatProperties
  <2>2. order[1] = "realized" /\ order[2] = "inv" /\ order[3] = "mid" /\ order[4] = "ae"
    BY <1>3, <2>1
  <2> QED BY <2>1, <2>2
<1>5. CASE order = Unrealized \o <<"realized">>
  <2>0. /\ order \in Seq(Names) /\ Len(order) = Len(Unrealized) + Len(<<"realized">>)
        /\ \A i \in 1..(Len(Unrealized) + Len(<<"realized">>)) :
             order[i] = IF i <= Len(Unrealized) THEN Unrealized[i]
                        ELSE <<"realized">>[i - Len(Unrealized)]
    BY <1>1, <1>5, ConcatProperties, Zenon
  <2>1. /\ order \in Seq(Names) /\ Len(order) = 4
        /\ \A i \in 1..4 : order[i] = IF i <= 3 THEN Unrealized[i] ELSE <<"realized">>[i - 3]
    BY <1>2, <2>0
  <2>2. order[1] = "inv" /\ order[2] = "mid" /\ order[3] = "ae" /\ order[4] = "realized"
    BY <1>3, <2>1
  <2> QED BY <2>1, <2>2
<1> QED BY <1>4, <1>5 DEF Orders

LEMMA BeginTyped ==
  ASSUME AccountTyped, BeginEquity
  PROVE  AccountTyped' /\ lowest' \in TrueEquities
<1>1. TrueEquities = {Now, Before, Before} /\ Now \in Int /\ Before \in Int
  BY AccountNumbers, TheEquities
<1>2. lowest' \in Int /\ lowest' \in TrueEquities
  <2>1. lowest' = Lowest(TrueEquities)
    BY DEF BeginEquity
  <2>2. Lowest({Now, Before, Before}) \in {Now, Before, Before}
    BY <1>1, LowestIsThere
  <2>3. lowest' \in TrueEquities
    BY <1>1, <2>1, <2>2, Zenon
  <2> QED BY <1>1, <2>3
<1>3. left' \in Seq({"inv", "ae", "realized", "mid"})
  BY LoadOrders DEF BeginEquity
<1> QED
  BY <1>2, <1>3 DEF BeginEquity, AccountTyped, TypeOK, writerVars, NothingSeen

LEMMA LoadTyped ==
  ASSUME AccountTyped, Load
  PROVE  AccountTyped'
<1>1. /\ left \in Seq({"inv", "ae", "realized", "mid"}) /\ left # <<>>
  BY DEF AccountTyped, TypeOK, Load
<1>2. Head(left) \in {"inv", "ae", "realized", "mid"}
      /\ left' \in Seq({"inv", "ae", "realized", "mid"})
  BY <1>1, HeadTailProperties DEF Load
<1>3. /\ Fields.inv \in Int /\ Fields.ae \in Nat /\ Fields.realized \in Int /\ Fields.mid \in Nat
  BY AccountNumbers DEF Fields
<1>4. seen' \in [inv : Int, ae : Nat, realized : Int, mid : Nat]
  BY <1>2, <1>3 DEF Load, AccountTyped, TypeOK
<1> QED
  BY <1>2, <1>4 DEF Load, AccountTyped, TypeOK, writerVars

LEMMA EndTyped ==
  ASSUME AccountTyped, EndEquity
  PROVE  AccountTyped'
BY DEF EndEquity, AccountTyped, TypeOK, writerVars, NothingSeen

(* The halt, its queue and its latches *)
AlarmsTyped ==
  /\ halted \in BOOLEAN
  /\ active \subseteq Latched /\ (active # {} => halted)
  /\ pending \in 0..PendingCap /\ events \in 0..RingCap

LEMMA TripTyped ==
  ASSUME AlarmsTyped, Trip
  PROVE  halted' = TRUE /\ pending' \in 0..PendingCap /\ events' \in 0..RingCap
BY CircuitBreakerAssumption DEF CircuitBreakerAssumption, AlarmsTyped, Trip, Queued

LEMMA LatchTyped ==
  ASSUME AlarmsTyped, NEW t \in Latched, NEW condition \in BOOLEAN, Latch(t, condition)
  PROVE  AlarmsTyped'
<1>1. CASE condition /\ t \notin active
  <2>1. active' = active \cup {t}
    BY <1>1 DEF Latch
  <2> QED BY <1>1, <2>1, TripTyped DEF Latch, AlarmsTyped
<1>2. CASE ~(condition /\ t \notin active)
  <2>1. active' \subseteq active
    BY <1>2 DEF Latch
  <2> QED BY <1>2, <2>1 DEF Latch, eventVars, AlarmsTyped
<1> QED BY <1>1, <1>2

LEMMA PublishTyped ==
  ASSUME AlarmsTyped, PublishPending
  PROVE  AlarmsTyped'
<1>1. pending' \in 0..PendingCap /\ events' \in 0..RingCap
  BY CircuitBreakerAssumption
     DEF CircuitBreakerAssumption, AlarmsTyped, PublishPending, Published, Least
<1> QED BY <1>1 DEF AlarmsTyped, PublishPending

(* What the monitor keeps besides the alarms. *)
MonitorTyped ==
  /\ check \in {"asleep", "drawdown", "inventory", "loss", "rejections", "publish", "stopped"}
  /\ peak \in Nat
  /\ openFor \in -1..(MaxUnhedged + 1)
  /\ disturbed \in BOOLEAN /\ skewedDown \in BOOLEAN /\ falseAlarm \in BOOLEAN

Typed == AccountTyped /\ AlarmsTyped /\ MonitorTyped /\ highest \in Nat

LEMMA EquityIsNumber ==
  ASSUME AccountTyped
  PROVE  Equity \in Int
<1>1. /\ seen.inv \in Int /\ seen.mid \in Int /\ seen.ae \in Int /\ seen.realized \in Int
      /\ seen.mid - seen.ae \in Int
  BY DEF AccountTyped, TypeOK
<1>2. seen.inv * (seen.mid - seen.ae) \in Int
  BY <1>1, Products
<1> QED BY <1>1, <1>2 DEF Equity

LEMMA DrawdownTyped ==
  ASSUME Typed, CheckDrawdown
  PROVE  AccountTyped' /\ AlarmsTyped' /\ MonitorTyped' /\ highest' = highest
<1>1. AccountTyped'
  BY EndTyped DEF Typed, CheckDrawdown
<1>2. AlarmsTyped'
  <2>1. CASE Peak > MinEquity
    <3>1. "drawdown" \in Latched /\ FallsTooFar(Peak, Equity) \in BOOLEAN
      BY DEF Latched, FallsTooFar
    <3> QED BY <2>1, <3>1, LatchTyped DEF Typed, CheckDrawdown
  <2>2. CASE ~(Peak > MinEquity)
    BY <2>2 DEF Typed, AlarmsTyped, CheckDrawdown, eventVars
  <2> QED BY <2>1, <2>2
<1>3. Peak \in Nat
  BY EquityIsNumber DEF Typed, MonitorTyped, Peak
<1>4. falseAlarm' \in BOOLEAN
  <2>1. FallsTooFar(highest, lowest) \in BOOLEAN
    BY DEF FallsTooFar
  <2> QED BY <2>1 DEF Typed, MonitorTyped, CheckDrawdown, Blame
<1>5. MonitorTyped'
  BY <1>3, <1>4 DEF Typed, MonitorTyped, CheckDrawdown, EndEquity
<1> QED BY <1>1, <1>2, <1>5 DEF CheckDrawdown

LEMMA InventoryTyped ==
  ASSUME Typed, CheckInventory
  PROVE  AccountTyped' /\ AlarmsTyped' /\ MonitorTyped' /\ highest' = highest
<1>1. AccountTyped'
  BY BeginTyped DEF Typed, CheckInventory
<1>2. openFor' \in -1..(MaxUnhedged + 1)
  BY CircuitBreakerAssumption
     DEF CircuitBreakerAssumption, Typed, MonitorTyped, CheckInventory, PollsOpen
<1>3. AlarmsTyped'
  <2>1. "unhedged" \in Latched /\ (openFor' > MaxUnhedged) \in BOOLEAN
    BY DEF Latched
  <2>2. Latch("unhedged", openFor' > MaxUnhedged)
    BY DEF CheckInventory
  <2>3. PICK late \in BOOLEAN : late = (openFor' > MaxUnhedged)
    BY <2>1
  <2>4. Latch("unhedged", late)
    BY <2>2, <2>3
  <2> QED BY <2>1, <2>4, LatchTyped DEF Typed
<1> QED
  BY <1>1, <1>2, <1>3 DEF Typed, MonitorTyped, CheckInventory, alarmVars

LEMMA LossTyped ==
  ASSUME Typed, CheckLoss
  PROVE  AccountTyped' /\ AlarmsTyped' /\ MonitorTyped' /\ highest' = highest
<1>1. AccountTyped'
  BY EndTyped DEF Typed, CheckLoss
<1>2. AlarmsTyped'
  <2>1. "daily_loss" \in Latched /\ LosesTooMuch(Equity) \in BOOLEAN
    BY DEF Latched, LosesTooMuch
  <2> QED BY <2>1, LatchTyped DEF Typed, CheckLoss
<1>3. falseAlarm' \in BOOLEAN
  <2>1. LosesTooMuch(lowest) \in BOOLEAN
    BY DEF LosesTooMuch
  <2> QED BY <2>1 DEF Typed, MonitorTyped, CheckLoss, Blame
<1>4. MonitorTyped'
  BY <1>3 DEF Typed, MonitorTyped, CheckLoss, EndEquity
<1> QED BY <1>1, <1>2, <1>4 DEF CheckLoss

(* A step of the account leaves the highest equity at least at every true   *)
(* one.                                                                     *)
LEMMA HighestFacts ==
  ASSUME Typed, Account
  PROVE  /\ AccountStep /\ AccountTyped'
         /\ highest' \in Nat /\ highest <= highest'
         /\ \A e \in TrueEquities' : e <= highest'
<1>1. AccountStep /\ AccountTyped /\ highest \in Nat
  BY DEF Account, AccountStep, Typed
<1>2. AccountTyped' /\ TrueEquities' = {Now, Before}' /\ Now' \in Int /\ Before' \in Int
  BY <1>1, AccountStepTyped
<1>3. highest' = Greatest({highest} \cup TrueEquities')
  BY DEF Account
<1>4. {highest} \cup TrueEquities' = {highest, Now', Before'}
  BY <1>2
<1>5. highest' = Greatest({highest, Now', Before'})
  BY <1>3, <1>4, Zenon
<1>6. highest' \in {highest, Now', Before'} /\ \A e \in {highest, Now', Before'} : e <= highest'
  <2>1. PICK a \in Int, b \in Int : a = Now' /\ b = Before'
    BY <1>2
  <2>2. /\ Greatest({highest, a, b}) \in {highest, a, b}
        /\ \A e \in {highest, a, b} : e <= Greatest({highest, a, b})
    <3>1. highest \in Int
      BY <1>1
    <3> QED BY <3>1, GreatestIsThere, Zenon
  <2> QED BY <1>5, <2>1, <2>2
<1> QED BY <1>1, <1>2, <1>6

LEMMA TypedStep ==
  ASSUME Typed, [BreakerNext]_vars
  PROVE  Typed'
<1>1. CASE BeginTick
  BY <1>1, BeginTyped
     DEF BeginTick, Typed, AlarmsTyped, MonitorTyped, eventVars, alarmVars
<1>2. CASE CheckDrawdown
  BY <1>2, DrawdownTyped DEF Typed
<1>3. CASE CheckInventory
  BY <1>3, InventoryTyped DEF Typed
<1>4. CASE CheckLoss
  BY <1>4, LossTyped DEF Typed
<1>5. CASE CheckRejections
  <2>1. PICK tooMany \in BOOLEAN : Latch("consecutive_rejections", tooMany)
    BY <1>5 DEF CheckRejections
  <2>2. AlarmsTyped'
    BY <2>1, LatchTyped DEF Typed, Latched
  <2>3. AccountTyped'
    BY <1>5 DEF CheckRejections, Typed, AccountTyped, TypeOK, trackerVars, writerVars, readerVars
  <2> QED
    BY <1>5, <2>2, <2>3 DEF CheckRejections, Typed, MonitorTyped, alarmVars
<1>6. CASE PublishPending
  <2>1. AlarmsTyped'
    BY <1>6, PublishTyped DEF Typed
  <2>2. AccountTyped'
    BY <1>6 DEF PublishPending, Typed, AccountTyped, TypeOK, trackerVars, writerVars, readerVars
  <2> QED
    BY <1>6, <2>1, <2>2 DEF PublishPending, Typed, MonitorTyped, alarmVars
<1>7. CASE Load /\ UNCHANGED <<breakerVars, highest>>
  BY <1>7, LoadTyped
     DEF Typed, AlarmsTyped, MonitorTyped, breakerVars, monitorVars, eventVars, alarmVars
<1>8. CASE Account
  <2>1. AlarmsTyped' /\ MonitorTyped'
    BY <1>8 DEF Account, Typed, AlarmsTyped, MonitorTyped, breakerVars, monitorVars, eventVars,
                alarmVars
  <2> QED BY <1>8, <2>1, HighestFacts DEF Typed
<1>9. CASE Notify
  <2>1. AlarmsTyped'
    BY <1>9, TripTyped DEF Notify, Typed, AlarmsTyped, monitorVars
  <2>2. AccountTyped'
    BY <1>9 DEF Notify, Typed, AccountTyped, TypeOK, trackerVars, writerVars, readerVars
  <2> QED
    BY <1>9, <2>1, <2>2 DEF Notify, Typed, MonitorTyped, monitorVars, alarmVars
<1>10. CASE Stop \/ UNCHANGED vars
  <2>1. UNCHANGED trackerVars
    BY <1>10 DEF Stop, vars
  <2>2. AccountTyped'
    BY <2>1 DEF Typed, AccountTyped, TypeOK, trackerVars, writerVars, readerVars
  <2> QED
    BY <1>10, <2>2 DEF Stop, Typed, AlarmsTyped, MonitorTyped, vars, breakerVars, monitorVars,
                       eventVars, alarmVars
<1> QED
  BY <1>1, <1>2, <1>3, <1>4, <1>5, <1>6, <1>7, <1>8, <1>9, <1>10 DEF BreakerNext, Monitor

LEMMA TypedInit == BreakerInit => Typed
<1> SUFFICES ASSUME BreakerInit PROVE Typed
  OBVIOUS
<1>1. AccountTyped
  BY PositionTrackerAssumption
     DEF PositionTrackerAssumption, BreakerInit, Init, AccountTyped, TypeOK, NoFill, NothingSeen
<1>2. AlarmsTyped
  <2>1. 0 \in 0..PendingCap /\ 0 \in 0..RingCap
    BY CircuitBreakerAssumption DEF CircuitBreakerAssumption
  <2>2. halted \in BOOLEAN /\ active = {} /\ pending = 0 /\ events = 0
    BY DEF BreakerInit
  <2> QED BY <2>1, <2>2 DEF AlarmsTyped
<1>3. MonitorTyped
  <2>1. -1 \in -1..(MaxUnhedged + 1)
    BY CircuitBreakerAssumption DEF CircuitBreakerAssumption
  <2> QED BY <2>1 DEF BreakerInit, MonitorTyped
<1> QED
  BY <1>1, <1>2, <1>3 DEF BreakerInit, Typed

(* The types of the account and of the monitor, for all values of the       *)
(* constants: every store of a fill leaves a price in the entry price and   *)
(* no more than MaxInv lots, whatever was opened, enlarged or flipped, the  *)
(* queue and the ring stay within their capacities and a latched trigger    *)
(* means a halt.                                                            *)
THEOREM BreakerTypes == BreakerSpec => []BreakerTypeOK
<1>1. Typed => BreakerTypeOK
  BY DEF Typed, AccountTyped, AlarmsTyped, MonitorTyped, BreakerTypeOK
<1> QED
  BY <1>1, TypedInit, TypedStep, PTL DEF BreakerSpec

-----------------------------------------------------------------------------
(* The books *)

Multiples(b) == {x * b : x \in Nat}

(* Prices are multiples of numbers large enough for every mean to be whole, *)
(* as FillAccounting has it: d[k] divides the prices and every entry price  *)
(* that k fills lead to.  Any prices will do for positions of a single lot; *)
(* with more, d[k] = m^(MaxFills - k) and prices that are multiples of d[0] *)
(* for an m that every position divides.                                    *)
FineTicks(d) ==
  /\ d \in [0..MaxFills -> Nat \ {0}]
  /\ \A k \in 0..MaxFills : Prices \subseteq Multiples(d[k])
  /\ \A k \in 1..MaxFills, s \in 1..MaxInv : d[k - 1] \in Multiples(s * d[k])

LEMMA SingleLotsAreFine ==
  ASSUME MaxInv = 1
  PROVE  FineTicks([k \in 0..MaxFills |-> 1])
<1>1. \A p \in Prices : p \in Multiples(1)
  <2>1. \A p \in Nat : p = p * 1
    OBVIOUS
  <2> QED BY <2>1, PositionTrackerAssumption DEF PositionTrackerAssumption, Multiples
<1>2. \A s \in 1..MaxInv : 1 \in Multiples(s * 1)
  <2>1. 1 = 1 * (1 * 1) /\ \A s \in 1..MaxInv : s = 1
    OBVIOUS
  <2> QED BY <2>1 DEF Multiples
<1>3. \A k \in 1..MaxFills : k - 1 \in 0..MaxFills /\ k \in 0..MaxFills
  BY PositionTrackerAssumption DEF PositionTrackerAssumption
<1> QED BY <1>1, <1>2, <1>3 DEF FineTicks

LEMMA MeanIsWhole ==
  ASSUME NEW i \in Int, NEW n \in Int, SameDirection(i, n),
         NEW b \in Nat, NEW c \in Nat, c \in Multiples((Abs(i) + Abs(n)) * b),
         NEW e \in Multiples(c), NEW p \in Multiples(c)
  PROVE  Mean(i, e, n, p) \in Multiples(b) /\ Mean(i, e, n, p) * (i + n) = i * e + n * p
<1> DEFINE s == Abs(i) + Abs(n)
<1>1. Abs(i) \in Nat /\ Abs(n) \in Nat /\ s \in Nat \ {0}
  BY DEF Abs, SameDirection
<1>2. PICK x \in Nat, y \in Nat, z \in Nat : e = x * c /\ p = y * c /\ c = z * (s * b)
  BY DEF Multiples
<1> DEFINE u == Abs(i) * x + Abs(n) * y
           w == (u * z) * b
<1>3. u \in Nat /\ u * z \in Nat /\ w \in Nat /\ s * b \in Nat
  BY <1>1, ProdType
<1>4. Abs(i) * e + Abs(n) * p = w * s
  <2>1. Abs(i) * e + Abs(n) * p = u * c
    BY <1>1, <1>2
  <2>2. u * c = w * s
    <3> HIDE DEF u, s
    <3> QED BY <1>1, <1>2, <1>3
  <2> QED BY <2>1, <2>2
<1>5. Mean(i, e, n, p) = w
  <2>1. Mean(i, e, n, p) = (w * s) \div s
    BY <1>4 DEF Mean
  <2> HIDE DEF w, s
  <2> QED BY <1>1, <1>3, <2>1, DivExact
<1>6. w * (i + n) = i * e + n * p
  <2>1. e \in Int /\ p \in Int /\ w \in Int
    BY <1>2, <1>3, ProdType
  <2> HIDE DEF w
  <2>2. CASE i > 0
    <3>1. Abs(i) = i /\ Abs(n) = n
      BY <2>2 DEF Abs, SameDirection
    <3> QED BY <1>4, <3>1
  <2>3. CASE i < 0
    <3>1. Abs(i) = -i /\ Abs(n) = -n
      BY <2>3 DEF Abs, SameDirection
    <3>2. (-i) * e + (-n) * p = w * (-i - n)
      BY <1>4, <3>1
    <3> QED BY <2>1, <3>2
  <2> QED BY <2>2, <2>3 DEF SameDirection
<1> QED
  BY <1>3, <1>5, <1>6 DEF Multiples

(* The entry price of a position, and what it cost: together with the money *)
(* received they come to the realized P&L, whichever store is under way.    *)
Books(d) ==
  /\ storing = "none" => ae \in Multiples(d[fills]) /\ inv * ae = realized - cash
  /\ storing = "realized" => held * new.ae = realized + new.gain - cash
  /\ storing \in {"inventory", "entry"} => held * new.ae = realized - cash
  /\ storing # "none" => new.ae \in Multiples(d[fills])

LEMMA MultiplesNest ==
  ASSUME NEW s \in Nat, NEW c \in Nat, NEW b \in Multiples(s * c), NEW a \in Multiples(b)
  PROVE  a \in Multiples(c)
<1>1. PICK x \in Nat, y \in Nat : a = x * b /\ b = y * (s * c)
  BY DEF Multiples
<1>2. (x * y) * s \in Nat /\ a = ((x * y) * s) * c
  BY <1>1, ProdType
<1> QED BY <1>2 DEF Multiples

LEMMA FillKeepsBooks ==
  ASSUME NEW d, FineTicks(d), AccountTyped, Books(d),
         NEW n \in Quantities, NEW p \in Prices, ApplyFill(n, p)
  PROVE  Books(d)'
<1>1. /\ storing = "none" /\ fills < MaxFills /\ fills \in 0..MaxFills /\ MaxFills \in Nat
      /\ inv \in Int /\ ae \in Nat /\ n \in Int \ {0} /\ p \in Nat /\ inv = held
      /\ cash \in Int /\ realized \in Int /\ MaxInv \in Nat /\ inv \in -MaxInv..MaxInv
  BY AccountNumbers, PositionTrackerAssumption
     DEF ApplyFill, Quantities, AccountTyped, TypeOK, PositionTrackerAssumption
<1>2. fills + 1 \in 1..MaxFills /\ (fills + 1) - 1 = fills
  BY <1>1
<1>3. /\ d[fills] \in Nat /\ d[fills + 1] \in Nat
      /\ p \in Multiples(d[fills]) /\ p \in Multiples(d[fills + 1])
      /\ \A s \in 1..MaxInv : d[fills] \in Multiples(s * d[fills + 1])
  <2>1. fills \in 0..MaxFills /\ fills + 1 \in 0..MaxFills
    BY <1>1
  <2> QED BY <1>2, <2>1 DEF FineTicks
<1>4. ae \in Multiples(d[fills]) /\ inv * ae = realized - cash
  BY <1>1 DEF Books
<1>5. ASSUME inv # 0, SameDirection(inv, n)
      PROVE  /\ Mean(inv, ae, n, p) \in Multiples(d[fills + 1])
             /\ Mean(inv, ae, n, p) * (inv + n) = inv * ae + n * p
  <2>1. Abs(inv) + Abs(n) \in 1..MaxInv
    <3>1. Abs(inv + n) <= MaxInv
      BY <1>1 DEF Quantities
    <3> QED BY <1>1, <1>5, <3>1 DEF Abs, SameDirection
  <2>2. d[fills] \in Multiples((Abs(inv) + Abs(n)) * d[fills + 1])
    BY <1>3, <2>1
  <2> QED BY <1>1, <1>3, <1>4, <1>5, <2>2, MeanIsWhole
<1>6. Entry(inv, ae, n, p) \in Multiples(d[fills + 1])
  <2>1. 0 \in Multiples(d[fills + 1])
    <3>1. 0 = 0 * d[fills + 1]
      BY <1>3
    <3> QED BY <3>1 DEF Multiples
  <2>2. ASSUME inv # 0 PROVE ae \in Multiples(d[fills + 1])
    <3>1. 1 \in 1..MaxInv
      BY <1>1, <2>2
    <3>2. d[fills] \in Multiples(1 * d[fills + 1])
      BY <1>3, <3>1
    <3> QED BY <1>3, <1>4, <3>2, MultiplesNest
  <2> QED BY <1>3, <1>5, <2>1, <2>2 DEF Entry
<1>7. (inv + n) * Entry(inv, ae, n, p) = inv * ae + n * p + Gain(inv, ae, n, p)
  BY <1>1, <1>5, FillBalances
<1>8. held' * new'.ae = realized' + new'.gain - cash'
  <2>1. /\ held' = inv + n /\ new'.ae = Entry(inv, ae, n, p) /\ new'.gain = Gain(inv, ae, n, p)
        /\ realized' = realized /\ cash' = cash - n * p
    BY <1>1 DEF ApplyFill
  <2>2. n * p \in Int /\ Gain(inv, ae, n, p) \in Int
    BY <1>1, Products, EntryType
  <2>3. held' * new'.ae = (realized - cash) + n * p + Gain(inv, ae, n, p)
    BY <1>4, <1>7, <2>1
  <2>4. \A x, y, g \in Int : \A r \in Int : (r - x) + y + g = r + g - (x - y)
    OBVIOUS
  <2> QED BY <1>1, <2>1, <2>2, <2>3, <2>4
<1>9. storing' = "realized" /\ new'.ae \in Multiples(d[fills'])
  BY <1>6 DEF ApplyFill
<1> QED BY <1>8, <1>9 DEF Books

LEMMA BooksStep ==
  ASSUME NEW d, FineTicks(d), Typed, Books(d), [BreakerNext]_vars
  PROVE  Books(d)'
<1>1. AccountTyped
  BY DEF Typed
<1>2. CASE \E n \in Quantities, p \in Prices : ApplyFill(n, p)
  BY <1>1, <1>2, FillKeepsBooks
<1>3. CASE StoreRealized
  BY <1>3, <1>1, AccountNumbers DEF StoreRealized, Books
<1>4. CASE StoreInventory
  BY <1>4 DEF StoreInventory, Books
<1>5. CASE StoreEntry
  BY <1>5, <1>1 DEF StoreEntry, Books, AccountTyped
<1>6. CASE UNCHANGED writerVars
  BY <1>6 DEF writerVars, Books
<1>7. AccountStep \/ UNCHANGED writerVars
  BY DEF BreakerNext, Monitor, Account, AccountStep, Notify, Stop, BeginTick, CheckDrawdown,
         CheckInventory, CheckLoss, CheckRejections, PublishPending, BeginEquity, EndEquity, Load,
         vars, trackerVars
<1> QED
  BY <1>2, <1>3, <1>4, <1>5, <1>6, <1>7 DEF AccountStep, UpdateMid

-----------------------------------------------------------------------------
(* Reads of the equity *)

FieldNames == {"inv", "ae", "realized", "mid"}
Reading == check \in {"drawdown", "loss"}

(* The monitor calls equity() in two of its checks only; what it has loaded *)
(* in a calm call is what is stored.                                        *)
ReadsWell ==
  /\ ~Reading => left = <<>> /\ seen = NothingSeen
  /\ Reading /\ calm /\ left # <<>> =>
       /\ storing = "none" /\ lowest = Now
       /\ \A field \in FieldNames :
            seen[field] = Fields[field] \/ \E i \in 1..Len(left) : left[i] = field
  /\ Reading /\ calm /\ left = <<>> => Equity = lowest

(* No equity is above the highest, nor is the peak of calm reads, so that   *)
(* an alarm these raise is warranted.                                       *)
BelowHighest ==
  /\ \A e \in TrueEquities : e <= highest
  /\ Reading => lowest <= highest
  /\ ~disturbed => peak <= highest /\ ~falseAlarm

LEMMA BeginReadsWell ==
  ASSUME AccountTyped, BeginEquity, Reading', BelowHighest
  PROVE  ReadsWell' /\ lowest' <= highest
<1>1. left' \in Orders /\ UNCHANGED <<inv, ae, realized, cash, held, mid, storing, new>>
  BY DEF BeginEquity, writerVars
<1>2. Len(left') = 4 /\ \A field \in FieldNames : \E i \in 1..4 : left'[i] = field
  <2>1. PICK order \in Orders : order = left'
    BY <1>1
  <2> QED BY <2>1, LoadOrders DEF FieldNames
<1>3. left' # <<>>
  BY <1>2
<1>4. TrueEquities = {Now, Before} /\ Now \in Int /\ Before \in Int
  BY AccountNumbers, TheEquities
<1>5. storing = "none" => lowest' = Now
  <2>1. ASSUME storing = "none" PROVE lowest' = Now
    <3>1. lowest' = Lowest({Now, Now, Now})
      BY <1>4, <2>1 DEF BeginEquity, Before
    <3> QED BY <1>4, <3>1, LowestIsThere
  <2> QED BY <2>1
<1>6. Now' = Now
  BY <1>1 DEF Now
<1>7. calm' => storing = "none"
  BY DEF BeginEquity
<1>8. ReadsWell'
  BY <1>1, <1>2, <1>3, <1>5, <1>6, <1>7 DEF ReadsWell
<1> QED BY <1>8, BeginTyped DEF BelowHighest

LEMMA LoadReadsWell ==
  ASSUME NEW d, AccountTyped, Books(d), ReadsWell, Load, check' = check
  PROVE  ReadsWell'
<1>1. Reading
  BY DEF Load, ReadsWell
<1>2. /\ UNCHANGED <<inv, ae, realized, cash, held, mid, storing, new, lowest, calm>>
      /\ left # <<>> /\ left' = Tail(left)
      /\ seen' = [seen EXCEPT ![Head(left)] = Fields[Head(left)]]
  BY DEF Load, writerVars
<1>3. /\ left \in Seq(FieldNames) /\ Head(left) \in FieldNames /\ Head(left) = left[1]
      /\ Len(left) \in Nat /\ Len(left') = Len(left) - 1
      /\ \A i \in 1..Len(left') : left'[i] = left[i + 1]
      /\ left' \in Seq(FieldNames)
  BY <1>2, HeadTailProperties DEF AccountTyped, TypeOK, FieldNames
<1>4. Now' = Now /\ Fields' = Fields
  BY <1>2 DEF Now, Fields
<1>5. ASSUME calm
      PROVE  \A field \in FieldNames :
               seen'[field] = Fields[field] \/ \E i \in 1..Len(left') : left'[i] = field
  <2> SUFFICES ASSUME NEW field \in FieldNames, field # Head(left)
               PROVE  seen'[field] = Fields[field] \/ \E i \in 1..Len(left') : left'[i] = field
    BY <1>2 DEF AccountTyped, TypeOK, FieldNames
  <2>1. seen'[field] = seen[field]
    BY <1>2 DEF AccountTyped, TypeOK, FieldNames
  <2>2. CASE seen[field] = Fields[field]
    BY <2>1, <2>2
  <2>3. ASSUME NEW i \in 1..Len(left), left[i] = field
        PROVE  \E j \in 1..Len(left') : left'[j] = field
    <3>1. i # 1
      BY <1>3, <2>3
    <3>2. i - 1 \in 1..Len(left') /\ (i - 1) + 1 = i
      BY <1>3, <3>1
    <3> QED BY <1>3, <2>3, <3>2
  <2> QED BY <1>1, <1>2, <1>5, <2>2, <2>3 DEF ReadsWell
<1>6. ASSUME calm, left' = <<>>
      PROVE  Equity' = lowest
  <2>1. storing = "none" /\ lowest = Now
    BY <1>1, <1>2, <1>6 DEF ReadsWell
  <2>2. \A field \in FieldNames : seen'[field] = Fields[field]
    <3>1. Len(left') = 0
      BY <1>6
    <3> QED BY <1>5, <1>6, <3>1
  <2>3. /\ seen'.inv = inv /\ seen'.ae = ae /\ seen'.realized = realized /\ seen'.mid = mid
    BY <2>2 DEF FieldNames, Fields
  <2>4. inv = held /\ inv * ae = realized - cash
    BY <2>1 DEF AccountTyped, Books
  <2>5. Equity' = realized + inv * (mid - ae)
    <3>1. inv = 0 => inv * (mid - ae) = 0
      BY AccountNumbers
    <3> QED BY <2>3, <3>1, AccountNumbers DEF Equity
  <2>6. inv * (mid - ae) = inv * mid - inv * ae /\ inv * mid \in Int
    BY AccountNumbers, Products
  <2>7. Now = cash + inv * mid
    BY <2>4 DEF Now
  <2> QED BY <2>1, <2>4, <2>5, <2>6, <2>7, AccountNumbers
<1> QED
  BY <1>1, <1>2, <1>4, <1>5, <1>6 DEF ReadsWell, Reading

LEMMA ReadsStep ==
  ASSUME NEW d, Typed, Books(d), ReadsWell, BelowHighest, [BreakerNext]_vars
  PROVE  ReadsWell' /\ (Reading' => lowest' <= highest')
<1>1. AccountTyped
  BY DEF Typed
<1>2. CASE BeginTick \/ CheckInventory
  BY <1>1, <1>2, BeginReadsWell DEF BeginTick, CheckInventory, Reading
<1>3. CASE Load /\ UNCHANGED <<breakerVars, highest>>
  BY <1>1, <1>3, LoadReadsWell DEF Load, breakerVars, monitorVars, BelowHighest, Reading
<1>4. CASE CheckDrawdown \/ CheckLoss
  BY <1>4 DEF CheckDrawdown, CheckLoss, EndEquity, ReadsWell, Reading
<1>5. CASE Account
  <2>1. /\ AccountStep /\ highest <= highest' /\ highest' \in Nat /\ highest \in Nat
        /\ check' = check
    BY <1>5, HighestFacts DEF Account, breakerVars, monitorVars, Typed
  <2>2. Witnessed /\ UNCHANGED readerVars
    BY <1>1, <2>1, WriterStep
  <2>3. /\ lowest' \in Int /\ calm' \in BOOLEAN /\ lowest' <= lowest
        /\ left = <<>> => lowest' = lowest /\ calm' = calm
        /\ left # <<>> => calm' = FALSE
    BY <1>1, <2>1, <2>2, AccountStepTyped, AccountNumbers, WitnessedFacts
  <2>4. Equity' = Equity
    BY <2>2 DEF readerVars, Equity
  <2>5. ReadsWell'
    BY <2>1, <2>2, <2>3, <2>4 DEF readerVars, ReadsWell, Reading
  <2>6. Reading' => lowest' <= highest'
    BY <1>1, <2>1, <2>3, AccountNumbers DEF Reading, BelowHighest
  <2> QED BY <2>5, <2>6
<1>6. CASE UNCHANGED <<trackerVars, highest>> /\ ((~Reading /\ ~Reading') \/ check' = check)
  <2>1. Equity' = Equity /\ Now' = Now /\ Fields' = Fields /\ UNCHANGED readerVars
    BY <1>6 DEF trackerVars, writerVars, readerVars, Equity, Now, Fields
  <2> QED
    BY <1>6, <2>1 DEF trackerVars, writerVars, readerVars, ReadsWell, Reading, BelowHighest
<1>7. CASE CheckRejections \/ PublishPending \/ Stop \/ Notify \/ UNCHANGED vars
  BY <1>6, <1>7 DEF CheckRejections, PublishPending, Stop, Notify, monitorVars, Reading, vars,
                    breakerVars
<1> QED
  BY <1>2, <1>3, <1>4, <1>5, <1>7 DEF BreakerNext, Monitor

(* Of two tops the higher one makes a fall to the same equity the larger.   *)
LEMMA FallsFurther ==
  ASSUME NEW e \in Int, NEW top \in Int, NEW higher \in Int, top <= higher, FallsTooFar(top, e)
  PROVE  FallsTooFar(higher, e)
<1>1. DrawdownPct \in 0..100 /\ MinEquity \in Nat
  BY CircuitBreakerAssumption DEF CircuitBreakerAssumption
<1>2. (100 - DrawdownPct) * (higher - top) \in Nat
  <2>1. 100 - DrawdownPct \in Nat /\ higher - top \in Nat
    BY <1>1
  <2> QED BY <2>1, ProdType
<1>3. (higher - e) * 100 - DrawdownPct * higher
        = ((top - e) * 100 - DrawdownPct * top) + (100 - DrawdownPct) * (higher - top)
  BY <1>1
<1>4. DrawdownPct * higher \in Int /\ DrawdownPct * top \in Int
  BY <1>1, Products
<1>5. (top - e) * 100 > DrawdownPct * top
  BY DEF FallsTooFar
<1>6. (higher - e) * 100 > DrawdownPct * higher
  BY <1>2, <1>3, <1>4, <1>5
<1> QED BY <1>1, <1>6 DEF FallsTooFar

LEMMA DrawdownIsTrue ==
  ASSUME Typed, ReadsWell, BelowHighest, CheckDrawdown, ~disturbed'
  PROVE  peak' <= highest' /\ ~falseAlarm'
<1>1. /\ Reading /\ left = <<>> /\ calm /\ ~disturbed
      /\ peak <= highest /\ ~falseAlarm /\ lowest <= highest
      /\ highest \in Nat /\ peak \in Nat /\ lowest \in Int /\ highest' = highest
  BY AccountNumbers
     DEF CheckDrawdown, EndEquity, Reading, BelowHighest, Typed, MonitorTyped
<1>2. Equity = lowest
  BY <1>1 DEF ReadsWell
<1>3. Peak \in Nat /\ Peak <= highest /\ peak' = Peak
  BY <1>1, <1>2 DEF Peak, CheckDrawdown
<1>4. "drawdown" \in active' \ active => FallsTooFar(Peak, Equity)
  BY DEF CheckDrawdown, Latch
<1>5. FallsTooFar(Peak, Equity) => FallsTooFar(highest, lowest)
  BY <1>1, <1>2, <1>3, FallsFurther
<1> QED
  BY <1>1, <1>3, <1>4, <1>5 DEF CheckDrawdown, Blame

LEMMA LossIsTrue ==
  ASSUME Typed, ReadsWell, BelowHighest, CheckLoss, ~disturbed'
  PROVE  peak' <= highest' /\ ~falseAlarm'
<1>1. /\ Reading /\ left = <<>> /\ calm /\ ~disturbed
      /\ peak <= highest /\ ~falseAlarm /\ highest' = highest /\ peak' = peak
  BY DEF CheckLoss, EndEquity, Reading, BelowHighest, Typed, AccountTyped, TypeOK
<1>2. Equity = lowest
  BY <1>1 DEF ReadsWell
<1>3. "daily_loss" \in active' \ active => LosesTooMuch(Equity)
  BY DEF CheckLoss, Latch
<1> QED
  BY <1>1, <1>2, <1>3 DEF CheckLoss, Blame

LEMMA HighestStep ==
  ASSUME NEW d, Typed, Books(d), ReadsWell, BelowHighest, [BreakerNext]_vars
  PROVE  BelowHighest'
<1>1. Reading' => lowest' <= highest'
  BY ReadsStep
<1>2. CASE Account
  <2>1. /\ highest' \in Nat /\ highest <= highest' /\ \A e \in TrueEquities' : e <= highest'
        /\ peak' = peak /\ disturbed' = disturbed /\ falseAlarm' = falseAlarm
        /\ peak \in Nat /\ highest \in Nat
    BY <1>2, HighestFacts DEF Account, breakerVars, monitorVars, alarmVars, Typed, MonitorTyped
  <2> QED BY <1>1, <2>1 DEF BelowHighest
<1>3. ASSUME UNCHANGED <<writerVars, mid, highest>>
      PROVE  \A e \in TrueEquities' : e <= highest'
  <2>1. TrueEquities' = TrueEquities
    BY <1>3 DEF writerVars, TrueEquities
  <2> QED BY <1>3, <2>1 DEF BelowHighest
<1>4. CASE CheckDrawdown
  BY <1>1, <1>3, <1>4, DrawdownIsTrue DEF CheckDrawdown, EndEquity, BelowHighest
<1>5. CASE CheckLoss
  BY <1>1, <1>3, <1>5, LossIsTrue DEF CheckLoss, EndEquity, BelowHighest
<1>6. CASE /\ UNCHANGED <<writerVars, mid, highest>>
           /\ UNCHANGED <<peak, disturbed, falseAlarm>>
  BY <1>1, <1>3, <1>6 DEF BelowHighest
<1>7. \/ Account \/ CheckDrawdown \/ CheckLoss
      \/ /\ UNCHANGED <<writerVars, mid, highest>>
         /\ UNCHANGED <<peak, disturbed, falseAlarm>>
  BY DEF BreakerNext, Monitor, Notify, Stop, BeginTick, CheckInventory, CheckRejections,
         PublishPending, BeginEquity, Load, vars, trackerVars, breakerVars, monitorVars, alarmVars
<1> QED BY <1>2, <1>4, <1>5, <1>6, <1>7

LEMMA ReadsInit ==
  ASSUME NEW d, FineTicks(d), BreakerInit
  PROVE  Typed /\ Books(d) /\ ReadsWell /\ BelowHighest
<1>1. Typed /\ AccountTyped
  BY TypedInit DEF Typed
<1>2. 0 \in Multiples(d[0])
  <2>1. d[0] \in Nat
    BY PositionTrackerAssumption DEF PositionTrackerAssumption, FineTicks
  <2>2. 0 = 0 * d[0]
    BY <2>1
  <2> QED BY <2>2 DEF Multiples
<1>3. Books(d)
  BY <1>2 DEF BreakerInit, Init, Books
<1>4. ReadsWell
  BY DEF BreakerInit, Init, ReadsWell, Reading
<1>5. TrueEquities = {0}
  <2>1. mid \in Nat /\ 0 * mid = 0
    BY <1>1, AccountNumbers
  <2> QED BY <2>1 DEF BreakerInit, Init, TrueEquities
<1>6. BelowHighest
  BY <1>5 DEF BreakerInit, BelowHighest, Reading
<1> QED BY <1>1, <1>3, <1>4, <1>6

(* A call of equity() that no store disturbed returns the money the account *)
(* has, for every set of prices fine enough for whole means, positions and  *)
(* fills of any size and number, and wherever the monitor's loads fall.     *)
THEOREM CalmReadsAreExact ==
  ASSUME NEW d, FineTicks(d)
  PROVE  BreakerSpec => []CalmReadIsExact
<1> DEFINE Inv == Typed /\ Books(d) /\ ReadsWell /\ BelowHighest
<1>1. BreakerInit => Inv
  BY ReadsInit
<1>2. Inv /\ [BreakerNext]_vars => Inv'
  BY TypedStep, BooksStep, ReadsStep, HighestStep
<1>3. Inv => CalmReadIsExact
  BY DEF ReadsWell, CalmReadIsExact, Returned
<1> QED
  BY <1>1, <1>2, <1>3, PTL DEF BreakerSpec

(* A drawdown or daily-loss halt that calm reads raise is for a loss the    *)
(* account had, for the same prices and every threshold: the peak never     *)
(* runs ahead of what the account was worth.                                *)
THEOREM CalmAlarmsAreTrue ==
  ASSUME NEW d, FineTicks(d)
  PROVE  BreakerSpec => []CalmAlarmIsTrue
<1> DEFINE Inv == Typed /\ Books(d) /\ ReadsWell /\ BelowHighest
<1>1. BreakerInit => Inv
  BY ReadsInit
<1>2. Inv /\ [BreakerNext]_vars => Inv'
  BY TypedStep, BooksStep, ReadsStep, HighestStep
<1>3. Inv => CalmAlarmIsTrue
  BY DEF BelowHighest, CalmAlarmIsTrue
<1> QED
  BY <1>1, <1>2, <1>3, PTL DEF BreakerSpec

=============================================================================
