-------------------------- MODULE PgReporterProofs --------------------------
(***************************************************************************)
(* Theorems about PgReporter.  The transaction of a batch is a recursive   *)
(* function: InsertedFacts says, by induction over its statements, what it *)
(* leaves in the database.  The invariants follow an event through the     *)
(* ring, the current day, the part of the batch not yet written and the    *)
(* database.                                                               *)
(***************************************************************************)
EXTENDS PgReporter, SequenceTheorems, WellFoundedInduction, TLAPS

-----------------------------------------------------------------------------
(* Numbers *)

(* Induction over the natural numbers, for the set of those that have a     *)
(* property.                                                                *)
LEMMA Induction ==
  ASSUME NEW S, 0 \in S, \A n \in Nat : n \in S => n + 1 \in S
  PROVE  Nat \subseteq S
<1> SUFFICES ASSUME Nat \ S # {} PROVE FALSE
  OBVIOUS
<1>1. Nat \ S \subseteq Nat /\ IsWellFoundedOn(OpToRel(<, Nat), Nat)
  BY NatLessThanWellFounded
<1>2. PICK x \in Nat \ S : \A y \in Nat \ S : ~(<<y, x>> \in OpToRel(<, Nat))
  BY <1>1, WFMin
<1>3. x - 1 \in Nat /\ (x - 1) + 1 = x
  OBVIOUS
<1>4. x - 1 \in S
  <2>1. <<x - 1, x>> \in OpToRel(<, Nat)
    BY <1>3 DEF OpToRel
  <2> QED BY <1>2, <1>3, <2>1
<1> QED BY <1>3, <1>4

(* There is a first date. *)
LEMMA FirstDate == \E d \in Dates : \A e \in Dates : d <= e
<1>1. IsWellFoundedOn(OpToRel(<, Nat), Nat) /\ Dates \subseteq Nat /\ Dates # {}
  BY NatLessThanWellFounded, PgReporterAssumption
<1>2. PICK d \in Dates : \A e \in Dates : ~(<<e, d>> \in OpToRel(<, Nat))
  BY <1>1, WFMin
<1>3. ASSUME NEW e \in Dates, e < d PROVE FALSE
  <2>1. <<e, d>> \in OpToRel(<, Nat)
    BY <1>1, <1>3 DEF OpToRel
  <2> QED BY <1>2, <2>1
<1>4. Dates \subseteq Nat /\ d \in Dates
  BY PgReporterAssumption
<1>5. \A e \in Dates : d <= e
  <2> USE <1>3, <1>4
  <2> QED OBVIOUS
<1> QED BY <1>4, <1>5

-----------------------------------------------------------------------------
(* Events *)

Events == Rows \cup Dailies
IsRow(e) == e.kind = "row"
IsOf(e, d) == e.kind = "daily" /\ e.date = d

LEMMA EventKinds ==
  ASSUME NEW e \in Events
  PROVE  \/ e \in Rows /\ e.kind = "row" /\ e.id \in 1..MaxEvents
         \/ e \in Dailies /\ e.kind = "daily" /\ e.date \in Dates /\ e.total \in 0..MaxEvents
  BY DEF Events, Rows, Dailies, Row, Daily

LEMMA NewEvents ==
  /\ \A n \in 1..MaxEvents : Row(n) \in Events /\ Row(n).kind = "row" /\ Row(n).id = n
  /\ \A d \in Dates, t \in 0..MaxEvents :
       /\ Daily(d, t) \in Dailies /\ Daily(d, t).kind = "daily"
       /\ Daily(d, t).date = d /\ Daily(d, t).total = t
  BY DEF Events, Rows, Dailies, Row, Daily

LEMMA DayKinds ==
  /\ NoDay.kind = "none" /\ NoDay \notin Dailies
  /\ \A e \in Dailies : e \in Events /\ e.kind = "daily"
<1>1. NoDay.kind = "none"
  BY DEF NoDay
<1>2. \A e \in Dailies : e.kind = "daily" /\ e \in Events
  BY DEF Events, Dailies, Daily
<1> QED BY <1>1, <1>2

-----------------------------------------------------------------------------
(* Transactions *)

Databases == [rows : Seq(1..MaxEvents), days : [Dates -> 0..NoRow]]
Stored == rows \in Seq(1..MaxEvents) /\ days \in [Dates -> 0..NoRow]
Entries(s) == {s[i] : i \in DOMAIN s}
Ascending(s) == \A i, j \in DOMAIN s : i < j => s[i] < s[j]

(* One statement: a row is appended, or the total of a day replaced. *)
LEMMA ExecutedFacts ==
  ASSUME NEW db \in Databases, NEW e \in Events
  PROVE  /\ Executed(db, e) \in Databases
         /\ IsRow(e) => /\ Executed(db, e).rows = Append(db.rows, e.id)
                        /\ Executed(db, e).days = db.days
         /\ ~IsRow(e) => /\ Executed(db, e).rows = db.rows
                         /\ Executed(db, e).days = [db.days EXCEPT ![e.date] = e.total]
<1>1. db.rows \in Seq(1..MaxEvents) /\ db.days \in [Dates -> 0..NoRow]
  BY DEF Databases
<1>2. CASE IsRow(e)
  <2>1. e.id \in 1..MaxEvents
    BY <1>2, EventKinds DEF IsRow
  <2>2. Append(db.rows, e.id) \in Seq(1..MaxEvents)
    BY <1>1, <2>1
  <2>3. Executed(db, e) = [db EXCEPT !.rows = Append(db.rows, e.id)]
    BY <1>2 DEF Executed, IsRow
  <2> QED BY <1>2, <2>2, <2>3 DEF Databases
<1>3. CASE ~IsRow(e)
  <2>1. e.date \in Dates /\ e.total \in 0..MaxEvents
    BY <1>3, EventKinds DEF IsRow
  <2>2. [db.days EXCEPT ![e.date] = e.total] \in [Dates -> 0..NoRow]
    BY <1>1, <2>1, PgReporterAssumption DEF NoRow
  <2>3. Executed(db, e) = [db EXCEPT !.days = [db.days EXCEPT ![e.date] = e.total]]
    BY <1>3 DEF Executed, IsRow
  <2> QED BY <1>3, <2>2, <2>3 DEF Databases
<1> QED BY <1>2, <1>3

(* The database after each statement of a transaction. *)
Run(s, f) ==
  f = [i \in 0..Len(s) |-> IF i = 0 THEN [rows |-> rows, days |-> days]
                           ELSE Executed(f[i - 1], s[i])]

LEMMA RunExists ==
  ASSUME Stored
  PROVE  \A s \in Seq(Events) : \E f \in [0..Len(s) -> Databases] : Run(s, f)
<1> DEFINE Has(n) == \A s \in Seq(Events) :
                       Len(s) = n => \E f \in [0..n -> Databases] : Run(s, f)
           S == {n \in Nat : Has(n)}
           db0 == [rows |-> rows, days |-> days]
<1>0. db0 \in Databases
  BY DEF Databases, Stored
<1> HIDE DEF db0
<1>1. 0 \in S
  <2>1. ASSUME NEW s \in Seq(Events), Len(s) = 0
        PROVE  \E f \in [0..0 -> Databases] : Run(s, f)
    <3>1. [i \in 0..0 |-> db0] \in [0..0 -> Databases] /\ Run(s, [i \in 0..0 |-> db0])
      BY <1>0, <2>1 DEF Run, db0
    <3> QED BY <3>1
  <2> QED BY <2>1
<1>2. ASSUME NEW n \in Nat, n \in S PROVE n + 1 \in S
  <2>1. ASSUME NEW s \in Seq(Events), Len(s) = n + 1
        PROVE  \E f \in [0..n + 1 -> Databases] : Run(s, f)
    <3> DEFINE t == [i \in 1..n |-> s[i]]
    <3>1. t \in Seq(Events) /\ Len(t) = n /\ (\A i \in 1..n : t[i] = s[i]) /\ s[n + 1] \in Events
      BY <2>1
    <3> HIDE DEF t
    <3>2. PICK f \in [0..n -> Databases] : Run(t, f)
      BY <1>2, <3>1
    <3> DEFINE g == [i \in 0..n + 1 |-> IF i = n + 1 THEN Executed(f[n], s[n + 1]) ELSE f[i]]
    <3>3. Executed(f[n], s[n + 1]) \in Databases
      <4>1. f[n] \in Databases
        BY <3>2
      <4> QED BY <4>1, <3>1, ExecutedFacts
    <3>4. g \in [0..n + 1 -> Databases]
      BY <3>2, <3>3
    <3>5. \A i \in 0..n + 1 : g[i] = IF i = 0 THEN [rows |-> rows, days |-> days]
                                     ELSE Executed(g[i - 1], s[i])
      <4>1. ASSUME NEW i \in 0..n + 1
            PROVE  g[i] = IF i = 0 THEN [rows |-> rows, days |-> days]
                          ELSE Executed(g[i - 1], s[i])
        <5>1. CASE i = n + 1
          BY <5>1
        <5>2. CASE i # n + 1
          <6>1. i \in 0..n /\ g[i] = f[i]
            BY <5>2
          <6>2. f[i] = IF i = 0 THEN [rows |-> rows, days |-> days] ELSE Executed(f[i - 1], t[i])
            BY <6>1, <3>1, <3>2 DEF Run
          <6>3. i # 0 => i - 1 \in 0..n /\ g[i - 1] = f[i - 1] /\ t[i] = s[i]
            BY <6>1, <3>1
          <6> HIDE DEF g
          <6> QED BY <6>1, <6>2, <6>3
        <5> QED BY <5>1, <5>2
      <4> QED BY <4>1
    <3> HIDE DEF g
    <3>6. Run(s, g)
      BY <2>1, <3>4, <3>5 DEF Run
    <3> QED BY <3>4, <3>6
  <2> QED BY <2>1
<1>3. ASSUME NEW s \in Seq(Events) PROVE \E f \in [0..Len(s) -> Databases] : Run(s, f)
  <2>1. Nat \subseteq S
    <3> HIDE DEF S
    <3> QED BY <1>1, <1>2, Induction
  <2> QED BY <2>1, LenProperties
<1> QED BY <1>3

(* A transaction is a run of its statements. *)
LEMMA InsertedIs ==
  ASSUME Stored, NEW s \in Seq(Events)
  PROVE  \E f \in [0..Len(s) -> Databases] :
           /\ f[0] = [rows |-> rows, days |-> days]
           /\ \A l \in Nat : l + 1 <= Len(s) => f[l + 1] = Executed(f[l], s[l + 1])
           /\ Inserted(s) = f[Len(s)]
<1> DEFINE F == CHOOSE f : Run(s, f)
<1>1. PICK f \in [0..Len(s) -> Databases] : Run(s, f)
  BY RunExists
<1>2. Run(s, F)
  BY <1>1
<1>3. Inserted(s) = F[Len(s)]
  BY DEF Inserted, Run
<1>4. \A i \in 0..Len(s) : F[i] = IF i = 0 THEN [rows |-> rows, days |-> days]
                                  ELSE Executed(F[i - 1], s[i])
  <2> HIDE DEF F
  <2> QED BY <1>2 DEF Run
<1>5. DOMAIN F = 0..Len(s)
  <2> HIDE DEF F
  <2> QED BY <1>2 DEF Run
<1> HIDE DEF F
<1>6. F[0] = [rows |-> rows, days |-> days]
  BY <1>4
<1>7. ASSUME NEW l \in Nat, l + 1 <= Len(s) PROVE F[l + 1] = Executed(F[l], s[l + 1])
  <2>1. l + 1 \in 0..Len(s) /\ l + 1 # 0 /\ (l + 1) - 1 = l
    BY <1>7
  <2> QED BY <1>4, <2>1
<1>8. F \in [0..Len(s) -> Databases]
  <2> DEFINE S == {n \in Nat : n <= Len(s) => F[n] \in Databases}
  <2>1. 0 \in S
    BY <1>6 DEF Databases, Stored
  <2>2. ASSUME NEW n \in Nat, n \in S PROVE n + 1 \in S
    <3>1. ASSUME n + 1 <= Len(s) PROVE F[n + 1] \in Databases
      <4>1. F[n] \in Databases /\ s[n + 1] \in Events
        BY <2>2, <3>1
      <4> QED BY <4>1, <3>1, <1>7, ExecutedFacts
    <3> QED BY <3>1
  <2>3. Nat \subseteq S
    <3> HIDE DEF S
    <3> QED BY <2>1, <2>2, Induction
  <2>4. ASSUME NEW i \in 0..Len(s) PROVE F[i] \in Databases
    BY <2>3
  <2>5. F = [i \in 0..Len(s) |-> F[i]]
    BY <1>2, <1>5 DEF Run
  <2> QED BY <2>4, <2>5
<1> QED BY <1>3, <1>6, <1>7, <1>8

-----------------------------------------------------------------------------
(* What a transaction leaves in the database *)

(* e is the last event of s, from its k-th on, that gives the total of day  *)
(* d.                                                                       *)
NoneOf(s, k, d) == \A i \in DOMAIN s : i >= k => ~IsOf(s[i], d)
LastOf(s, k, d, v) ==
  \E i \in DOMAIN s : /\ i >= k /\ IsOf(s[i], d) /\ s[i].total = v
                      /\ \A j \in DOMAIN s : j > i => ~IsOf(s[j], d)

Ascends(s) ==
  \A i, j \in DOMAIN s : i < j /\ IsRow(s[i]) /\ IsRow(s[j]) => s[i].id < s[j].id

(* The statements of s are executed one after another: the rows of s join   *)
(* the table, in order if they come in order and after those there; the row *)
(* of a day has the last total s gives it.                                  *)
LEMMA InsertedFacts ==
  ASSUME Stored, NEW s \in Seq(Events)
  PROVE  /\ Inserted(s) \in Databases
         /\ Entries(Inserted(s).rows) = Entries(rows) \cup Ids(s)
         /\ Ascending(rows) /\ Ascends(s)
              /\ (\A n \in Entries(rows), m \in Ids(s) : n < m)
              => Ascending(Inserted(s).rows)
         /\ \A d \in Dates : NoneOf(s, 1, d) => Inserted(s).days[d] = days[d]
         /\ \A d \in Dates : \A v : LastOf(s, 1, d, v) => Inserted(s).days[d] = v
<1>1. PICK f \in [0..Len(s) -> Databases] :
           /\ f[0] = [rows |-> rows, days |-> days]
           /\ \A l \in Nat : l + 1 <= Len(s) => f[l + 1] = Executed(f[l], s[l + 1])
           /\ Inserted(s) = f[Len(s)]
  BY InsertedIs
<1> DEFINE To(l) == {s[i].id : i \in {j \in 1..l : IsRow(s[j])}}
           Rose == /\ Ascending(rows) /\ Ascends(s)
                   /\ \A n \in Entries(rows), m \in Ids(s) : n < m
           Kept(l) == \A d \in Dates : (\A i \in 1..l : ~IsOf(s[i], d)) => f[l].days[d] = days[d]
           Reset(l) == \A d \in Dates, i \in 1..l :
                         IsOf(s[i], d) /\ (\A j \in 1..l : j > i => ~IsOf(s[j], d))
                           => f[l].days[d] = s[i].total
           Good(l) == /\ Entries(f[l].rows) = Entries(rows) \cup To(l)
                      /\ Rose => Ascending(f[l].rows)
                      /\ Kept(l) /\ Reset(l)
           S == {l \in Nat : l <= Len(s) => Good(l)}
<1>2. 0 \in S
  <2>1. f[0].rows = rows /\ f[0].days = days
    BY <1>1
  <2>2. To(0) = {}
    OBVIOUS
  <2>3. Kept(0) /\ Reset(0)
    BY <2>1
  <2> HIDE DEF To, Kept, Reset
  <2> QED BY <2>1, <2>2, <2>3
<1>3. ASSUME NEW l \in Nat, l \in S PROVE l + 1 \in S
  <2> SUFFICES ASSUME l + 1 <= Len(s) PROVE Good(l + 1)
    OBVIOUS
  <2>1. Good(l) /\ l + 1 \in 1..Len(s) /\ l \in 0..Len(s)
    BY <1>3
  <2> DEFINE e == s[l + 1]
             db == f[l]
             r == db.rows
  <2>2. e \in Events /\ db \in Databases /\ f[l + 1] = Executed(db, e)
    BY <1>1, <2>1
  <2>3. r \in Seq(1..MaxEvents) /\ db.days \in [Dates -> 0..NoRow]
    BY <2>2 DEF Databases
  <2>4. To(l + 1) = IF IsRow(e) THEN To(l) \cup {e.id} ELSE To(l)
    <3>1. 1..l + 1 = (1..l) \cup {l + 1}
      OBVIOUS
    <3> QED BY <3>1
  <2>5. /\ \A d \in Dates : (\A i \in 1..l + 1 : ~IsOf(s[i], d)) =>
                            /\ \A i \in 1..l : ~IsOf(s[i], d)
                            /\ ~IsOf(e, d)
        /\ \A d \in Dates, i \in 1..l + 1 :
              IsOf(s[i], d) /\ (\A j \in 1..l + 1 : j > i => ~IsOf(s[j], d))
                => \/ i = l + 1 /\ IsOf(e, d)
                   \/ i \in 1..l /\ ~IsOf(e, d) /\ (\A j \in 1..l : j > i => ~IsOf(s[j], d))
    OBVIOUS
  <2>6. CASE IsRow(e)
    <3>1. /\ f[l + 1].rows = Append(r, e.id) /\ f[l + 1].days = db.days
          /\ e.id \in 1..MaxEvents
          /\ \A d : ~IsOf(e, d)
      <4>1. e.id \in 1..MaxEvents /\ \A d : ~IsOf(e, d)
        BY <2>2, <2>6, EventKinds DEF IsRow, IsOf
      <4>2. e \in Events /\ db \in Databases /\ IsRow(e)
        BY <2>2, <2>6
      <4> HIDE DEF e, db
      <4>3. /\ Executed(db, e).rows = Append(db.rows, e.id)
            /\ Executed(db, e).days = db.days
        BY <4>2, ExecutedFacts, Zenon
      <4> QED BY <2>2, <4>1, <4>3
    <3>2. Entries(f[l + 1].rows) = Entries(r) \cup {e.id}
      <4>1. \A x : x \in Entries(Append(r, e.id)) <=> x \in Entries(r) \cup {e.id}
        <5>1. /\ DOMAIN Append(r, e.id) = 1..Len(r) + 1 /\ DOMAIN r = 1..Len(r)
              /\ Append(r, e.id)[Len(r) + 1] = e.id
              /\ \A i \in 1..Len(r) : Append(r, e.id)[i] = r[i]
          BY <2>3, <3>1
        <5>2. 1..Len(r) + 1 = (1..Len(r)) \cup {Len(r) + 1}
          <6>1. Len(r) \in Nat
            BY <2>3
          <6> HIDE DEF r
          <6> QED BY <6>1
        <5> HIDE DEF r, e
        <5> QED BY <5>1, <5>2 DEF Entries
      <4> QED BY <3>1, <4>1
    <3>3. Entries(f[l + 1].rows) = Entries(rows) \cup To(l + 1)
      <4>1. Entries(r) = Entries(rows) \cup To(l)
        BY <2>1
      <4> HIDE DEF To, e, r
      <4> QED BY <3>2, <4>1, <2>4, <2>6
    <3>4. ASSUME Rose PROVE Ascending(f[l + 1].rows)
      <4>1. \A n \in Entries(r) : n < e.id
        <5>1. ASSUME NEW n \in Entries(rows) PROVE n < e.id
          <6>1. e.id \in Ids(s)
            BY <2>1, <2>6 DEF Ids, IsRow
          <6> QED BY <3>4, <6>1
        <5>2. ASSUME NEW n \in To(l) PROVE n < e.id
          <6>1. PICK i \in 1..l : IsRow(s[i]) /\ n = s[i].id
            OBVIOUS
          <6>2. i \in DOMAIN s /\ l + 1 \in DOMAIN s /\ i < l + 1
            BY <2>1
          <6>3. Ascends(s)
            BY <3>4
          <6> HIDE DEF Rose, To
          <6> QED BY <2>6, <6>1, <6>2, <6>3 DEF Ascends
        <5>3. Entries(r) = Entries(rows) \cup To(l)
          BY <2>1
        <5> HIDE DEF To, e, r
        <5> QED BY <5>1, <5>2, <5>3
      <4>2. Ascending(r)
        BY <2>1, <3>4
      <4>3. ASSUME NEW i \in 1..Len(r) + 1, NEW j \in 1..Len(r) + 1, i < j
            PROVE  Append(r, e.id)[i] < Append(r, e.id)[j]
        <5>1. CASE j \in 1..Len(r)
          <6>1. i \in 1..Len(r)
            BY <2>3, <4>3, <5>1
          <6> QED BY <2>3, <3>1, <4>2, <4>3, <5>1, <6>1 DEF Ascending
        <5>2. CASE j = Len(r) + 1
          <6>1. i \in 1..Len(r) /\ r[i] \in Entries(r)
            BY <2>3, <4>3, <5>2 DEF Entries
          <6>2. Append(r, e.id)[i] = r[i] /\ Append(r, e.id)[j] = e.id
            BY <2>3, <3>1, <5>2, <6>1
          <6>3. r[i] < e.id
            BY <4>1, <6>1, Zenon
          <6> HIDE DEF r, e
          <6> QED BY <6>2, <6>3, Zenon
        <5>3. j \in 1..Len(r) \/ j = Len(r) + 1
          <6>1. Len(r) \in Nat
            BY <2>3
          <6> QED BY <4>3, <6>1
        <5> QED BY <5>1, <5>2, <5>3, Zenon
      <4>4. DOMAIN Append(r, e.id) = 1..Len(r) + 1
        BY <2>3, <3>1
      <4> HIDE DEF r, e
      <4> QED BY <3>1, <4>3, <4>4 DEF Ascending
    <3>5. Kept(l + 1) /\ Reset(l + 1)
      <4>1. Kept(l) /\ Reset(l)
        BY <2>1
      <4> HIDE DEF e, To
      <4> QED BY <2>5, <3>1, <4>1
    <3> HIDE DEF To, Kept, Reset, Rose
    <3> QED BY <3>3, <3>4, <3>5
  <2>7. CASE ~IsRow(e)
    <3>1. /\ f[l + 1].rows = r /\ f[l + 1].days = [db.days EXCEPT ![e.date] = e.total]
          /\ e.date \in Dates
          /\ \A d : IsOf(e, d) <=> d = e.date
      <4>1. e.date \in Dates /\ \A d : IsOf(e, d) <=> d = e.date
        BY <2>2, <2>7, EventKinds DEF IsRow, IsOf
      <4>2. e \in Events /\ db \in Databases /\ ~IsRow(e)
        BY <2>2, <2>7
      <4> HIDE DEF e, db
      <4>3. /\ Executed(db, e).rows = db.rows
            /\ Executed(db, e).days = [db.days EXCEPT ![e.date] = e.total]
        BY <4>2, ExecutedFacts, Zenon
      <4> QED BY <2>2, <4>1, <4>3
    <3>2. /\ f[l + 1].days[e.date] = e.total
          /\ \A d \in Dates : ~IsOf(e, d) => f[l + 1].days[d] = db.days[d]
      BY <2>3, <3>1
    <3>3. Kept(l + 1) /\ Reset(l + 1)
      <4>1. Kept(l) /\ Reset(l)
        BY <2>1
      <4>2. \A d \in Dates : IsOf(e, d) => f[l + 1].days[d] = e.total
        BY <3>1, <3>2
      <4>3. \A i : i = l + 1 => s[i].total = e.total
        OBVIOUS
      <4> HIDE DEF e, To
      <4> QED BY <2>5, <3>2, <4>1, <4>2, <4>3
    <3> HIDE DEF To, Kept, Reset, Rose
    <3> QED BY <2>1, <2>4, <2>7, <3>1, <3>3
  <2> QED BY <2>6, <2>7
<1>4. Good(Len(s))
  <2>1. Nat \subseteq S
    <3> HIDE DEF S
    <3> QED BY <1>2, <1>3, Induction
  <2> HIDE DEF Good
  <2> QED BY <2>1
<1>5. DOMAIN s = 1..Len(s) /\ Len(s) \in Nat
  OBVIOUS
<1>6. To(Len(s)) = Ids(s)
  BY <1>5 DEF Ids, IsRow
<1>7. Inserted(s) \in Databases
  BY <1>1
<1>8. \A d \in Dates : NoneOf(s, 1, d) => Inserted(s).days[d] = days[d]
  BY <1>1, <1>4, <1>5 DEF NoneOf
<1>9. \A d \in Dates : \A v : LastOf(s, 1, d, v) => Inserted(s).days[d] = v
  BY <1>1, <1>4, <1>5 DEF LastOf
<1> HIDE DEF To, Kept, Reset
<1> QED BY <1>1, <1>4, <1>6, <1>7, <1>8, <1>9

-----------------------------------------------------------------------------
(* Types *)

(* What the consumer's progress says of its other variables. *)
Stages ==
  /\ at = "drain" => ~final
  /\ at # "single" => single = 1
  /\ single <= Len(batch) + 1
  /\ final => ~running /\ ring = <<>> /\ day = NoDay
  /\ at = "stopped" => final /\ batch = <<>>
  /\ pnl <= dailies

Typed == TypeOK /\ Stages

-----------------------------------------------------------------------------
(* The pipeline *)

(* The rows of the batch and the ring come in the order they were pushed,   *)
(* and unless a confirmation was lost those in the database come before     *)
(* those still to be written.                                               *)
LineUp ==
  /\ Ascends(batch) /\ Ascends(ring)
  /\ \A n \in Ids(batch) : n <= pushed /\ \A m \in Ids(ring) : n < m
  /\ \A m \in Ids(ring) : m <= pushed
Pending == {batch[i].id : i \in {j \in DOMAIN batch : j >= single /\ IsRow(batch[j])}}
Written ==
  ~doubtful => /\ Ascending(rows)
               /\ \A n \in Entries(rows) : n <= pushed /\ \A m \in Pending \cup Ids(ring) : n < m

(* Every row accepted and good is in the ring, pending or in the database.  *)
Tracked == ~faulty => accepted \ Bad \subseteq Ids(ring) \cup Pending \cup Entries(rows)

(* The last total accepted for a day is the last of that day in the ring;   *)
(* without one there the current day's; then the last pending; then the     *)
(* row's.                                                                   *)
Current(d) == day # NoDay /\ IsOf(day, d)
LastTotal(d, v) ==
  \/ LastOf(ring, 1, d, v)
  \/ /\ NoneOf(ring, 1, d)
     /\ \/ Current(d) /\ day.total = v
        \/ /\ ~Current(d)
           /\ \/ LastOf(batch, single, d, v)
              \/ NoneOf(batch, single, d) /\ days[d] = v
Totalled == ~faulty => \A d \in Dates : LastTotal(d, latest[d])

-----------------------------------------------------------------------------
(* Type correctness *)

(* A transaction keeps the types of the tables. *)
LEMMA WriteType ==
  ASSUME Stored, NEW s \in Seq(Events), UNCHANGED <<rows, days>> \/ Write(s)
  PROVE  Stored'
<1>1. CASE UNCHANGED <<rows, days>>
  BY <1>1 DEF Stored
<1>2. CASE Write(s)
  <2>1. Inserted(s) \in Databases
    BY InsertedFacts
  <2>2. Inserted(s).rows \in Seq(1..MaxEvents) /\ Inserted(s).days \in [Dates -> 0..NoRow]
    BY <2>1 DEF Databases
  <2> QED BY <1>2, <2>2 DEF Stored, Write
<1> QED BY <1>1, <1>2

LEMMA Shapes ==
  ASSUME Typed
  PROVE  /\ Stored /\ ring \in Seq(Events) /\ batch \in Seq(Events)
         /\ Len(ring) \in Nat /\ Len(batch) \in Nat
         /\ \A i \in DOMAIN batch : batch[i] \in Events /\ <<batch[i]>> \in Seq(Events)
         /\ day \in Dailies \cup {NoDay} /\ (day # NoDay => day \in Events)
         /\ single \in Nat \ {0} /\ pushed \in Nat /\ dailies \in Nat
         /\ MaxEvents \in Nat /\ RingCap \in Nat \ {0} /\ BatchSize \in Nat \ {0}
  BY PgReporterAssumption, DayKinds DEF Typed, TypeOK, Stored, Events

LEMMA InitTyped == Init => Typed
<1> SUFFICES ASSUME Init PROVE Typed
  OBVIOUS
<1>1. date \in Dates
  BY FirstDate DEF Init
<1>2. MaxEvents \in Nat /\ NoRow \in 0..NoRow /\ RingCap \in Nat /\ BatchSize \in Nat
  BY PgReporterAssumption DEF NoRow
<1>3. days \in [Dates -> 0..NoRow] /\ latest \in [Dates -> 0..NoRow]
  BY <1>2 DEF Init
<1>4. TypeOK
  <2>1. /\ running = TRUE /\ ring = <<>> /\ batch = <<>> /\ day = NoDay
        /\ failures = 0 /\ at = "drain" /\ final = FALSE /\ single = 1 /\ rows = <<>>
        /\ pnl = 0 /\ pushed = 0 /\ accepted = {} /\ dailies = 0 /\ faulty = FALSE /\ doubtful = FALSE
    BY DEF Init
  <2>2. ring \in Seq(Rows \cup Dailies) /\ batch \in Seq(Rows \cup Dailies) /\ rows \in Seq(1..MaxEvents)
        /\ Len(ring) = 0 /\ Len(batch) = 0
    BY <2>1
  <2>3. failures \in 0..1 /\ single \in Nat \ {0} /\ pnl \in 0..MaxEvents
        /\ pushed \in Nat /\ dailies \in Nat /\ pushed + dailies <= MaxEvents
        /\ 0 <= RingCap /\ 0 <= 2 * BatchSize
    BY <1>2, <2>1
  <2>4. running \in BOOLEAN /\ final \in BOOLEAN /\ faulty \in BOOLEAN /\ doubtful \in BOOLEAN
    BY <2>1
  <2> QED BY <1>1, <1>3, <2>1, <2>2, <2>3, <2>4 DEF TypeOK
<1>5. Stages
  BY <1>2 DEF Init, Stages
<1> QED BY <1>4, <1>5 DEF Typed

LEMMA PushTyped == ASSUME Typed, PushRow \/ PushDaily PROVE Typed'
<1>1. CASE PushRow
  <2>1. pushed' \in 1..MaxEvents /\ pushed' \in Nat /\ dailies' \in Nat /\ pushed' + dailies' <= MaxEvents
    BY <1>1, Shapes DEF PushRow
  <2>2. /\ ring' \in Seq(Events) /\ Len(ring') <= RingCap /\ accepted' \subseteq 1..MaxEvents
    <3>1. Row(pushed') \in Events
      BY <2>1, NewEvents
    <3>2. Len(ring) <= RingCap /\ accepted \subseteq 1..MaxEvents
      BY DEF Typed, TypeOK
    <3>3. CASE RingFull
      BY <1>1, <3>2, <3>3, Shapes DEF PushRow
    <3>4. CASE ~RingFull
      <4>1. ring' = Append(ring, Row(pushed')) /\ accepted' = accepted \cup {pushed'}
        BY <1>1, <3>4 DEF PushRow
      <4>2. ring' \in Seq(Events) /\ Len(ring') = Len(ring) + 1
        BY <3>1, <4>1, Shapes
      <4> QED BY <2>1, <3>2, <3>4, <4>1, <4>2, Shapes DEF RingFull
    <3> QED BY <3>3, <3>4
  <2>3. TypeOK'
    <3> USE <1>1 DEF PushRow, historyVars
    <3> QED BY <2>1, <2>2 DEF Typed, TypeOK, Events
  <2>4. Stages'
    BY <1>1 DEF PushRow, historyVars, Typed, Stages
  <2> QED BY <2>3, <2>4 DEF Typed
<1>2. CASE PushDaily
  <2>1. /\ pushed' = pushed /\ dailies' = dailies + 1 /\ pushed' + dailies' <= MaxEvents
        /\ pnl' \in 0..MaxEvents /\ pnl' <= dailies' /\ date' \in Dates
    <3>1. pnl <= dailies /\ pnl \in 0..MaxEvents
      BY DEF Typed, Stages, TypeOK
    <3>2. /\ pushed' = pushed /\ dailies' = dailies + 1 /\ pushed + dailies < MaxEvents
          /\ pnl' \in {pnl, pnl + 1} /\ date' \in Dates
      BY <1>2 DEF PushDaily
    <3> QED BY <3>1, <3>2, Shapes
  <2>2. ring' \in Seq(Events) /\ Len(ring') <= RingCap /\ latest' \in [Dates -> 0..NoRow]
    <3>1. Daily(date', pnl') \in Events
      BY <2>1, NewEvents, DayKinds
    <3>2. pnl' \in 0..NoRow /\ latest \in [Dates -> 0..NoRow]
      BY <2>1, Shapes DEF NoRow, Typed, TypeOK
    <3>3. CASE RingFull
      BY <1>2, <3>2, <3>3, Shapes DEF PushDaily, Typed, TypeOK
    <3>4. CASE ~RingFull
      <4>1. ring' = Append(ring, Daily(date', pnl')) /\ latest' = [latest EXCEPT ![date'] = pnl']
        BY <1>2, <3>4 DEF PushDaily
      <4> QED BY <2>1, <3>1, <3>2, <3>4, <4>1, Shapes DEF RingFull
    <3> QED BY <3>3, <3>4
  <2>3. TypeOK'
    <3>1. /\ UNCHANGED <<running, faulty, doubtful, batch, final, day, failures, single, at,
                         rows, days, accepted>>
          /\ ring' \in Seq(Rows \cup Dailies)
      BY <1>2, <2>2 DEF PushDaily, historyVars, Events
    <3>2. pushed' \in Nat /\ dailies' \in Nat
      BY <2>1, Shapes DEF Typed, TypeOK
    <3> QED BY <2>1, <2>2, <3>1, <3>2 DEF Typed, TypeOK
  <2>4. Stages'
    BY <1>2, <2>1 DEF PushDaily, historyVars, Typed, Stages
  <2> QED BY <2>3, <2>4 DEF Typed
<1> QED BY <1>1, <1>2

(* The consumer between two flushes. *)
LEMMA LoopTyped == ASSUME Typed, PopEvent \/ StartFlush \/ EndLoop PROVE Typed'
<1>1. CASE PopEvent
  <2> DEFINE e == Head(ring)
  <2>1. e \in Events /\ ring' \in Seq(Events) /\ Len(ring') <= RingCap
    BY <1>1, Shapes DEF PopEvent, Typed, TypeOK
  <2>2. /\ day' \in Dailies \cup {NoDay}
        /\ batch' = Append(batch, e) \/ batch' = batch \/ (batch' = Append(batch, day) /\ day \in Events)
    <3>1. e.kind = "daily" => e \in Dailies
      BY <2>1, EventKinds
    <3> HIDE DEF e
    <3>2. \/ e.kind = "row" /\ batch' = Append(batch, e) /\ UNCHANGED day
          \/ e.kind = "daily" /\ batch' = RolledOver(e) /\ day' = e
      BY <1>1 DEF PopEvent, e
    <3> QED BY <3>1, <3>2, Shapes DEF RolledOver
  <2>3. batch' \in Seq(Events) /\ Len(batch') <= 2 * BatchSize /\ Len(batch) <= Len(batch')
    <3>1. Len(batch) < 2 * BatchSize
      BY <1>1 DEF PopEvent
    <3>2. \A x \in Events : Append(batch, x) \in Seq(Events) /\ Len(Append(batch, x)) = Len(batch) + 1
      BY Shapes
    <3> HIDE DEF e
    <3>3. batch' \in Seq(Events) /\ Len(batch') \in {Len(batch), Len(batch) + 1}
      BY <2>1, <2>2, <3>2, Shapes
    <3> QED BY <3>1, <3>3, Shapes
  <2>4. TypeOK'
    <3> HIDE DEF e
    <3> QED BY <1>1, <2>1, <2>2, <2>3 DEF PopEvent, producerVars, historyVars, Typed, TypeOK, Events
  <2>5. Stages'
    <3>1. single <= Len(batch) + 1 /\ single' = single
      BY <1>1 DEF PopEvent, Typed, Stages
    <3>2. single' <= Len(batch') + 1
      BY <2>3, <3>1, Shapes
    <3> QED BY <1>1, <3>1, <3>2 DEF PopEvent, producerVars, historyVars, Typed, Stages
  <2> QED BY <2>4, <2>5 DEF Typed
<1>2. CASE StartFlush
  BY <1>2 DEF StartFlush, producerVars, historyVars, Typed, TypeOK, Stages
<1>3. CASE EndLoop
  <2>1. batch' \in Seq(Events)
    <3>1. batch' = (IF day = NoDay THEN batch ELSE Append(batch, day)) \o ring
      BY <1>3 DEF EndLoop
    <3> QED BY <3>1, Shapes
  <2>2. day' \in Dailies \cup {NoDay} /\ ring' \in Seq(Events) /\ Len(ring') <= RingCap
    BY <1>3, Shapes DEF EndLoop
  <2>3. TypeOK'
    BY <1>3, <2>1, <2>2 DEF EndLoop, producerVars, historyVars, Typed, TypeOK, Events
  <2>4. Stages'
    <3>1. single' = 1 /\ Len(batch') \in Nat
      BY <1>3, <2>1 DEF EndLoop, Typed, Stages
    <3> QED BY <1>3, <3>1 DEF EndLoop, producerVars, historyVars, Typed, Stages
  <2> QED BY <2>3, <2>4 DEF Typed
<1> QED BY <1>1, <1>2, <1>3

(* A step of a flush. *)
Flush == ConnectFails \/ WholeBatch \/ OneEvent \/ EndFallback

(* A flush leaves the producers, the ring and the day alone; it ends with   *)
(* the batch done or goes on with the same batch at the same event or a     *)
(* later one.                                                               *)
LEMMA FlushFrame ==
  ASSUME Typed, Flush
  PROVE  /\ UNCHANGED <<producerVars, ring, day, final>>
         /\ at \in {"first", "second", "single"}
         /\ \/ Done
            \/ /\ UNCHANGED batch
               /\ single' \in single..Len(batch) + 1
               /\ \/ failures' = 1 /\ at' = "drain" /\ ~final /\ single' = single /\ single = 1
                  \/ /\ failures' = failures /\ at' \in {"second", "single"}
                     /\ at' # "single" => single' = 1
<1>1. /\ single \in Nat \ {0} /\ single <= Len(batch) + 1 /\ Len(batch) \in Nat
      /\ at # "single" => single = 1
  BY Shapes DEF Typed, Stages
<1>2. CASE ConnectFails
  <2>1. /\ UNCHANGED <<producerVars, ring, day, final>>
        /\ at \in {"first", "second"} \/ (at = "single" /\ single = 1)
        /\ Done \/ (~final /\ failures' = 1 /\ at' = "drain" /\ UNCHANGED <<batch, single>>)
    BY <1>2 DEF ConnectFails, producerVars
  <2> QED BY <1>1, <2>1
<1>3. CASE WholeBatch
  <2>1. /\ UNCHANGED <<producerVars, ring, day, final>>
        /\ at \in {"first", "second"}
        /\ Done \/ (at' \in {"second", "single"} /\ UNCHANGED <<batch, failures, single>>)
    BY <1>3 DEF WholeBatch, producerVars
  <2> QED BY <1>1, <2>1
<1>4. CASE OneEvent
  <2>1. single' \in {single + 1, Len(batch) + 1} /\ single <= Len(batch)
    BY <1>4 DEF OneEvent, SkipOne
  <2>2. /\ UNCHANGED <<producerVars, ring, day, final>>
        /\ at = "single" /\ at' = "single" /\ UNCHANGED <<batch, failures>>
    BY <1>4 DEF OneEvent, producerVars
  <2> QED BY <1>1, <2>1, <2>2
<1>5. CASE EndFallback
  BY <1>1, <1>5 DEF EndFallback, producerVars
<1> QED BY <1>2, <1>3, <1>4, <1>5 DEF Flush

LEMMA FlushWrites ==
  ASSUME Typed, Flush
  PROVE  \E s \in Seq(Events) : UNCHANGED <<rows, days>> \/ Write(s)
<1>1. batch \in Seq(Events) /\ \A i \in DOMAIN batch : <<batch[i]>> \in Seq(Events)
  BY Shapes
<1>2. CASE ConnectFails \/ EndFallback
  BY <1>1, <1>2 DEF ConnectFails, EndFallback
<1>3. CASE WholeBatch
  BY <1>1, <1>3 DEF WholeBatch, Commits, Fails, InDoubt
<1>4. CASE OneEvent
  <2>1. single \in DOMAIN batch
    BY <1>4, Shapes DEF OneEvent
  <2> QED BY <1>1, <1>4, <2>1 DEF OneEvent, Commits, Fails, InDoubt
<1> QED BY <1>2, <1>3, <1>4 DEF Flush

LEMMA FlushTyped == ASSUME Typed, Flush PROVE Typed'
<1>1. Stored'
  BY Shapes, FlushWrites, WriteType
<1>2. faulty' \in BOOLEAN /\ doubtful' \in BOOLEAN
  BY DEF Flush, ConnectFails, WholeBatch, OneEvent, EndFallback, Commits, Fails, InDoubt,
         Fault, NoFault, historyVars, Typed, TypeOK
<1>3. /\ UNCHANGED <<producerVars, ring, day, final>>
      /\ at \in {"first", "second", "single"}
  BY FlushFrame
<1>4. /\ batch' \in {batch, <<>>} /\ single' \in Nat \ {0} /\ single' <= Len(batch') + 1
      /\ failures' \in 0..1 /\ at' \in {"drain", "second", "single", "stopped"}
      /\ at' = "drain" => ~final
      /\ at' # "single" => single' = 1
      /\ at' = "stopped" => final /\ batch' = <<>>
  <2>1. CASE Done
    BY <2>1 DEF Done, NoBatch
  <2>2. CASE ~Done
    <3>1. /\ batch' = batch /\ single' \in single..Len(batch) + 1
          /\ \/ failures' = 1 /\ at' = "drain" /\ ~final /\ single' = single /\ single = 1
             \/ /\ failures' = failures /\ at' \in {"second", "single"}
                /\ at' # "single" => single' = 1
      BY <2>2, FlushFrame
    <3>2. failures \in 0..1
      BY DEF Typed, TypeOK
    <3> QED BY <3>1, <3>2, Shapes
  <2> QED BY <2>1, <2>2
<1>5. TypeOK'
  <2>1. batch' \in Seq(Events) /\ (Len(batch) <= 2 * BatchSize => Len(batch') <= 2 * BatchSize)
    <3>1. CASE batch' = batch
      BY <3>1, Shapes
    <3>2. CASE batch' = <<>>
      BY <3>2, Shapes
    <3> QED BY <1>4, <3>1, <3>2
  <2> QED BY <1>1, <1>2, <1>3, <1>4, <2>1 DEF Stored, producerVars, Typed, TypeOK, Events
<1>6. Stages'
  BY <1>3, <1>4 DEF producerVars, Typed, Stages
<1> QED BY <1>5, <1>6 DEF Typed

LEMMA TypedStep == Typed /\ [Next]_reporterVars => Typed'
<1> SUFFICES ASSUME Typed, [Next]_reporterVars PROVE Typed'
  OBVIOUS
<1>1. CASE PushRow \/ PushDaily
  BY <1>1, PushTyped
<1>2. CASE Stop
  BY <1>2 DEF Stop, historyVars, Typed, TypeOK, Stages
<1>3. CASE PopEvent \/ StartFlush \/ EndLoop
  BY <1>3, LoopTyped
<1>4. CASE Flush
  BY <1>4, FlushTyped
<1>5. CASE UNCHANGED reporterVars
  BY <1>5 DEF reporterVars, producerVars, historyVars, Typed, TypeOK, Stages
<1> QED BY <1>1, <1>2, <1>3, <1>4, <1>5 DEF Next, Consumer, Flush

(* Every variable keeps its type, the batch its bound and the pushes theirs *)
(* whatever the capacity, the batch size and the dates.                     *)
THEOREM ReporterTypes == Spec => []TypeOK
<1>1. Typed => TypeOK
  BY DEF Typed
<1> QED BY <1>1, InitTyped, TypedStep, PTL DEF Spec

-----------------------------------------------------------------------------
(* Events in a row *)

LEMMA ConcatEvents ==
  ASSUME NEW s \in Seq(Events), NEW t \in Seq(Events)
  PROVE  /\ s \o t \in Seq(Events)
         /\ Ids(s \o t) = Ids(s) \cup Ids(t)
         /\ Ascends(s) /\ Ascends(t) /\ (\A n \in Ids(s), m \in Ids(t) : n < m) => Ascends(s \o t)
         /\ \A d : \A k \in 1..Len(s) + 1 :
              /\ \A v : LastOf(t, 1, d, v) => LastOf(s \o t, k, d, v)
              /\ \A v : LastOf(s, k, d, v) /\ NoneOf(t, 1, d) => LastOf(s \o t, k, d, v)
              /\ NoneOf(s, k, d) /\ NoneOf(t, 1, d) => NoneOf(s \o t, k, d)
<1> DEFINE c == s \o t
<1>1. /\ c \in Seq(Events) /\ DOMAIN c = 1..Len(s) + Len(t)
      /\ DOMAIN s = 1..Len(s) /\ DOMAIN t = 1..Len(t) /\ Len(s) \in Nat /\ Len(t) \in Nat
  OBVIOUS
<1>2. \A i \in 1..Len(s) : i \in DOMAIN c /\ c[i] = s[i]
  OBVIOUS
<1>3. \A i \in 1..Len(t) : Len(s) + i \in DOMAIN c /\ c[Len(s) + i] = t[i]
  OBVIOUS
<1>4. \A i \in DOMAIN c : i \in 1..Len(s) \/ (i - Len(s) \in 1..Len(t) /\ i = Len(s) + (i - Len(s)))
  BY <1>1
<1> HIDE DEF c
<1>5. \A i \in DOMAIN c : \/ i \in 1..Len(s) /\ c[i] = s[i]
                          \/ i - Len(s) \in 1..Len(t) /\ c[i] = t[i - Len(s)] /\ i > Len(s)
  BY <1>1, <1>2, <1>3, <1>4
<1>6. Ids(c) = Ids(s) \cup Ids(t)
  <2>1. ASSUME NEW n \in Ids(c) PROVE n \in Ids(s) \cup Ids(t)
    BY <1>1, <1>5 DEF Ids
  <2>2. Ids(s) \subseteq Ids(c)
    BY <1>1, <1>2 DEF Ids
  <2>3. Ids(t) \subseteq Ids(c)
    BY <1>1, <1>3 DEF Ids
  <2> QED BY <2>1, <2>2, <2>3
<1>7. ASSUME Ascends(s), Ascends(t), \A n \in Ids(s), m \in Ids(t) : n < m PROVE Ascends(c)
  <2>1. ASSUME NEW i \in DOMAIN c, NEW j \in DOMAIN c, i < j, IsRow(c[i]), IsRow(c[j])
        PROVE  c[i].id < c[j].id
    <3>1. CASE i \in 1..Len(s) /\ j \in 1..Len(s)
      BY <1>1, <1>2, <1>7, <2>1, <3>1 DEF Ascends
    <3>2. CASE i \in 1..Len(s) /\ j \notin 1..Len(s)
      <4>1. s[i].id \in Ids(s) /\ t[j - Len(s)].id \in Ids(t)
        BY <1>1, <1>2, <1>5, <2>1, <3>2 DEF Ids, IsRow
      <4> QED BY <1>2, <1>5, <1>7, <3>2, <4>1
    <3>3. CASE i \notin 1..Len(s)
      <4>1. j \notin 1..Len(s)
        BY <1>1, <1>5, <2>1, <3>3
      <4>2. i - Len(s) < j - Len(s)
        BY <1>1, <2>1
      <4> QED BY <1>1, <1>5, <1>7, <2>1, <3>3, <4>1, <4>2 DEF Ascends
    <3> QED BY <3>1, <3>2, <3>3
  <2> QED BY <2>1 DEF Ascends
<1>8. ASSUME NEW d, NEW k \in 1..Len(s) + 1
      PROVE  /\ \A v : LastOf(t, 1, d, v) => LastOf(c, k, d, v)
             /\ \A v : LastOf(s, k, d, v) /\ NoneOf(t, 1, d) => LastOf(c, k, d, v)
             /\ NoneOf(s, k, d) /\ NoneOf(t, 1, d) => NoneOf(c, k, d)
  <2>1. ASSUME NEW v, LastOf(t, 1, d, v) PROVE LastOf(c, k, d, v)
    <3>1. PICK i \in 1..Len(t) : /\ IsOf(t[i], d) /\ t[i].total = v
                                 /\ \A j \in 1..Len(t) : j > i => ~IsOf(t[j], d)
      BY <2>1, <1>1 DEF LastOf
    <3>2. Len(s) + i \in DOMAIN c /\ Len(s) + i >= k /\ c[Len(s) + i] = t[i]
      BY <1>1, <1>3
    <3>3. ASSUME NEW j \in DOMAIN c, j > Len(s) + i PROVE ~IsOf(c[j], d)
      <4>1. j - Len(s) \in 1..Len(t) /\ c[j] = t[j - Len(s)] /\ j - Len(s) > i
        BY <1>1, <1>5, <3>3
      <4> QED BY <3>1, <4>1
    <3> QED BY <3>1, <3>2, <3>3 DEF LastOf
  <2>2. ASSUME NEW v, LastOf(s, k, d, v), NoneOf(t, 1, d) PROVE LastOf(c, k, d, v)
    <3>1. PICK i \in 1..Len(s) : /\ i >= k /\ IsOf(s[i], d) /\ s[i].total = v
                                 /\ \A j \in 1..Len(s) : j > i => ~IsOf(s[j], d)
      BY <2>2, <1>1 DEF LastOf
    <3>2. \A j \in 1..Len(t) : ~IsOf(t[j], d)
      BY <2>2, <1>1 DEF NoneOf
    <3> QED BY <1>2, <1>5, <3>1, <3>2 DEF LastOf
  <2>3. ASSUME NoneOf(s, k, d), NoneOf(t, 1, d) PROVE NoneOf(c, k, d)
    BY <1>1, <1>5, <2>3 DEF NoneOf
  <2> QED BY <2>1, <2>2, <2>3
<1> QED BY <1>1, <1>6, <1>7, <1>8 DEF c

LEMMA OneEventFacts ==
  ASSUME NEW e \in Events
  PROVE  /\ <<e>> \in Seq(Events) /\ Ascends(<<e>>)
         /\ Ids(<<e>>) = IF IsRow(e) THEN {e.id} ELSE {}
         /\ \A d : IsOf(e, d) => LastOf(<<e>>, 1, d, e.total)
         /\ \A d : ~IsOf(e, d) => NoneOf(<<e>>, 1, d)
<1>1. <<e>> \in Seq(Events) /\ DOMAIN <<e>> = {1} /\ <<e>>[1] = e
  OBVIOUS
<1> DEFINE t == <<e>>
<1> HIDE DEF t
<1>2. t \in Seq(Events) /\ DOMAIN t = {1} /\ t[1] = e
  BY <1>1 DEF t
<1>3. Ascends(t)
  BY <1>2 DEF Ascends
<1>4. Ids(t) = IF IsRow(e) THEN {e.id} ELSE {}
  BY <1>2 DEF Ids, IsRow
<1>5. \A d : IsOf(e, d) => LastOf(t, 1, d, e.total)
  BY <1>2 DEF LastOf
<1>6. \A d : ~IsOf(e, d) => NoneOf(t, 1, d)
  BY <1>2 DEF NoneOf
<1> QED BY <1>2, <1>3, <1>4, <1>5, <1>6 DEF t

LEMMA AppendEvent ==
  ASSUME NEW s \in Seq(Events), NEW e \in Events
  PROVE  /\ Append(s, e) \in Seq(Events)
         /\ Ids(Append(s, e)) = Ids(s) \cup (IF IsRow(e) THEN {e.id} ELSE {})
         /\ Ascends(s) /\ (IsRow(e) => \A n \in Ids(s) : n < e.id) => Ascends(Append(s, e))
         /\ \A d : \A k \in 1..Len(s) + 1 :
              /\ IsOf(e, d) => LastOf(Append(s, e), k, d, e.total)
              /\ \A v : LastOf(s, k, d, v) /\ ~IsOf(e, d) => LastOf(Append(s, e), k, d, v)
              /\ NoneOf(s, k, d) /\ ~IsOf(e, d) => NoneOf(Append(s, e), k, d)
<1>1. Append(s, e) = s \o <<e>>
  OBVIOUS
<1> DEFINE t == <<e>>
<1>2. /\ t \in Seq(Events) /\ Ascends(t)
      /\ Ids(t) = IF IsRow(e) THEN {e.id} ELSE {}
      /\ \A d : IsOf(e, d) => LastOf(t, 1, d, e.total)
      /\ \A d : ~IsOf(e, d) => NoneOf(t, 1, d)
  BY OneEventFacts
<1> HIDE DEF t
<1>3. /\ s \o t \in Seq(Events)
      /\ Ids(s \o t) = Ids(s) \cup Ids(t)
      /\ Ascends(s) /\ (\A n \in Ids(s), m \in Ids(t) : n < m) => Ascends(s \o t)
      /\ \A d : \A k \in 1..Len(s) + 1 :
           /\ \A v : LastOf(t, 1, d, v) => LastOf(s \o t, k, d, v)
           /\ \A v : LastOf(s, k, d, v) /\ NoneOf(t, 1, d) => LastOf(s \o t, k, d, v)
           /\ NoneOf(s, k, d) /\ NoneOf(t, 1, d) => NoneOf(s \o t, k, d)
  BY <1>2, ConcatEvents
<1>4. Append(s, e) = s \o t
  BY <1>1 DEF t
<1> QED BY <1>2, <1>3, <1>4

LEMMA TailEvents ==
  ASSUME NEW s \in Seq(Events), s # <<>>
  PROVE  /\ Tail(s) \in Seq(Events) /\ Head(s) \in Events
         /\ Ids(s) = Ids(Tail(s)) \cup (IF IsRow(Head(s)) THEN {Head(s).id} ELSE {})
         /\ Ascends(s) => /\ Ascends(Tail(s))
                          /\ IsRow(Head(s)) => \A n \in Ids(Tail(s)) : Head(s).id < n
         /\ \A d, v : LastOf(s, 1, d, v) =>
              \/ LastOf(Tail(s), 1, d, v)
              \/ NoneOf(Tail(s), 1, d) /\ IsOf(Head(s), d) /\ Head(s).total = v
         /\ \A d : NoneOf(s, 1, d) => NoneOf(Tail(s), 1, d) /\ ~IsOf(Head(s), d)
<1> DEFINE t == Tail(s)
           h == Head(s)
<1>1. /\ t \in Seq(Events) /\ h \in Events /\ h = s[1] /\ Len(s) \in Nat \ {0}
      /\ DOMAIN s = 1..Len(s) /\ DOMAIN t = 1..Len(s) - 1
  OBVIOUS
<1>2. \A i \in DOMAIN t : i + 1 \in DOMAIN s /\ t[i] = s[i + 1]
  OBVIOUS
<1> HIDE DEF t, h
<1>3. \A i \in DOMAIN s : \/ i = 1 /\ s[i] = h
                          \/ i - 1 \in DOMAIN t /\ s[i] = t[i - 1] /\ i > 1
  BY <1>1, <1>2
<1>4. Ids(s) = Ids(t) \cup (IF IsRow(h) THEN {h.id} ELSE {})
  <2>1. \A n \in Ids(s) : n \in Ids(t) \/ (IsRow(h) /\ n = h.id)
    BY <1>3 DEF Ids, IsRow
  <2>2. Ids(t) \subseteq Ids(s)
    BY <1>2 DEF Ids
  <2>3. IsRow(h) => h.id \in Ids(s)
    BY <1>1 DEF Ids, IsRow
  <2> QED BY <2>1, <2>2, <2>3
<1>5. ASSUME Ascends(s)
      PROVE  Ascends(t) /\ (IsRow(h) => \A n \in Ids(t) : h.id < n)
  <2>1. Ascends(t)
    BY <1>1, <1>2, <1>5 DEF Ascends
  <2>2. ASSUME IsRow(h), NEW i \in DOMAIN t, IsRow(t[i]) PROVE h.id < t[i].id
    <3>1. 1 \in DOMAIN s /\ 1 < i + 1
      BY <1>1
    <3> QED BY <1>1, <1>2, <1>5, <2>2, <3>1 DEF Ascends
  <2> QED BY <2>1, <2>2 DEF Ids, IsRow
<1>6. ASSUME NEW d, NEW v, LastOf(s, 1, d, v)
      PROVE  \/ LastOf(t, 1, d, v)
             \/ NoneOf(t, 1, d) /\ IsOf(h, d) /\ h.total = v
  <2>1. PICK i \in DOMAIN s : /\ IsOf(s[i], d) /\ s[i].total = v
                              /\ \A j \in DOMAIN s : j > i => ~IsOf(s[j], d)
    BY <1>6 DEF LastOf
  <2>2. \A j \in DOMAIN t : j + 1 > i => ~IsOf(t[j], d)
    BY <1>2, <2>1
  <2>3. CASE i = 1
    BY <1>1, <2>1, <2>2, <2>3 DEF NoneOf
  <2>4. CASE i # 1
    <3>1. i - 1 \in DOMAIN t /\ s[i] = t[i - 1] /\ i - 1 >= 1 /\ \A j \in DOMAIN t : j > i - 1 => j + 1 > i
      BY <1>1, <1>3, <2>4
    <3> QED BY <2>1, <2>2, <3>1 DEF LastOf
  <2> QED BY <2>3, <2>4
<1>7. ASSUME NEW d, NoneOf(s, 1, d) PROVE NoneOf(t, 1, d) /\ ~IsOf(h, d)
  BY <1>1, <1>2, <1>7 DEF NoneOf
<1> QED BY <1>1, <1>4, <1>5, <1>6, <1>7 DEF t, h

-----------------------------------------------------------------------------
(* Steps of a flush *)

(* What a step of a flush does to the tables and to the pending events: a   *)
(* fault; the batch is written and done; the next event is written; the     *)
(* next event, a row the database rejects, is skipped; nothing is left to   *)
(* write and the batch is done; the batch stays.                            *)
Advances == single \in DOMAIN batch /\ batch' = batch /\ single' = single + 1
Outcome ==
  \/ faulty' = TRUE /\ (doubtful' = TRUE \/ UNCHANGED <<rows, days, doubtful>>)
  \/ /\ UNCHANGED historyVars
     /\ \/ single = 1 /\ batch' = <<>> /\ single' = 1 /\ Write(batch)
        \/ Advances /\ Write(<<batch[single]>>)
        \/ /\ Advances /\ UNCHANGED <<rows, days>>
           /\ IsRow(batch[single]) /\ batch[single].id \in Bad
        \/ single > Len(batch) /\ batch' = <<>> /\ single' = 1 /\ UNCHANGED <<rows, days>>
        \/ UNCHANGED <<batch, single, rows, days>>

LEMMA FlushOutcome == ASSUME Typed, Flush PROVE Outcome
<1>1. CASE ConnectFails
  BY <1>1 DEF ConnectFails, Fault, Outcome
<1>2. CASE WholeBatch
  <2>1. single = 1
    BY <1>2 DEF WholeBatch, Typed, Stages
  <2>2. CASE Commits(batch) /\ Done
    BY <2>1, <2>2 DEF Commits, NoFault, Done, NoBatch, Outcome
  <2>3. CASE Fails(batch) /\ UNCHANGED <<batch, single>>
    BY <2>3 DEF Fails, NoFault, Fault, historyVars, Outcome
  <2>4. CASE InDoubt(batch)
    BY <2>4 DEF InDoubt, Outcome
  <2> QED BY <1>2, <2>2, <2>3, <2>4 DEF WholeBatch
<1>3. CASE OneEvent
  <2> DEFINE event == <<batch[single]>>
  <2>1. single \in DOMAIN batch /\ batch' = batch
    BY <1>3, Shapes DEF OneEvent
  <2>2. CASE Commits(event) /\ single' = single + 1
    BY <2>1, <2>2 DEF Commits, NoFault, Advances, Outcome
  <2>3. CASE Fails(event) /\ SkipOne
    <3>1. CASE Fault /\ UNCHANGED <<rows, days>>
      BY <3>1 DEF Fault, Outcome
    <3>2. CASE BadIn(event) /\ NoFault /\ UNCHANGED <<rows, days>>
      <4>1. IsRow(batch[single]) /\ batch[single].id \in Bad
        BY <3>2 DEF BadIn, IsRow
      <4> QED BY <2>1, <2>3, <3>2, <4>1 DEF NoFault, SkipOne, Advances, Outcome
    <3> QED BY <2>3, <3>1, <3>2 DEF Fails
  <2>4. CASE InDoubt(event)
    BY <2>4 DEF InDoubt, Outcome
  <2>5. CASE /\ \/ UNCHANGED <<rows, days, doubtful>>
                \/ Write(event) /\ ~BadIn(event) /\ doubtful' = TRUE
             /\ faulty' = TRUE
    BY <2>5 DEF Outcome
  <2> QED BY <1>3, <2>2, <2>3, <2>4, <2>5 DEF OneEvent
<1>4. CASE EndFallback
  BY <1>4 DEF EndFallback, Done, NoBatch, historyVars, Outcome
<1> QED BY <1>1, <1>2, <1>3, <1>4 DEF Flush

(* Only later events of the same batch are pending after a step of a flush. *)
LEMMA FlushPending ==
  ASSUME Typed, Flush
  PROVE  /\ Pending' \subseteq Pending
         /\ batch' = batch \/ batch' = <<>>
         /\ UNCHANGED <<running, date, pnl, pushed, accepted, latest, dailies, ring, day, final>>
<1>1. UNCHANGED <<producerVars, ring, day, final>>
  BY FlushFrame
<1>2. batch' = <<>> \/ (batch' = batch /\ single' \in single..Len(batch) + 1)
  <2>1. CASE Done
    BY <2>1 DEF Done, NoBatch
  <2> QED BY <2>1, FlushFrame
<1>3. Pending' \subseteq Pending
  <2>1. CASE batch' = <<>>
    BY <2>1 DEF Pending
  <2>2. CASE batch' = batch /\ single' \in single..Len(batch) + 1
    <3>1. DOMAIN batch \subseteq Nat /\ single \in Nat /\ single' \in Nat /\ single <= single'
      BY <2>2, Shapes
    <3>2. \A j \in DOMAIN batch : j >= single' => j >= single
      BY <3>1
    <3> QED BY <2>2, <3>2 DEF Pending
  <2> QED BY <1>2, <2>1, <2>2
<1> QED BY <1>1, <1>2, <1>3 DEF producerVars

(* Outside the fallback the whole batch is pending.                         *)
LEMMA WholePending == ASSUME Typed, single = 1 PROVE Pending = Ids(batch)
  BY Shapes DEF Pending, Ids, IsRow
LEMMA PendingIds == Pending \subseteq Ids(batch)
  BY DEF Pending, Ids, IsRow

(* The next event of the fallback is pending, and after it what follows.    *)
LEMMA NextPending ==
  ASSUME Typed, Advances, LineUp
  PROVE  /\ batch[single] \in Events
         /\ Pending \subseteq Pending' \cup Ids(<<batch[single]>>)
         /\ Ids(<<batch[single]>>) \subseteq Pending
         /\ \A n \in Ids(<<batch[single]>>), m \in Pending' : n < m
<1> DEFINE e == batch[single]
<1>1. e \in Events /\ single \in DOMAIN batch /\ single \in Nat /\ DOMAIN batch \subseteq Nat
  BY Shapes DEF Advances
<1>2. Ids(<<e>>) = IF IsRow(e) THEN {e.id} ELSE {}
  BY <1>1, OneEventFacts
<1>3. \A j \in DOMAIN batch : j >= single <=> j = single \/ j >= single + 1
  BY <1>1
<1>4. Pending' = {batch[i].id : i \in {j \in DOMAIN batch : j >= single + 1 /\ IsRow(batch[j])}}
  BY DEF Advances, Pending, IsRow
<1>5. Pending \subseteq Pending' \cup Ids(<<e>>)
  BY <1>2, <1>3, <1>4 DEF Pending
<1>6. Ids(<<e>>) \subseteq Pending
  <2> HIDE DEF e
  <2>1. IsRow(e) => e.id \in Pending
    BY <1>1, <1>3 DEF Pending, e
  <2> QED BY <1>2, <2>1
<1>7. ASSUME NEW n \in Ids(<<e>>), NEW m \in Pending' PROVE n < m
  <2>1. PICK j \in DOMAIN batch : j >= single + 1 /\ IsRow(batch[j]) /\ m = batch[j].id
    BY <1>4
  <2>2. IsRow(e) /\ n = e.id
    BY <1>2
  <2>3. single < j
    BY <1>1, <2>1
  <2> QED BY <1>1, <2>1, <2>2, <2>3 DEF LineUp, Ascends
<1> QED BY <1>1, <1>5, <1>6, <1>7

-----------------------------------------------------------------------------
(* Order *)

LEMMA InitInOrder == Init => LineUp /\ Written
  BY DEF Init, LineUp, Written, Ascends, Ascending, Ids, Entries, Pending

(* What a row pushed, an event popped or the end of the loop does to the    *)
(* batch and the ring.                                                      *)
PushedRow ==
  /\ pushed' = pushed + 1 /\ batch' = batch /\ UNCHANGED single
  /\ ring' = ring \/ ring' = Append(ring, Row(pushed'))
Popped ==
  /\ ring # <<>> /\ ring' = Tail(ring)
  /\ UNCHANGED <<pushed, single>> /\ single = 1
  /\ \/ IsRow(Head(ring)) /\ batch' = Append(batch, Head(ring)) /\ UNCHANGED day
     \/ /\ ~IsRow(Head(ring)) /\ Head(ring) \in Dailies /\ day' = Head(ring)
        /\ \/ /\ day \in Dailies /\ day.date # Head(ring).date
              /\ batch' = Append(batch, day)
           \/ batch' = batch /\ (day = NoDay \/ day.date = Head(ring).date)
LoopEnd ==
  /\ ring' = <<>> /\ day' = NoDay
  /\ UNCHANGED <<pushed, single>> /\ single = 1
  /\ \/ day = NoDay /\ batch' = batch \o ring
     \/ day \in Dailies /\ batch' = Append(batch, day) \o ring

LEMMA Moves ==
  ASSUME Typed
  PROVE  /\ PushRow => PushedRow
         /\ PopEvent => Popped
         /\ EndLoop => LoopEnd
<1>1. ASSUME PushRow PROVE PushedRow
  BY <1>1 DEF PushRow, PushedRow
<1>2. ASSUME PopEvent PROVE Popped
  <2> DEFINE e == Head(ring)
  <2>1. e \in Events
    BY <1>2, Shapes, TailEvents DEF PopEvent
  <2>2. IsRow(e) \/ (~IsRow(e) /\ e \in Dailies)
    BY <2>1, EventKinds DEF IsRow
  <2>3. single = 1 /\ UNCHANGED <<pushed, single>> /\ ring # <<>> /\ ring' = Tail(ring)
    BY <1>2 DEF PopEvent, producerVars, Typed, Stages
  <2> HIDE DEF e
  <2>4. \/ e.kind = "row" /\ batch' = Append(batch, e) /\ UNCHANGED day
        \/ e.kind = "daily" /\ batch' = RolledOver(e) /\ day' = e
    BY <1>2 DEF PopEvent, e
  <2>5. batch' = RolledOver(e) => \/ day \in Dailies /\ day.date # e.date /\ batch' = Append(batch, day)
                                  \/ batch' = batch /\ (day = NoDay \/ day.date = e.date)
    BY Shapes DEF RolledOver
  <2>6. e.kind = "daily" => ~IsRow(e)
    BY DEF IsRow
  <2> QED BY <2>2, <2>3, <2>4, <2>5, <2>6 DEF Popped, IsRow, e
<1>3. ASSUME EndLoop PROVE LoopEnd
  BY <1>3, Shapes DEF EndLoop, LoopEnd, producerVars, Typed, Stages
<1> QED BY <1>1, <1>2, <1>3

LEMMA DayIsNoRow == \A e \in Dailies : e \in Events /\ ~IsRow(e)
  BY DayKinds DEF IsRow

LEMMA LineUpStep == ASSUME Typed, LineUp, [Next]_reporterVars PROVE LineUp'
<1>0. /\ batch \in Seq(Events) /\ ring \in Seq(Events) /\ pushed \in Nat
      /\ Ids(batch) \subseteq Nat /\ Ids(ring) \subseteq Nat
  <2>1. batch \in Seq(Events) /\ ring \in Seq(Events) /\ pushed \in Nat
    BY Shapes
  <2>2. \A s \in Seq(Events) : Ids(s) \subseteq Nat
    <3>1. ASSUME NEW s \in Seq(Events), NEW i \in DOMAIN s, s[i].kind = "row" PROVE s[i].id \in Nat
      BY <3>1, EventKinds, PgReporterAssumption
    <3> QED BY <3>1 DEF Ids
  <2> QED BY <2>1, <2>2
<1>1. CASE PushRow
  <2>1. PushedRow
    BY <1>1, Moves
  <2>2. CASE ring' = ring
    BY <1>0, <2>1, <2>2 DEF PushedRow, LineUp
  <2>3. CASE ring' = Append(ring, Row(pushed'))
    <3>1. Row(pushed') \in Events /\ IsRow(Row(pushed')) /\ Row(pushed').id = pushed'
      <4>1. pushed' \in 1..MaxEvents
        BY <1>1, Shapes DEF PushRow
      <4> QED BY <4>1, NewEvents DEF IsRow
    <3>2. \A n \in Ids(ring) : n < pushed + 1
      BY <1>0 DEF LineUp
    <3>3. Ids(ring') = Ids(ring) \cup {pushed + 1} /\ Ascends(ring')
      BY <1>0, <2>1, <2>3, <3>1, <3>2, AppendEvent DEF PushedRow, LineUp
    <3> QED BY <1>0, <2>1, <3>3 DEF PushedRow, LineUp
  <2> QED BY <2>1, <2>2, <2>3 DEF PushedRow
<1>2. CASE PushDaily
  <2>1. CASE RingFull
    BY <1>2, <2>1 DEF PushDaily, LineUp
  <2>2. CASE ~RingFull
    <3>1. Daily(date', pnl') \in Dailies
      <4>1. pnl' \in 0..MaxEvents /\ date' \in Dates
        BY <1>2, PushTyped DEF Typed, TypeOK
      <4> QED BY <4>1, NewEvents
    <3>2. ring' = Append(ring, Daily(date', pnl'))
      BY <1>2, <2>2 DEF PushDaily
    <3>3. Ids(ring') = Ids(ring) /\ Ascends(ring')
      <4>1. ~IsRow(Daily(date', pnl')) /\ Daily(date', pnl') \in Events
        BY <3>1, DayIsNoRow
      <4> QED BY <1>0, <3>2, <4>1, AppendEvent DEF LineUp
    <3> QED BY <1>2, <3>3 DEF PushDaily, LineUp
  <2> QED BY <2>1, <2>2
<1>3. CASE Stop
  BY <1>3 DEF Stop, LineUp
<1>4. CASE PopEvent
  <2> DEFINE e == Head(ring)
  <2>1. Popped
    BY <1>4, Moves
  <2>2. /\ e \in Events /\ ring' \in Seq(Events)
        /\ Ids(ring) = Ids(ring') \cup (IF IsRow(e) THEN {e.id} ELSE {})
        /\ Ascends(ring') /\ (IsRow(e) => \A n \in Ids(ring') : e.id < n)
    BY <1>0, <2>1, TailEvents DEF Popped, LineUp
  <2>3. /\ Ids(batch') = Ids(batch) \cup (IF IsRow(e) THEN {e.id} ELSE {})
        /\ Ascends(batch')
    <3> HIDE DEF e
    <3>1. CASE IsRow(e) /\ batch' = Append(batch, e)
      <4>1. \A n \in Ids(batch) : n < e.id
        BY <2>2, <3>1 DEF LineUp
      <4> QED BY <1>0, <2>2, <3>1, <4>1, AppendEvent DEF LineUp
    <3>2. CASE ~IsRow(e) /\ day \in Dailies /\ batch' = Append(batch, day)
      <4>1. ~IsRow(day) /\ day \in Events
        BY <3>2, DayIsNoRow
      <4> QED BY <1>0, <3>2, <4>1, AppendEvent DEF LineUp
    <3>3. CASE ~IsRow(e) /\ batch' = batch
      BY <3>3 DEF LineUp
    <3> QED BY <2>1, <3>1, <3>2, <3>3 DEF Popped, e
  <2>4. pushed' = pushed
    BY <2>1 DEF Popped
  <2> HIDE DEF e
  <2> QED BY <1>0, <2>2, <2>3, <2>4 DEF LineUp
<1>5. CASE EndLoop
  <2>1. LoopEnd
    BY <1>5, Moves
  <2> DEFINE b == IF day = NoDay THEN batch ELSE Append(batch, day)
  <2>2. b \in Seq(Events) /\ Ids(b) = Ids(batch) /\ Ascends(b)
    <3>1. CASE day = NoDay
      BY <1>0, <3>1 DEF LineUp
    <3>2. CASE day # NoDay
      <4>1. ~IsRow(day) /\ day \in Events
        BY <3>2, Shapes, DayIsNoRow
      <4> QED BY <1>0, <3>2, <4>1, AppendEvent DEF LineUp
    <3> QED BY <3>1, <3>2
  <2>3. batch' = b \o ring /\ ring' = <<>> /\ pushed' = pushed
    BY <2>1, DayKinds DEF LoopEnd
  <2> HIDE DEF b
  <2>4. Ids(batch') = Ids(b) \cup Ids(ring) /\ Ascends(batch')
    BY <1>0, <2>2, <2>3, ConcatEvents DEF LineUp
  <2>5. Ids(ring') = {} /\ Ascends(ring')
    BY <2>3 DEF Ids, Ascends
  <2> QED BY <1>0, <2>2, <2>3, <2>4, <2>5 DEF LineUp
<1>6. CASE Flush
  <2>1. (batch' = batch \/ batch' = <<>>) /\ ring' = ring /\ pushed' = pushed
    BY <1>6, FlushPending
  <2>2. CASE batch' = batch
    BY <2>1, <2>2 DEF LineUp
  <2>3. CASE batch' = <<>>
    <3>1. Ids(batch') = {} /\ Ascends(batch')
      BY <2>3 DEF Ids, Ascends
    <3> QED BY <2>1, <3>1 DEF LineUp
  <2> QED BY <2>1, <2>2, <2>3
<1>7. CASE StartFlush \/ UNCHANGED reporterVars
  BY <1>7 DEF StartFlush, reporterVars, producerVars, LineUp
<1> QED BY <1>1, <1>2, <1>3, <1>4, <1>5, <1>6, <1>7 DEF Next, Consumer, Flush

(* A step outside the flushes moves rows along the batch and the ring, and  *)
(* a row pushed joins them when the ring accepts it.                        *)
Loop == PushRow \/ PushDaily \/ Stop \/ PopEvent \/ StartFlush \/ EndLoop
Line == Pending \cup Ids(ring)

LEMMA LoopLine ==
  ASSUME Typed, Loop \/ UNCHANGED reporterVars
  PROVE  /\ UNCHANGED <<rows, days, faulty, doubtful>>
         /\ \/ UNCHANGED <<pushed, accepted>> /\ Line' = Line
            \/ pushed' = pushed + 1 /\ UNCHANGED accepted /\ Line' = Line
            \/ pushed' = pushed + 1 /\ accepted' = accepted \cup {pushed'} /\ Line' = Line \cup {pushed'}
<1>0. batch \in Seq(Events) /\ ring \in Seq(Events)
  BY Shapes
<1>1. CASE PushRow
  <2>1. UNCHANGED <<rows, days, faulty, doubtful, batch, single>> /\ pushed' = pushed + 1
    BY <1>1 DEF PushRow, historyVars
  <2>2. Pending' = Pending
    BY <2>1 DEF Pending
  <2>3. CASE RingFull
    <3>1. UNCHANGED <<ring, accepted>>
      BY <1>1, <2>3 DEF PushRow
    <3> QED BY <2>1, <2>2, <3>1 DEF Line
  <2>4. CASE ~RingFull
    <3>1. ring' = Append(ring, Row(pushed')) /\ accepted' = accepted \cup {pushed'}
      BY <1>1, <2>4 DEF PushRow
    <3>2. Row(pushed') \in Events /\ IsRow(Row(pushed')) /\ Row(pushed').id = pushed'
      <4>1. pushed' \in 1..MaxEvents
        BY <1>1, Shapes DEF PushRow
      <4> QED BY <4>1, NewEvents DEF IsRow
    <3>3. Ids(ring') = Ids(ring) \cup {pushed'}
      BY <1>0, <3>1, <3>2, AppendEvent
    <3>4. Line' = Line \cup {pushed'}
      BY <2>2, <3>3 DEF Line
    <3> QED BY <2>1, <3>1, <3>4
  <2> QED BY <2>3, <2>4
<1>2. CASE PushDaily
  <2>1. UNCHANGED <<rows, days, faulty, doubtful, batch, single, pushed, accepted>>
    BY <1>2 DEF PushDaily, historyVars
  <2>2. Pending' = Pending
    BY <2>1 DEF Pending
  <2>3. Ids(ring') = Ids(ring)
    <3>1. CASE RingFull
      BY <1>2, <3>1 DEF PushDaily
    <3>2. CASE ~RingFull
      <4>1. ring' = Append(ring, Daily(date', pnl'))
        BY <1>2, <3>2 DEF PushDaily
      <4>2. pnl' \in 0..MaxEvents /\ date' \in Dates
        BY <1>2, PushTyped DEF Typed, TypeOK
      <4>3. Daily(date', pnl') \in Events /\ ~IsRow(Daily(date', pnl'))
        BY <4>2, NewEvents, DayIsNoRow
      <4> QED BY <1>0, <4>1, <4>3, AppendEvent
    <3> QED BY <3>1, <3>2
  <2> QED BY <2>1, <2>2, <2>3 DEF Line
<1>3. CASE PopEvent
  <2> DEFINE e == Head(ring)
  <2>1. Popped /\ UNCHANGED <<rows, days, faulty, doubtful, pushed, accepted, single>>
    BY <1>3, Moves DEF PopEvent, producerVars, historyVars
  <2>2. e \in Events /\ Ids(ring) = Ids(ring') \cup (IF IsRow(e) THEN {e.id} ELSE {})
    BY <1>0, <2>1, TailEvents DEF Popped
  <2>3. Ids(batch') = Ids(batch) \cup (IF IsRow(e) THEN {e.id} ELSE {})
    <3> HIDE DEF e
    <3>1. CASE IsRow(e) /\ batch' = Append(batch, e)
      BY <1>0, <2>2, <3>1, AppendEvent
    <3>2. CASE ~IsRow(e) /\ day \in Dailies /\ batch' = Append(batch, day)
      <4>1. ~IsRow(day) /\ day \in Events
        BY <3>2, DayIsNoRow
      <4> QED BY <1>0, <3>2, <4>1, AppendEvent
    <3>3. CASE ~IsRow(e) /\ batch' = batch
      BY <3>3
    <3> QED BY <2>1, <3>1, <3>2, <3>3 DEF Popped, e
  <2>4. Pending = Ids(batch) /\ Pending' = Ids(batch')
    <3>1. Typed' /\ single = 1 /\ single' = 1
      BY <1>3, <2>1, LoopTyped DEF Popped
    <3>2. \A i \in DOMAIN batch : i >= single
      BY <3>1, Shapes
    <3>3. (\A i \in DOMAIN batch : i >= single)'
      <4>1. batch' \in Seq(Events)
        BY <3>1 DEF Typed, TypeOK, Events
      <4> QED BY <3>1, <4>1
    <3> QED BY <3>2, <3>3 DEF Pending, Ids, IsRow
  <2> HIDE DEF e
  <2> QED BY <2>1, <2>2, <2>3, <2>4 DEF Line
<1>4. CASE EndLoop
  <2> DEFINE b == IF day = NoDay THEN batch ELSE Append(batch, day)
  <2>1. LoopEnd /\ UNCHANGED <<rows, days, faulty, doubtful, pushed, accepted, single>>
    BY <1>4, Moves DEF EndLoop, producerVars, historyVars
  <2>2. b \in Seq(Events) /\ Ids(b) = Ids(batch)
    <3>1. day # NoDay => ~IsRow(day) /\ day \in Events
      BY Shapes, DayIsNoRow
    <3> QED BY <1>0, <3>1, AppendEvent
  <2>3. batch' = b \o ring /\ ring' = <<>>
    BY <2>1, DayKinds DEF LoopEnd
  <2> HIDE DEF b
  <2>4. Ids(batch') = Ids(b) \cup Ids(ring)
    BY <1>0, <2>2, <2>3, ConcatEvents
  <2>5. Ids(ring') = {}
    BY <2>3 DEF Ids
  <2>6. Pending = Ids(batch) /\ Pending' = Ids(batch')
    <3>1. Typed' /\ single = 1 /\ single' = 1
      BY <1>4, <2>1, LoopTyped DEF LoopEnd
    <3>2. \A i \in DOMAIN batch : i >= single
      BY <3>1, Shapes
    <3>3. (\A i \in DOMAIN batch : i >= single)'
      <4>1. batch' \in Seq(Events)
        BY <3>1 DEF Typed, TypeOK, Events
      <4> QED BY <3>1, <4>1
    <3> QED BY <3>2, <3>3 DEF Pending, Ids, IsRow
  <2> QED BY <2>1, <2>2, <2>4, <2>5, <2>6 DEF Line
<1>5. CASE Stop \/ StartFlush \/ UNCHANGED reporterVars
  BY <1>5 DEF Stop, StartFlush, reporterVars, producerVars, historyVars, Line, Pending
<1> QED BY <1>1, <1>2, <1>3, <1>4, <1>5 DEF Loop

LEMMA NextCases == [Next]_reporterVars => Flush \/ Loop \/ UNCHANGED reporterVars
  BY DEF Next, Consumer, Flush, Loop

(* What a transaction leaves, said of the primed tables.                    *)
LEMMA WriteFacts ==
  ASSUME Typed, NEW s \in Seq(Events), Write(s)
  PROVE  /\ Entries(rows') = Entries(rows) \cup Ids(s)
         /\ Ascending(rows) /\ Ascends(s)
              /\ (\A n \in Entries(rows), m \in Ids(s) : n < m)
              => Ascending(rows')
         /\ \A d \in Dates : NoneOf(s, 1, d) => days'[d] = days[d]
         /\ \A d \in Dates : \A v : LastOf(s, 1, d, v) => days'[d] = v
<1>1. rows' = Inserted(s).rows /\ days' = Inserted(s).days
  BY DEF Write
<1>2. Stored
  BY Shapes
<1> QED BY <1>1, <1>2, InsertedFacts

LEMMA WrittenStep == ASSUME Typed, LineUp, Written, [Next]_reporterVars PROVE Written'
<1>0. /\ pushed \in Nat /\ batch \in Seq(Events)
      /\ Entries(rows) \subseteq Nat /\ Line \subseteq Nat
      /\ \A n \in Line : n <= pushed
  <2>1. pushed \in Nat /\ batch \in Seq(Events) /\ ring \in Seq(Events) /\ rows \in Seq(1..MaxEvents)
    BY Shapes DEF Stored
  <2>2. Entries(rows) \subseteq Nat
    <3>1. \A i \in DOMAIN rows : rows[i] \in Nat
      BY <2>1, PgReporterAssumption
    <3> QED BY <3>1 DEF Entries
  <2>3. \A s \in Seq(Events) : Ids(s) \subseteq Nat
    <3>1. ASSUME NEW s \in Seq(Events), NEW i \in DOMAIN s, s[i].kind = "row" PROVE s[i].id \in Nat
      BY <3>1, EventKinds, PgReporterAssumption
    <3> QED BY <3>1 DEF Ids
  <2> QED BY <2>1, <2>2, <2>3, PendingIds DEF Line, LineUp
<1> SUFFICES ASSUME ~doubtful'
             PROVE  /\ Ascending(rows')
                    /\ \A n \in Entries(rows') : n <= pushed' /\ \A m \in Line' : n < m
  BY DEF Written, Line
<1>1. CASE Loop \/ UNCHANGED reporterVars
  <2>1. /\ rows' = rows /\ ~doubtful /\ pushed' \in {pushed, pushed + 1}
        /\ Line' = Line \/ (Line' = Line \cup {pushed'} /\ pushed' = pushed + 1)
    BY <1>1, LoopLine
  <2>2. Ascending(rows) /\ \A n \in Entries(rows) : n <= pushed /\ \A m \in Line : n < m
    BY <2>1 DEF Written, Line
  <2>3. Entries(rows') = Entries(rows) /\ Ascending(rows')
    BY <2>1, <2>2
  <2>4. \A n \in Entries(rows) : n <= pushed' /\ n < pushed + 1
    BY <1>0, <2>1, <2>2
  <2> QED BY <2>1, <2>2, <2>3, <2>4
<1>2. CASE Flush
  <2>1. Outcome /\ Pending' \subseteq Pending /\ pushed' = pushed /\ ring' = ring
    BY <1>2, FlushOutcome, FlushPending
  <2>2. Line' \subseteq Line
    BY <2>1 DEF Line
  <2>3. ~doubtful
    BY <2>1 DEF Outcome, historyVars
  <2>4. Ascending(rows) /\ \A n \in Entries(rows) : n <= pushed /\ \A m \in Line : n < m
    BY <2>3 DEF Written, Line
  <2>5. CASE UNCHANGED <<rows, days>>
    <3>1. Entries(rows') = Entries(rows) /\ Ascending(rows')
      BY <2>4, <2>5
    <3> QED BY <2>1, <2>2, <2>4, <3>1
  <2>6. CASE single = 1 /\ batch' = <<>> /\ Write(batch)
    <3>1. Pending = Ids(batch) /\ Ascends(batch)
      BY <2>6, WholePending DEF LineUp
    <3>2. Entries(rows') = Entries(rows) \cup Ids(batch) /\ Ascending(rows')
      BY <1>0, <2>4, <2>6, <3>1, WriteFacts DEF Line
    <3>3. Line' = Ids(ring)
      BY <2>1, <2>6 DEF Line, Pending
    <3>4. \A n \in Ids(batch) : n <= pushed /\ \A m \in Ids(ring) : n < m
      BY DEF LineUp
    <3> QED BY <2>1, <2>4, <3>2, <3>3, <3>4 DEF Line
  <2>7. CASE Advances /\ Write(<<batch[single]>>)
    <3> DEFINE s == <<batch[single]>>
    <3>1. /\ batch[single] \in Events /\ Ids(s) \subseteq Pending
          /\ \A n \in Ids(s), m \in Pending' : n < m
      BY <2>7, NextPending
    <3>2. s \in Seq(Events) /\ Ascends(s)
      BY <3>1, OneEventFacts
    <3>3. Write(s)
      BY <2>7
    <3> HIDE DEF s
    <3>4. Entries(rows') = Entries(rows) \cup Ids(s) /\ Ascending(rows')
      BY <2>4, <3>1, <3>2, <3>3, WriteFacts DEF Line
    <3>5. \A n \in Ids(s) : n <= pushed /\ \A m \in Line' : n < m
      <4>1. \A n \in Pending : n <= pushed /\ \A m \in Ids(ring) : n < m
        BY PendingIds DEF LineUp
      <4>2. Line' = Pending' \cup Ids(ring)
        BY <2>1 DEF Line
      <4> QED BY <3>1, <4>1, <4>2
    <3> QED BY <2>1, <2>2, <2>4, <3>4, <3>5
  <2> QED BY <2>1, <2>5, <2>6, <2>7 DEF Outcome
<1> QED BY <1>1, <1>2, NextCases

(* Unless the confirmation of a commit was lost, the rows are in the        *)
(* database once and in the order they were pushed.                         *)
THEOREM RowsOnceInOrder == Spec => []OnceInOrder
<1>1. Typed /\ LineUp /\ Written /\ [Next]_reporterVars => (Typed /\ LineUp /\ Written)'
  BY TypedStep, LineUpStep, WrittenStep
<1>2. Written => OnceInOrder
  BY DEF Written, Ascending, OnceInOrder
<1> QED BY <1>1, <1>2, InitTyped, InitInOrder, PTL DEF Spec

-----------------------------------------------------------------------------
(* Rows kept *)

LEMMA TrackedStep == ASSUME Typed, LineUp, Tracked, [Next]_reporterVars PROVE Tracked'
<1> SUFFICES ASSUME ~faulty' PROVE accepted' \ Bad \subseteq Line' \cup Entries(rows')
  BY DEF Tracked, Line
<1>1. CASE Loop \/ UNCHANGED reporterVars
  <2>1. /\ ~faulty /\ rows' = rows
        /\ \/ accepted' = accepted /\ Line' = Line
           \/ accepted' = accepted \cup {pushed'} /\ Line' = Line \cup {pushed'}
    BY <1>1, LoopLine
  <2>2. accepted \ Bad \subseteq Line \cup Entries(rows)
    BY <2>1 DEF Tracked, Line
  <2> QED BY <2>1, <2>2
<1>2. CASE Flush
  <2>1. Outcome /\ accepted' = accepted /\ ring' = ring
    BY <1>2, FlushOutcome, FlushPending
  <2>2. ~faulty
    BY <2>1 DEF Outcome, historyVars
  <2>3. accepted \ Bad \subseteq Line \cup Entries(rows)
    BY <2>2 DEF Tracked, Line
  <2>4. Line = Pending \cup Ids(ring) /\ Line' = Pending' \cup Ids(ring)
    BY <2>1 DEF Line
  <2>5. CASE single = 1 /\ Write(batch)
    <3>1. Entries(rows') = Entries(rows) \cup Pending
      BY <2>5, WholePending, WriteFacts, Shapes
    <3> QED BY <2>1, <2>3, <2>4, <3>1
  <2>6. CASE Advances /\ Write(<<batch[single]>>)
    <3> DEFINE s == <<batch[single]>>
    <3>1. batch[single] \in Events /\ Pending \subseteq Pending' \cup Ids(s)
      BY <2>6, NextPending
    <3>2. s \in Seq(Events) /\ Write(s)
      BY <2>6, <3>1, OneEventFacts
    <3> HIDE DEF s
    <3>3. Entries(rows') = Entries(rows) \cup Ids(s)
      BY <3>2, WriteFacts
    <3> QED BY <2>1, <2>3, <2>4, <3>1, <3>3
  <2>7. CASE /\ Advances /\ UNCHANGED <<rows, days>>
             /\ IsRow(batch[single]) /\ batch[single].id \in Bad
    <3>1. Ids(<<batch[single]>>) \subseteq Bad
      BY <2>7, NextPending, OneEventFacts
    <3>2. Pending \subseteq Pending' \cup Bad
      BY <2>7, <3>1, NextPending
    <3> QED BY <2>1, <2>3, <2>4, <2>7, <3>2
  <2>8. CASE single > Len(batch) /\ UNCHANGED <<rows, days>>
    <3>1. \A j \in DOMAIN batch : ~(j >= single)
      BY <2>8, Shapes
    <3>2. Pending = {}
      BY <3>1 DEF Pending
    <3> QED BY <2>1, <2>3, <2>4, <2>8, <3>2
  <2>9. CASE UNCHANGED <<batch, single, rows, days>>
    <3>1. Pending' = Pending
      BY <2>9 DEF Pending
    <3> QED BY <2>1, <2>3, <2>4, <2>9, <3>1
  <2> QED BY <2>1, <2>5, <2>6, <2>7, <2>8, <2>9 DEF Outcome
<1> QED BY <1>1, <1>2, NextCases

(* As long as the database works, every accepted row it does not reject is  *)
(* on its way or stored, whatever else its batch holds.                     *)
THEOREM GoodRowsAreKept == Spec => []GoodRowsKept
<1>1. Init => Tracked
  BY DEF Init, Tracked
<1>2. Typed /\ LineUp /\ Tracked /\ [Next]_reporterVars => (Typed /\ LineUp /\ Tracked)'
  BY TypedStep, LineUpStep, TrackedStep
<1>3. Tracked => GoodRowsKept
  BY PendingIds DEF Tracked, GoodRowsKept, Entries
<1> QED BY <1>1, <1>2, <1>3, InitTyped, InitInOrder, PTL DEF Spec

-----------------------------------------------------------------------------
(* Daily totals *)

LEMMA InitTotalled == Init => Totalled
<1> SUFFICES ASSUME Init, NEW d \in Dates PROVE LastTotal(d, latest[d])
  BY DEF Totalled
<1>1. days[d] = NoRow /\ latest[d] = NoRow /\ ring = <<>> /\ batch = <<>> /\ day = NoDay
  BY DEF Init
<1>2. NoneOf(ring, 1, d) /\ NoneOf(batch, single, d)
  BY <1>1 DEF NoneOf
<1> QED BY <1>1, <1>2 DEF LastTotal, Current

(* A total pushed is the last of its day; a row or a total of another day   *)
(* changes nothing.                                                         *)
LEMMA PushTotal ==
  ASSUME Typed, NEW e \in Events, NEW d, NEW v, ring' = Append(ring, e),
         UNCHANGED <<batch, day, single, days>>
  PROVE  /\ IsOf(e, d) => LastTotal(d, e.total)'
         /\ ~IsOf(e, d) /\ LastTotal(d, v) => LastTotal(d, v)'
<1>1. ring \in Seq(Events) /\ 1 \in 1..Len(ring) + 1
  BY Shapes
<1>2. /\ IsOf(e, d) => LastOf(ring', 1, d, e.total)
      /\ LastOf(ring, 1, d, v) /\ ~IsOf(e, d) => LastOf(ring', 1, d, v)
      /\ NoneOf(ring, 1, d) /\ ~IsOf(e, d) => NoneOf(ring', 1, d)
  BY <1>1, AppendEvent
<1>3. (LastOf(batch, single, d, v) => LastOf(batch, single, d, v)')
      /\ (NoneOf(batch, single, d) => NoneOf(batch, single, d)')
  BY DEF LastOf, NoneOf
<1> QED BY <1>2, <1>3 DEF LastTotal, Current

(* Popping an event hands its total to the current day, whose old total     *)
(* joins the batch.                                                         *)
LEMMA PopTotal ==
  ASSUME Typed, PopEvent, NEW d, NEW v, LastTotal(d, v)
  PROVE  LastTotal(d, v)'
<1> DEFINE e == Head(ring)
<1>0. /\ batch \in Seq(Events) /\ ring \in Seq(Events) /\ single = 1 /\ 1 \in 1..Len(batch) + 1
      /\ days' = days /\ single' = 1 /\ Popped
  BY Shapes, Moves DEF PopEvent, Popped
<1>1. /\ e \in Events
      /\ LastOf(ring, 1, d, v) =>
           \/ LastOf(ring', 1, d, v)
           \/ NoneOf(ring', 1, d) /\ IsOf(e, d) /\ e.total = v
      /\ NoneOf(ring, 1, d) => NoneOf(ring', 1, d) /\ ~IsOf(e, d)
  <2>1. ring # <<>> /\ ring' = Tail(ring)
    BY <1>0 DEF Popped
  <2> QED BY <1>0, <2>1, TailEvents
<1>2. CASE IsRow(e) /\ batch' = Append(batch, e) /\ day' = day
  <2> HIDE DEF e
  <2>1. ~IsOf(e, d)
    BY <1>2 DEF IsRow, IsOf
  <2>2. /\ LastOf(batch, 1, d, v) => LastOf(batch', 1, d, v)
        /\ NoneOf(batch, 1, d) => NoneOf(batch', 1, d)
    BY <1>0, <1>1, <1>2, <2>1, AppendEvent
  <2> QED BY <1>0, <1>1, <1>2, <2>1, <2>2 DEF LastTotal, Current
<1>3. CASE /\ e \in Dailies /\ day' = e
           /\ day \in Dailies /\ day.date # e.date /\ batch' = Append(batch, day)
  <2> HIDE DEF e
  <2>1. /\ day \in Events /\ day # NoDay /\ e # NoDay
        /\ day.kind = "daily" /\ e.kind = "daily"
    BY <1>3, DayKinds
  <2>2. /\ IsOf(day, d) => LastOf(batch', 1, d, day.total)
        /\ LastOf(batch, 1, d, v) /\ ~IsOf(day, d) => LastOf(batch', 1, d, v)
        /\ NoneOf(batch, 1, d) /\ ~IsOf(day, d) => NoneOf(batch', 1, d)
    BY <1>0, <1>3, <2>1, AppendEvent
  <2>3. Current(d) <=> IsOf(day, d)
    BY <2>1 DEF Current
  <2>4. Current(d)' <=> IsOf(e, d)
    BY <1>3, <2>1 DEF Current
  <2> QED BY <1>0, <1>1, <1>3, <2>2, <2>3, <2>4 DEF LastTotal
<1>4. CASE /\ e \in Dailies /\ day' = e /\ batch' = batch
           /\ day = NoDay \/ day.date = e.date
  <2> HIDE DEF e
  <2>1. e # NoDay /\ e.kind = "daily"
    BY <1>4, DayKinds
  <2>2. Current(d)' <=> IsOf(e, d)
    BY <1>4, <2>1 DEF Current
  <2>3. Current(d) => IsOf(e, d)
    BY <1>4, <2>1 DEF Current, IsOf
  <2> QED BY <1>0, <1>1, <1>4, <2>2, <2>3 DEF LastTotal
<1> QED BY <1>0, <1>2, <1>3, <1>4 DEF Popped

(* After the loop the current day, then the ring, join the batch.           *)
LEMMA EndTotal ==
  ASSUME Typed, EndLoop, NEW d, NEW v, LastTotal(d, v)
  PROVE  LastTotal(d, v)'
<1> DEFINE b == IF day = NoDay THEN batch ELSE Append(batch, day)
<1>0. /\ batch \in Seq(Events) /\ ring \in Seq(Events) /\ single = 1 /\ 1 \in 1..Len(batch) + 1
      /\ days' = days /\ single' = 1 /\ LoopEnd
  <2>1. LoopEnd /\ days' = days
    BY Moves DEF EndLoop
  <2>2. single = 1 /\ single' = 1
    BY <2>1 DEF LoopEnd
  <2> QED BY <2>1, <2>2, Shapes
<1>1. batch' = b \o ring /\ ring' = <<>> /\ day' = NoDay
  BY <1>0, DayKinds DEF LoopEnd
<1>2. /\ b \in Seq(Events) /\ 1 \in 1..Len(b) + 1
      /\ Current(d) => LastOf(b, 1, d, day.total)
      /\ ~Current(d) /\ LastOf(batch, 1, d, v) => LastOf(b, 1, d, v)
      /\ ~Current(d) /\ NoneOf(batch, 1, d) => NoneOf(b, 1, d)
  <2>1. CASE day = NoDay
    BY <1>0, <2>1 DEF Current
  <2>2. CASE day # NoDay
    <3>1. day \in Events
      BY <2>2, Shapes
    <3>2. b \in Seq(Events)
      BY <1>0, <2>2, <3>1
    <3>3. 1 \in 1..Len(b) + 1
      <4> HIDE DEF b
      <4> QED BY <3>2
    <3> QED BY <1>0, <2>2, <3>1, <3>2, <3>3, AppendEvent DEF Current
  <2> QED BY <2>1, <2>2
<1> HIDE DEF b
<1>3. /\ LastOf(ring, 1, d, v) => LastOf(batch', 1, d, v)
      /\ \A w : LastOf(b, 1, d, w) /\ NoneOf(ring, 1, d) => LastOf(batch', 1, d, w)
      /\ NoneOf(b, 1, d) /\ NoneOf(ring, 1, d) => NoneOf(batch', 1, d)
  BY <1>0, <1>1, <1>2, ConcatEvents
<1>4. NoneOf(ring', 1, d) /\ ~Current(d)'
  BY <1>1 DEF NoneOf, Current
<1> QED BY <1>0, <1>2, <1>3, <1>4 DEF LastTotal

(* A step of a flush that meets no fault writes a pending total or leaves   *)
(* it pending.                                                              *)
LEMMA FlushTotal ==
  ASSUME Typed, Flush, ~faulty', NEW d \in Dates, NEW v, LastTotal(d, v)
  PROVE  LastTotal(d, v)'
<1>0. Outcome /\ ring' = ring /\ day' = day /\ batch \in Seq(Events)
      /\ single \in Nat /\ Len(batch) \in Nat
  BY FlushOutcome, FlushPending, Shapes
<1> DEFINE Rest == \/ LastOf(batch, single, d, v)
                   \/ NoneOf(batch, single, d) /\ days[d] = v
<1>1. SUFFICES ASSUME Rest PROVE Rest'
  BY <1>0 DEF LastTotal, Current
<1>2. batch' = <<>> => NoneOf(batch', single', d)
  BY DEF NoneOf
<1>3. CASE single = 1 /\ batch' = <<>> /\ Write(batch)
  <2>1. days'[d] = v
    <3>1. LastOf(batch, 1, d, v) => days'[d] = v
      BY <1>0, <1>3, WriteFacts
    <3>2. NoneOf(batch, 1, d) => days'[d] = days[d]
      BY <1>0, <1>3, WriteFacts
    <3> QED BY <1>1, <1>3, <3>1, <3>2
  <2> QED BY <1>2, <1>3, <2>1
<1>4. ASSUME Advances
      PROVE  /\ batch[single] \in Events
             /\ LastOf(batch, single, d, v) =>
                  \/ LastOf(batch, single, d, v)'
                  \/ /\ NoneOf(batch, single, d)'
                     /\ IsOf(batch[single], d) /\ batch[single].total = v
             /\ NoneOf(batch, single, d) => NoneOf(batch, single, d)' /\ ~IsOf(batch[single], d)
  <2>1. /\ batch' = batch /\ single' = single + 1 /\ single \in DOMAIN batch
        /\ batch[single] \in Events /\ DOMAIN batch \subseteq Nat
    BY <1>0, <1>4 DEF Advances
  <2>2. \A i \in DOMAIN batch : i >= single <=> i = single \/ i >= single + 1
    BY <1>0, <2>1
  <2>3. \A i \in DOMAIN batch : i > single <=> i >= single + 1
    BY <1>0, <2>1
  <2>4. NoneOf(batch, single, d) => NoneOf(batch, single, d)' /\ ~IsOf(batch[single], d)
    BY <2>1, <2>2 DEF NoneOf
  <2>5. ASSUME LastOf(batch, single, d, v)
        PROVE  \/ LastOf(batch, single, d, v)'
               \/ /\ NoneOf(batch, single, d)'
                  /\ IsOf(batch[single], d) /\ batch[single].total = v
    <3>1. PICK i \in DOMAIN batch :
             /\ i >= single /\ IsOf(batch[i], d) /\ batch[i].total = v
             /\ \A j \in DOMAIN batch : j > i => ~IsOf(batch[j], d)
      BY <2>5 DEF LastOf
    <3>2. CASE i = single
      BY <2>1, <2>3, <3>1, <3>2 DEF NoneOf
    <3>3. CASE i >= single + 1
      BY <2>1, <3>1, <3>3 DEF LastOf
    <3> QED BY <2>2, <3>1, <3>2, <3>3
  <2> QED BY <2>1, <2>4, <2>5
<1>5. CASE Advances /\ Write(<<batch[single]>>)
  <2> DEFINE e == batch[single]
             s == <<e>>
  <2>1. e \in Events
    BY <1>4, <1>5
  <2>2. /\ s \in Seq(Events)
        /\ IsOf(e, d) => LastOf(s, 1, d, e.total)
        /\ ~IsOf(e, d) => NoneOf(s, 1, d)
    BY <2>1, OneEventFacts
  <2>3. Write(s)
    BY <1>5
  <2> HIDE DEF s
  <2>4. /\ IsOf(e, d) => days'[d] = e.total
        /\ ~IsOf(e, d) => days'[d] = days[d]
    BY <2>2, <2>3, WriteFacts
  <2> QED BY <1>1, <1>4, <1>5, <2>4
<1>6. CASE /\ Advances /\ UNCHANGED <<rows, days>> /\ IsRow(batch[single])
  <2>1. ~IsOf(batch[single], d)
    BY <1>6 DEF IsRow, IsOf
  <2> QED BY <1>1, <1>4, <1>6, <2>1
<1>7. CASE single > Len(batch) /\ batch' = <<>> /\ UNCHANGED <<rows, days>>
  <2>1. \A i \in DOMAIN batch : ~(i >= single)
    BY <1>0, <1>7
  <2>2. ~LastOf(batch, single, d, v)
    BY <2>1 DEF LastOf
  <2> QED BY <1>1, <1>2, <1>7, <2>2
<1>8. CASE UNCHANGED <<batch, single, rows, days>>
  BY <1>1, <1>8 DEF LastOf, NoneOf
<1> QED BY <1>0, <1>3, <1>5, <1>6, <1>7, <1>8 DEF Outcome

LEMMA TotalledStep == ASSUME Typed, Totalled, [Next]_reporterVars PROVE Totalled'
<1> SUFFICES ASSUME ~faulty', NEW d \in Dates PROVE LastTotal(d, latest[d])'
  BY DEF Totalled
<1>1. CASE PushRow
  <2>1. /\ UNCHANGED <<batch, day, single, days, latest, faulty>>
        /\ ring' = ring \/ ring' = Append(ring, Row(pushed'))
    BY <1>1 DEF PushRow, historyVars
  <2>2. LastTotal(d, latest[d])
    BY <2>1 DEF Totalled
  <2>3. Row(pushed') \in Events /\ ~IsOf(Row(pushed'), d)
    <3>1. pushed' \in 1..MaxEvents
      BY <1>1, Shapes DEF PushRow
    <3> QED BY <3>1, NewEvents DEF IsOf
  <2>4. CASE ring' = Append(ring, Row(pushed'))
    BY <2>1, <2>2, <2>3, <2>4, PushTotal
  <2>5. CASE ring' = ring
    BY <2>1, <2>2, <2>5 DEF LastTotal, Current, LastOf, NoneOf
  <2> QED BY <2>1, <2>4, <2>5
<1>2. CASE PushDaily
  <2>1. UNCHANGED <<batch, day, single, days, faulty>>
    BY <1>2 DEF PushDaily, historyVars
  <2>2. LastTotal(d, latest[d])
    BY <2>1 DEF Totalled
  <2>3. CASE RingFull
    BY <1>2, <2>1, <2>2, <2>3 DEF PushDaily, LastTotal, Current, LastOf, NoneOf
  <2>4. CASE ~RingFull
    <3> DEFINE e == Daily(date', pnl')
    <3>1. ring' = Append(ring, e) /\ latest' = [latest EXCEPT ![date'] = pnl']
      BY <1>2, <2>4 DEF PushDaily
    <3>2. pnl' \in 0..MaxEvents /\ date' \in Dates /\ latest \in [Dates -> 0..NoRow]
      BY <1>2, PushTyped DEF Typed, TypeOK
    <3>3. e \in Events /\ e.kind = "daily" /\ e.date = date' /\ e.total = pnl'
      BY <3>2, NewEvents, DayKinds
    <3> HIDE DEF e
    <3>4. CASE d = date'
      <4>1. IsOf(e, d) /\ latest'[d] = e.total
        BY <3>1, <3>2, <3>3, <3>4 DEF IsOf
      <4> QED BY <2>1, <3>1, <3>3, <4>1, PushTotal
    <3>5. CASE d # date'
      <4>1. ~IsOf(e, d) /\ latest'[d] = latest[d]
        BY <3>1, <3>2, <3>3, <3>5 DEF IsOf
      <4>2. PICK v : v = latest[d]
        OBVIOUS
      <4>3. LastTotal(d, v)'
        BY <2>1, <2>2, <3>1, <3>3, <4>1, <4>2, PushTotal
      <4> QED BY <4>1, <4>2, <4>3
    <3> QED BY <3>4, <3>5
  <2> QED BY <2>3, <2>4
<1>3. CASE PopEvent \/ EndLoop
  <2>1. UNCHANGED <<latest, faulty>>
    BY <1>3 DEF PopEvent, EndLoop, producerVars, historyVars
  <2>2. LastTotal(d, latest[d])
    BY <2>1 DEF Totalled
  <2> QED BY <1>3, <2>1, <2>2, PopTotal, EndTotal
<1>4. CASE Stop \/ StartFlush \/ UNCHANGED reporterVars
  <2>1. UNCHANGED <<ring, batch, day, single, days, latest, faulty>>
    BY <1>4 DEF Stop, StartFlush, reporterVars, producerVars, historyVars
  <2>2. LastTotal(d, latest[d])
    BY <2>1 DEF Totalled
  <2> QED BY <2>1, <2>2 DEF LastTotal, Current, LastOf, NoneOf
<1>5. CASE Flush
  <2>1. latest' = latest /\ ~faulty
    <3>1. latest' = latest
      BY <1>5, FlushPending
    <3>2. faulty' = faulty
      BY <1>5, FlushOutcome DEF Outcome, historyVars
    <3> QED BY <3>1, <3>2
  <2>2. LastTotal(d, latest[d])
    BY <2>1 DEF Totalled
  <2> QED BY <1>5, <2>1, <2>2, FlushTotal
<1> QED BY <1>1, <1>2, <1>3, <1>4, <1>5 DEF Next, Consumer, Flush

(* With a database that works, each date's row ends up with the last total  *)
(* the ring accepted for that date.                                         *)
THEOREM DailyRowsAreFinal == Spec => []DailyRowIsFinal
<1>1. Typed /\ Totalled /\ [Next]_reporterVars => (Typed /\ Totalled)'
  BY TypedStep, TotalledStep
<1>2. Typed /\ Totalled => DailyRowIsFinal
  <2> SUFFICES ASSUME Typed, Totalled, at = "stopped", ~faulty PROVE days = latest
    BY DEF DailyRowIsFinal
  <2>1. ring = <<>> /\ day = NoDay /\ batch = <<>>
    BY DEF Typed, Stages
  <2>2. ASSUME NEW d \in Dates PROVE days[d] = latest[d]
    <3>1. LastTotal(d, latest[d])
      BY DEF Totalled
    <3>2. ~Current(d) /\ \A v, k : ~LastOf(<<>>, k, d, v)
      BY <2>1 DEF Current, LastOf
    <3> QED BY <2>1, <3>1, <3>2 DEF LastTotal
  <2>3. days \in [Dates -> 0..NoRow] /\ latest \in [Dates -> 0..NoRow]
    BY DEF Typed, TypeOK
  <2> QED BY <2>2, <2>3
<1> QED BY <1>1, <1>2, InitTyped, InitTotalled, PTL DEF Spec

-----------------------------------------------------------------------------
(* How long a flush takes *)

Flushing == at \in {"first", "second", "single"}

(* What a flush has before it, at most: two attempts at the whole batch,    *)
(* then one transaction for each event left.                                *)
FlushLeft ==
  CASE at = "first"  -> Len(batch) + 3
    [] at = "second" -> Len(batch) + 2
    [] at = "single" -> Len(batch) + 1 - single
    [] OTHER         -> 0

(* A step of a flush brings its end nearer, or is its end: then the batch   *)
(* is empty, or kept as it was after a first failure to connect.            *)
FlushAdvances ==
  /\ Flushing /\ Consumer =>
       \/ Flushing' /\ batch' = batch /\ FlushLeft' < FlushLeft
       \/ ~Flushing' /\ \/ batch' = <<>>
                        \/ batch' = batch /\ failures = 0 /\ failures' = 1
  /\ Flushing /\ ~Consumer => UNCHANGED <<at, batch, single, failures>>

(* A flush takes Len(batch) + 4 steps at most and keeps its batch once at   *)
(* most, whatever the database answers; producers do not touch it.          *)
FlushesEnd ==
  /\ [](Flushing => FlushLeft \in 0..(Len(batch) + 3))
  /\ [][FlushAdvances]_reporterVars

LEMMA FlushLeftType ==
  ASSUME Typed, Flushing
  PROVE  FlushLeft \in 0..(Len(batch) + 3)
<1>1. Len(batch) \in Nat /\ single \in Nat \ {0} /\ single <= Len(batch) + 1
  BY DEF Typed, TypeOK, Stages
<1>2. CASE at = "first"
  BY <1>1, <1>2 DEF FlushLeft
<1>3. CASE at = "second"
  BY <1>1, <1>3 DEF FlushLeft
<1>4. CASE at = "single"
  BY <1>1, <1>4 DEF FlushLeft
<1> QED BY <1>2, <1>3, <1>4 DEF Flushing

LEMMA FlushStep == Typed /\ [Next]_reporterVars => FlushAdvances
<1> SUFFICES ASSUME Typed, [Next]_reporterVars, Flushing PROVE FlushAdvances
  BY DEF FlushAdvances
<1>0. /\ Len(batch) \in Nat /\ single \in Nat \ {0} /\ failures \in 0..1
      /\ at # "single" => single = 1
  BY DEF Typed, TypeOK, Stages
<1>1. ASSUME Done PROVE ~Flushing' /\ batch' = <<>>
  BY <1>1 DEF Done, NoBatch, Flushing
<1>2. CASE ConnectFails
  <2>1. \/ Done
        \/ failures + 1 < 2 /\ failures' = 1 /\ at' = "drain" /\ batch' = batch
    BY <1>0, <1>2 DEF ConnectFails, DropBatch
  <2>2. CASE Done
    BY <1>1, <1>2, <2>2 DEF FlushAdvances, Consumer
  <2>3. CASE failures + 1 < 2 /\ failures' = 1 /\ at' = "drain" /\ batch' = batch
    <3>1. failures = 0 /\ ~Flushing'
      BY <1>0, <2>3 DEF Flushing
    <3> QED BY <1>2, <2>3, <3>1 DEF FlushAdvances, Consumer
  <2> QED BY <2>1, <2>2, <2>3
<1>3. CASE WholeBatch
  <2>1. \/ Done
        \/ /\ at \in {"first", "second"} /\ at' = IF at = "first" THEN "second" ELSE "single"
           /\ UNCHANGED <<batch, single>>
    BY <1>3, Zenon DEF WholeBatch
  <2>2. CASE Done
    BY <1>1, <1>3, <2>2 DEF FlushAdvances, Consumer
  <2>3. CASE at = "first" /\ at' = "second" /\ UNCHANGED <<batch, single>>
    <3>1. Flushing' /\ FlushLeft' < FlushLeft
      BY <1>0, <2>3 DEF Flushing, FlushLeft
    <3> QED BY <1>3, <2>3, <3>1 DEF FlushAdvances, Consumer
  <2>4. CASE at = "second" /\ at' = "single" /\ UNCHANGED <<batch, single>>
    <3>1. Flushing' /\ FlushLeft' < FlushLeft
      BY <1>0, <2>4 DEF Flushing, FlushLeft
    <3> QED BY <1>3, <2>4, <3>1 DEF FlushAdvances, Consumer
  <2> QED BY <2>1, <2>2, <2>3, <2>4
<1>4. CASE OneEvent
  <2>1. /\ at = "single" /\ single <= Len(batch) /\ UNCHANGED <<at, batch>>
        /\ single' = single + 1 \/ single' = Len(batch) + 1
    BY <1>4, Zenon DEF OneEvent, SkipOne
  <2>2. FlushLeft = Len(batch) + 1 - single /\ FlushLeft' = Len(batch) + 1 - single'
    BY <2>1 DEF FlushLeft
  <2>3. Flushing' /\ FlushLeft' < FlushLeft
    BY <1>0, <2>1, <2>2 DEF Flushing
  <2> QED BY <1>4, <2>1, <2>3 DEF FlushAdvances, Consumer
<1>5. CASE EndFallback
  <2>1. Done
    BY <1>5 DEF EndFallback
  <2> QED BY <1>1, <1>5, <2>1 DEF FlushAdvances, Consumer
<1>6. CASE ~Consumer
  <2>1. UNCHANGED <<at, batch, single, failures>>
    BY <1>6 DEF Next, PushRow, PushDaily, Stop, reporterVars
  <2> QED BY <1>6, <2>1 DEF FlushAdvances
<1>7. ~(PopEvent \/ StartFlush \/ EndLoop)
  BY DEF PopEvent, StartFlush, EndLoop, Flushing
<1> QED BY <1>2, <1>3, <1>4, <1>5, <1>6, <1>7 DEF Consumer

(* flush_batch returns after a bounded number of transactions, having       *)
(* emptied the batch, or kept it unchanged after a first failure to connect;*)
(* consumer_loop never gets it back a second time.                          *)
THEOREM EveryFlushEnds == Spec => FlushesEnd
<1>1. Typed => (Flushing => FlushLeft \in 0..(Len(batch) + 3))
  BY FlushLeftType
<1>2. Typed /\ [Next]_reporterVars => [FlushAdvances]_reporterVars
  BY FlushStep
<1> QED BY <1>1, <1>2, InitTyped, TypedStep, PTL DEF Spec, FlushesEnd

=============================================================================
