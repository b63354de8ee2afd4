----------------------------- MODULE PgReporter -----------------------------
(***************************************************************************)
(* db::PgReporter (src/db/pg_reporter.cpp): the engine's threads push      *)
(* events onto a ring (an abstract one here, see SpscRing), the consumer   *)
(* thread collects them into batches and writes each batch in a            *)
(* transaction, falling back to one transaction per event when a batch     *)
(* fails twice.  Daily P&L events are coalesced: one row a day, written at *)
(* the change of the date or at the end.                                   *)
(*                                                                         *)
(* The database may refuse a connection or a transaction at any time, and  *)
(* may commit a transaction whose confirmation is lost.  The connection    *)
(* pool is left out: a flush uses one connection and any attempt to open   *)
(* it may fail.                                                            *)
(***************************************************************************)
EXTENDS Naturals, Sequences

CONSTANTS
  RingCap,    (* capacity of the event ring                            *)
  BatchSize,  (* reporter.batch_size                                   *)
  Bad,        (* rows the database rejects                             *)
  Dates,      (* UTC dates: consecutive numbers                        *)
  MaxEvents   (* bound: rows and daily events pushed                   *)

ASSUME PgReporterAssumption ==
  /\ RingCap \in Nat \ {0} /\ BatchSize \in Nat \ {0} /\ MaxEvents \in Nat
  /\ Bad \subseteq Nat /\ Dates \subseteq Nat /\ Dates # {}

VARIABLES
  running,  (* running_                                                *)
  ring,     (* ring_                                                   *)
  batch,    (* the consumer's batch                                    *)
  day,      (* current_day_, or NoDay                                  *)
  failures, (* consecutive_failures_                                   *)
  at,       (* the consumer's progress                                 *)
  final,    (* it is past its loop                                     *)
  single,   (* the next event of the one-by-one fallback               *)
  rows,     (* the database: rows inserted, in order                   *)
  days,     (* the database: total of each row of daily_pnl, or NoRow  *)
  date,     (* today                                                   *)
  pnl,      (* P&L of the engine since it started                      *)
  pushed,   (* rows pushed so far                                      *)
  accepted, (* history: rows the ring accepted                         *)
  latest,   (* history: last total the ring accepted for each date     *)
  dailies,  (* daily events pushed so far                              *)
  faulty,   (* history: the database failed some call                  *)
  doubtful  (* history: a commit's confirmation was lost               *)

producerVars == <<running, date, pnl, pushed, accepted, latest, dailies>>
historyVars == <<faulty, doubtful>>
reporterVars == <<producerVars, historyVars, ring, batch, day, failures, at, final,
                  single, rows, days>>

NoRow == MaxEvents + 1
NoDay == [kind |-> "none"]
Row(n) == [kind |-> "row", id |-> n]
Daily(d, t) == [kind |-> "daily", date |-> d, total |-> t]
Rows == {Row(n) : n \in 1..MaxEvents}
Dailies == {Daily(d, t) : d \in Dates, t \in 0..MaxEvents}

Init ==
  /\ running = TRUE /\ ring = <<>> /\ batch = <<>> /\ day = NoDay
  /\ failures = 0 /\ at = "drain" /\ final = FALSE /\ single = 1
  /\ rows = <<>> /\ days = [d \in Dates |-> NoRow]
  /\ date = CHOOSE d \in Dates : \A e \in Dates : d <= e
  /\ pnl = 0 /\ pushed = 0 /\ accepted = {} /\ latest = [d \in Dates |-> NoRow]
  /\ dailies = 0 /\ faulty = FALSE /\ doubtful = FALSE

-----------------------------------------------------------------------------
(* Producers.  A full ring drops the event. *)

RingFullLate == Len(ring) > RingCap
RingFull == Len(ring) >= RingCap

PushRow ==
  /\ running /\ pushed + dailies < MaxEvents
  /\ pushed' = pushed + 1
  /\ IF RingFull THEN UNCHANGED <<ring, accepted>>
     ELSE /\ ring' = Append(ring, Row(pushed'))
          /\ accepted' = accepted \cup {pushed'}
  /\ UNCHANGED <<running, date, pnl, latest, dailies, historyVars, batch, day, failures,
                 at, final, single, rows, days>>

(* The snapshot thread, once a second: the P&L may have grown, the date     *)
(* changed.                                                                 *)
PushDaily ==
  /\ running /\ pushed + dailies < MaxEvents
  /\ dailies' = dailies + 1
  /\ pnl' \in {pnl, pnl + 1}
  /\ date' \in {date, date + 1} \cap Dates
  /\ IF RingFull THEN UNCHANGED <<ring, latest>>
     ELSE /\ ring' = Append(ring, Daily(date', pnl'))
          /\ latest' = [latest EXCEPT ![date'] = pnl']
  /\ UNCHANGED <<running, pushed, accepted, historyVars, batch, day, failures,
                 at, final, single, rows, days>>

(* stop(), after every producer has ended. *)
Stop ==
  /\ running
  /\ running' = FALSE
  /\ UNCHANGED <<date, pnl, pushed, accepted, latest, dailies, historyVars, ring, batch,
                 day, failures, at, final, single, rows, days>>

-----------------------------------------------------------------------------
(* consumer_loop: filling the batch *)

(* A daily event of a new date writes the old date's row first. *)
RolledOverAfterUpdate(e) ==
  IF day # NoDay /\ day.date # e.date THEN Append(batch, Daily(day.date, e.total)) ELSE batch
RolledOver(e) ==
  IF day # NoDay /\ day.date # e.date THEN Append(batch, day) ELSE batch

PopEvent ==
  /\ at = "drain" /\ ~final /\ ring # <<>>
  /\ Len(batch) < 2 * BatchSize
  /\ ring' = Tail(ring)
  /\ LET e == Head(ring)
     IN \/ e.kind = "row" /\ batch' = Append(batch, e) /\ UNCHANGED day
        \/ e.kind = "daily" /\ batch' = RolledOver(e) /\ day' = e
  /\ UNCHANGED <<producerVars, historyVars, failures, at, final, single, rows, days>>

(* A full batch is flushed, a smaller one when it has waited long enough.   *)
StartFlush ==
  /\ at = "drain" /\ ~final /\ batch # <<>>
  /\ ring = <<>> \/ Len(batch) >= 2 * BatchSize
  /\ at' = "first"
  /\ UNCHANGED <<producerVars, historyVars, ring, batch, day, failures, final, single,
                 rows, days>>

(* After the loop: the current day, then what is left in the ring. *)
EndLoop ==
  /\ at = "drain" /\ ~final /\ ~running
  /\ final' = TRUE
  /\ batch' = (IF day = NoDay THEN batch ELSE Append(batch, day)) \o ring
  /\ at' = IF batch' = <<>> THEN "stopped" ELSE "first"
  /\ day' = NoDay
  /\ ring' = <<>>
  /\ UNCHANGED <<producerVars, historyVars, failures, single, rows, days>>

-----------------------------------------------------------------------------
(* flush_batch *)

BadIn(events) == \E i \in DOMAIN events : events[i].kind = "row" /\ events[i].id \in Bad

(* One statement: INSERT, or INSERT ... ON CONFLICT (date) DO UPDATE. *)
Executed(db, e) ==
  IF e.kind = "row" THEN [db EXCEPT !.rows = Append(db.rows, e.id)]
  ELSE [db EXCEPT !.days = [db.days EXCEPT ![e.date] = e.total]]

(* The database after a transaction of these events: one statement each. *)
Inserted(events) ==
  LET after[i \in 0..Len(events)] ==
        IF i = 0 THEN [rows |-> rows, days |-> days] ELSE Executed(after[i - 1], events[i])
  IN after[Len(events)]

Write(events) == rows' = Inserted(events).rows /\ days' = Inserted(events).days
Fault == faulty' = TRUE /\ UNCHANGED doubtful
NoFault == UNCHANGED historyVars

(* A transaction of these events that commits; that fails; that commits and *)
(* reports a failure.                                                       *)
Commits(events) == ~BadIn(events) /\ Write(events) /\ NoFault
Fails(events) ==
  /\ UNCHANGED <<rows, days>>
  /\ (BadIn(events) /\ NoFault) \/ Fault
InDoubt(events) == ~BadIn(events) /\ Write(events) /\ faulty' = TRUE /\ doubtful' = TRUE

(* The batch is done with; a thread past its loop ends. *)
KeepBatch == batch
NoBatch == <<>>
Done ==
  /\ batch' = NoBatch /\ failures' = 0 /\ single' = 1
  /\ at' = IF final THEN "stopped" ELSE "drain"

(* A connection cannot be opened: the batch is kept, and dropped at the     *)
(* second failure in a row.  The last flush of the thread is not repeated.  *)
NeverDrop == FALSE
DropBatch == failures + 1 >= 2
ConnectFails ==
  /\ at \in {"first", "second"} \/ (at = "single" /\ single = 1)
  /\ Fault
  /\ \/ /\ DropBatch \/ final
        /\ Done
     \/ /\ ~DropBatch /\ ~final
        /\ failures' = 1
        /\ at' = "drain"
        /\ UNCHANGED <<batch, single>>
  /\ UNCHANGED <<producerVars, ring, day, final, rows, days>>

(* try_whole_batch, twice. *)
WholeBatch ==
  /\ at \in {"first", "second"}
  /\ \/ Commits(batch) /\ Done
     \/ /\ Fails(batch) \/ InDoubt(batch)
        /\ at' = IF at = "first" THEN "second" ELSE "single"
        /\ UNCHANGED <<batch, failures, single>>
  /\ UNCHANGED <<producerVars, ring, day, final>>

(* The fallback, one event at a time: a failed one is skipped; if the       *)
(* connection cannot be opened again the rest of the batch is abandoned.    *)
AbandonRest == single' = Len(batch) + 1
SkipOne == single' = single + 1

OneEvent ==
  /\ at = "single" /\ single <= Len(batch)
  /\ LET event == <<batch[single]>>
     IN \/ Commits(event) /\ single' = single + 1
        \/ (Fails(event) \/ InDoubt(event)) /\ SkipOne
        \/ /\ \/ UNCHANGED <<rows, days, doubtful>>
              \/ Write(event) /\ ~BadIn(event) /\ doubtful' = TRUE
           /\ faulty' = TRUE
           /\ single' = Len(batch) + 1
  /\ UNCHANGED <<producerVars, ring, batch, day, failures, at, final>>

EndFallback ==
  /\ at = "single" /\ single > Len(batch)
  /\ Done
  /\ UNCHANGED <<producerVars, historyVars, ring, day, final, rows, days>>

-----------------------------------------------------------------------------

Consumer ==
  \/ PopEvent \/ StartFlush \/ EndLoop
  \/ ConnectFails \/ WholeBatch \/ OneEvent \/ EndFallback

Next == PushRow \/ PushDaily \/ Stop \/ Consumer

(* The consumer thread runs until it ends. *)
Spec == Init /\ [][Next]_reporterVars
FairSpec == Spec /\ WF_reporterVars(Consumer)

-----------------------------------------------------------------------------
(* Properties *)

(* The type of every variable; the batch stays within its bound. *)
TypeOK ==
  /\ running \in BOOLEAN /\ final \in BOOLEAN /\ faulty \in BOOLEAN /\ doubtful \in BOOLEAN
  /\ ring \in Seq(Rows \cup Dailies) /\ Len(ring) <= RingCap
  /\ batch \in Seq(Rows \cup Dailies)
  /\ ~final => Len(batch) <= 2 * BatchSize
  /\ day \in Dailies \cup {NoDay}
  /\ failures \in 0..1 /\ single \in Nat \ {0}
  /\ at \in {"drain", "first", "second", "single", "stopped"}
  /\ rows \in Seq(1..MaxEvents)
  /\ days \in [Dates -> 0..NoRow] /\ latest \in [Dates -> 0..NoRow]
  /\ date \in Dates /\ pnl \in 0..MaxEvents
  /\ pushed \in Nat /\ dailies \in Nat /\ pushed + dailies <= MaxEvents
  /\ accepted \subseteq 1..MaxEvents

(* As long as the database works, every row the ring accepted is on its way *)
(* or in the database, but for the rows the database rejects: one bad row   *)
(* takes no other with it.                                                  *)
Ids(events) == {events[i].id : i \in {j \in DOMAIN events : events[j].kind = "row"}}
GoodRowsKept ==
  ~faulty => accepted \ Bad
               \subseteq Ids(ring) \cup Ids(batch) \cup {rows[i] : i \in DOMAIN rows}

(* Unless the confirmation of a commit was lost, the rows appear in the     *)
(* database once and in the order they were pushed, whatever was retried.   *)
OnceInOrder == ~doubtful => \A i, j \in DOMAIN rows : i < j => rows[i] < rows[j]

(* At the end each date's row shows the last total pushed for that date,    *)
(* however pushes, rollovers and the shutdown drain interleaved.            *)
DailyRowIsFinal == at = "stopped" /\ ~faulty => days = latest

(* A batch never stays for ever, even with a database that never recovers.  *)
BatchLeaves == batch # <<>> ~> batch = <<>>

(* dashboard_backend/server.go sums daily_pnl into cum_total and the P&L    *)
(* page plots the running sum as "CUMULATIVE P&L": the rows of daily_pnl    *)
(* add up to the P&L the engine reported.                                   *)
RowSum ==
  LET sum[s \in SUBSET Dates] ==
        IF s = {} THEN 0
        ELSE LET d == CHOOSE d \in s : TRUE
             IN sum[s \ {d}] + (IF days[d] = NoRow THEN 0 ELSE days[d])
  IN sum[Dates]
DailyRowsAddUp == at = "stopped" /\ ~faulty /\ days[date] = pnl => RowSum = pnl

=============================================================================
