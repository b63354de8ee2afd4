----------------------------- MODULE MarketFeed -----------------------------
(***************************************************************************)
(* The market data of a trading process that records (--record), from the  *)
(* public stream to the archive: the WebSocket client's dispatch pushes    *)
(* events onto a ring, the tick processor keeps the order book and puts a  *)
(* snapshot of it on the recorder's ring, the recorder appends it to a     *)
(* file; main stops them in an order, or the process dies, and a later one *)
(* writes a file of its own.                                               *)
(*                                                                         *)
(* A book is its best bid and ask and a size; timestamps, the volatility   *)
(* and the last trade are left out, and so is the strategy's own ring,     *)
(* which gets the same snapshots.  OKX sends whole books only: the         *)
(* processor's path for incremental updates never runs and is not here.    *)
(***************************************************************************)
EXTENDS Integers, Sequences

CONSTANTS
  Mids,        (* mid prices of the venue's books                       *)
  Sizes,       (* sizes at their best levels                            *)
  HalfSpread,  (* distance of a best price from the mid                 *)
  EventCap,    (* capacity of the event ring                            *)
  TapeCap,     (* capacity of the recorder's snapshot ring              *)
  MaxEvents,   (* bound: events of all processes                        *)
  MaxSessions  (* bound: processes run one after the other              *)

ASSUME MarketFeedAssumption ==
  /\ Mids \subseteq Nat /\ HalfSpread \in Nat \ {0} /\ \A m \in Mids : m > HalfSpread
  /\ Sizes \subseteq Nat \ {0}
  /\ EventCap \in Nat \ {0} /\ TapeCap \in Nat \ {0}
  /\ MaxEvents \in Nat /\ MaxSessions \in Nat \ {0}

VARIABLES
  stage,    (* of the process: see Stages                               *)
  sent,     (* events so far                                            *)
  events,   (* the event ring                                           *)
  book,     (* the processor's order book                               *)
  tape,     (* the recorder's snapshot ring                             *)
  file,     (* what the recorder has written                            *)
  archives, (* the files of the processes that have ended               *)
  latest,   (* history: book of the last depth event the ring took      *)
  taped,    (* history: per process, the snapshots its tape took        *)
  exits     (* history: the processes that ended in main's order        *)

feedVars == <<stage, sent, events, book, tape, file, archives, latest, taped, exits>>

Books == [mid : Mids, size : Sizes]
Bid(b) == b.mid - HalfSpread
Ask(b) == b.mid + HalfSpread
NoBook == [mid |-> 0, size |-> 0]
HasData(b) == b # NoBook

Events == [type : {"ticker", "depth"}, top : Books] \cup {[type |-> "trade", top |-> NoBook]}

(* Up; the streams closed; the processor joined; the process gone. *)
Stages == {"up", "closing", "drained", "down"}
Archives == [records : Seq(Books), torn : BOOLEAN]

FeedInit ==
  /\ stage = "up" /\ sent = 0 /\ events = <<>> /\ book = NoBook
  /\ tape = <<>> /\ file = <<>> /\ latest = NoBook
  /\ archives = <<>> /\ taped = <<<<>>>> /\ exits = {}

-----------------------------------------------------------------------------
(* WebSocket client: dispatch of tickers, books5 and trades *)

Pushed(ring, cap, m) == IF Len(ring) < cap THEN Append(ring, m) ELSE ring

Dispatch(e) ==
  /\ stage = "up" /\ sent < MaxEvents
  /\ sent' = sent + 1
  /\ events' = Pushed(events, EventCap, e)
  /\ latest' = IF e.type = "depth" /\ Len(events) < EventCap THEN e.top ELSE latest
  /\ UNCHANGED <<stage, book, tape, file, archives, taped, exits>>

-----------------------------------------------------------------------------
(* Tick processor: process_event and emit_snapshot *)

(* A ticker seeds an empty book only; a depth event is a whole book. *)
BookFromAnyTicker(e) == IF e.type = "trade" THEN book ELSE e.top
BookAfter(e) ==
  CASE e.type = "depth" -> e.top
    [] e.type = "ticker" /\ ~HasData(book) -> e.top
    [] OTHER -> book

(* A snapshot the ring has no room for is dropped. *)
ProcessEvent ==
  /\ stage \in {"up", "closing"} /\ events # <<>>
  /\ events' = Tail(events)
  /\ book' = BookAfter(Head(events))
  /\ IF HasData(book')
     THEN /\ tape' = Pushed(tape, TapeCap, book')
          /\ taped' = IF Len(tape) < TapeCap
                      THEN [taped EXCEPT ![Len(taped)] = Append(@, book')] ELSE taped
     ELSE UNCHANGED <<tape, taped>>
  /\ UNCHANGED <<stage, sent, file, archives, latest, exits>>

-----------------------------------------------------------------------------
(* Recorder thread: one record, or one of the drain after stop(). *)
Write ==
  /\ stage # "down" /\ tape # <<>>
  /\ file' = Append(file, Head(tape))
  /\ tape' = Tail(tape)
  /\ UNCHANGED <<stage, sent, events, book, archives, latest, taped, exits>>

-----------------------------------------------------------------------------
(* main: the streams end and the strategy is joined; processor.stop() drains *)
(* the event ring, recorder.stop() its own.                                  *)

CloseStreams ==
  /\ stage = "up"
  /\ stage' = "closing"
  /\ UNCHANGED <<sent, events, book, tape, file, archives, latest, taped, exits>>

JoinProcessor ==
  /\ stage = "closing" /\ events = <<>>
  /\ stage' = "drained"
  /\ UNCHANGED <<sent, events, book, tape, file, archives, latest, taped, exits>>

RecorderLeaves == TRUE
RecorderDone == tape = <<>>

(* The process is gone, and a file is left. *)
Ends(archive) ==
  /\ stage' = "down" /\ events' = <<>> /\ book' = NoBook
  /\ tape' = <<>> /\ file' = <<>> /\ latest' = NoBook
  /\ archives' = Append(archives, archive)
  /\ UNCHANGED <<sent, taped>>

JoinRecorder ==
  /\ stage = "drained" /\ RecorderDone
  /\ Ends([records |-> file, torn |-> FALSE])
  /\ exits' = exits \cup {Len(archives')}

(* The process dies: of what the recorder wrote, a prefix is in the file,   *)
(* possibly followed by a part of the next record.                          *)
Crash ==
  /\ stage # "down"
  /\ \E n \in 0..Len(file), torn \in BOOLEAN :
       (torn => n < Len(file)) /\ Ends([records |-> SubSeq(file, 1, n), torn |-> torn])
  /\ UNCHANGED exits

(* The next process opens a file of its own, named by the time. *)
Restart ==
  /\ stage = "down" /\ Len(archives) < MaxSessions
  /\ stage' = "up"
  /\ taped' = Append(taped, <<>>)
  /\ UNCHANGED <<sent, events, book, tape, file, archives, latest, exits>>

FeedNext ==
  \/ \E e \in Events : Dispatch(e)
  \/ ProcessEvent \/ Write
  \/ CloseStreams \/ JoinProcessor \/ JoinRecorder \/ Crash \/ Restart

FeedSpec == FeedInit /\ [][FeedNext]_feedVars

-----------------------------------------------------------------------------
(* Properties *)

FeedTypeOK ==
  /\ stage \in Stages /\ sent \in 0..MaxEvents
  /\ events \in Seq(Events) /\ Len(events) <= EventCap
  /\ book \in Books \cup {NoBook}
  /\ latest \in Books \cup {NoBook}
  /\ tape \in Seq(Books) /\ Len(tape) <= TapeCap
  /\ file \in Seq(Books) /\ archives \in Seq(Archives)
  /\ taped \in Seq(Seq(Books)) /\ exits \subseteq 1..Len(archives)

(* Once the processor has caught up, its book is the last whole book the    *)
(* ring took, whatever tickers, trades and dropped events came around it.   *)
BookIsCurrent == events = <<>> /\ HasData(latest) => book = latest

(* A process that ends in main's order leaves every snapshot its tape took  *)
(* in its archive, also those of events that were still in the ring when    *)
(* the streams closed.                                                      *)
ExitKeepsTape == \A i \in exits : archives[i].records = taped[i]

=============================================================================
