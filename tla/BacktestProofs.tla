-------------------------- MODULE BacktestProofs --------------------------
(***************************************************************************)
(* Theorems about the recording processes, for every ring capacity, number *)
(* of events and number of processes, and about the replay of what they    *)
(* recorded, for every configuration of the strategy and the risk gate.    *)
(***************************************************************************)
EXTENDS Backtest, FiniteSetTheorems, SequenceTheorems, TLAPS

-----------------------------------------------------------------------------
(* Types *)

(* A book has data, the empty one has none; an event is a record. *)
LEMMA BookFacts ==
  /\ \A b \in Books : HasData(b)
  /\ ~HasData(NoBook)
BY MarketFeedAssumption DEF Books, NoBook, HasData, MarketFeedAssumption

LEMMA EventFacts ==
  ASSUME NEW e \in Events
  PROVE  /\ e.type \in {"ticker", "depth", "trade"}
         /\ e.type # "trade" => e.top \in Books
BY DEF Events

(* A push keeps the messages and the bound of a ring. *)
LEMMA PushedType ==
  ASSUME NEW S, NEW ring \in Seq(S), NEW cap \in Nat, NEW m \in S, Len(ring) <= cap
  PROVE  Pushed(ring, cap, m) \in Seq(S) /\ Len(Pushed(ring, cap, m)) <= cap
BY LenProperties, AppendProperties DEF Pushed

LEMMA BookAfterType ==
  ASSUME NEW e \in Events, book \in Books \cup {NoBook}
  PROVE  BookAfter(e) \in Books \cup {NoBook}
BY EventFacts DEF BookAfter

(* What the end of a process leaves of the types. *)
LEMMA EndsType ==
  ASSUME FeedTypeOK, NEW a \in Archives, Ends(a)
  PROVE  /\ archives' \in Seq(Archives) /\ Len(archives') = Len(archives) + 1
         /\ exits \subseteq 1..Len(archives')
         /\ stage' \in Stages /\ sent' \in 0..MaxEvents
         /\ events' \in Seq(Events) /\ Len(events') <= EventCap
         /\ book' \in Books \cup {NoBook}
         /\ latest' \in Books \cup {NoBook}
         /\ tape' \in Seq(Books) /\ Len(tape') <= TapeCap
         /\ file' \in Seq(Books)
         /\ taped' \in Seq(Seq(Books))
<1>1. archives' \in Seq(Archives) /\ Len(archives') = Len(archives) + 1
  BY AppendProperties DEF Ends, FeedTypeOK
<1>2. Len(archives) \in Nat
  BY LenProperties DEF FeedTypeOK
<1>3. exits \subseteq 1..Len(archives')
  BY <1>1, <1>2 DEF FeedTypeOK
<1>4. events' = <<>> /\ tape' = <<>> /\ file' = <<>>
  BY DEF Ends
<1>5. /\ events' \in Seq(Events) /\ Len(events') <= EventCap
      /\ tape' \in Seq(Books) /\ Len(tape') <= TapeCap
      /\ file' \in Seq(Books)
  BY <1>4, EmptySeq, MarketFeedAssumption DEF MarketFeedAssumption
<1>6. /\ stage' \in Stages /\ sent' \in 0..MaxEvents
      /\ book' \in Books \cup {NoBook} /\ latest' \in Books \cup {NoBook}
      /\ taped' \in Seq(Seq(Books))
  BY DEF Ends, FeedTypeOK, Stages
<1> QED
  BY <1>1, <1>3, <1>5, <1>6

LEMMA FeedTypeInit == FeedInit => FeedTypeOK
<1> SUFFICES ASSUME FeedInit PROVE FeedTypeOK
  OBVIOUS
<1>1. \A S : <<>> \in Seq(S)
  BY EmptySeq
<1>2. taped \in Seq(Seq(Books))
  <2>1. Append(<<>>, <<>>) \in Seq(Seq(Books))
    BY <1>1, AppendProperties
  <2>2. Append(<<>>, <<>>) = <<<<>>>>
    OBVIOUS
  <2> QED
    BY <2>1, <2>2 DEF FeedInit
<1> QED
  BY <1>1, <1>2, MarketFeedAssumption DEF FeedInit, FeedTypeOK, Stages, MarketFeedAssumption

LEMMA FeedTypeStep == FeedTypeOK /\ [FeedNext]_feedVars => FeedTypeOK'
<1> SUFFICES ASSUME FeedTypeOK, [FeedNext]_feedVars PROVE FeedTypeOK'
  OBVIOUS
<1> USE MarketFeedAssumption DEF MarketFeedAssumption
<1>1. ASSUME NEW e \in Events, Dispatch(e) PROVE FeedTypeOK'
  <2>1. events' \in Seq(Events) /\ Len(events') <= EventCap
    BY <1>1, PushedType DEF FeedTypeOK, Dispatch
  <2>2. latest' \in Books \cup {NoBook}
    BY <1>1, EventFacts DEF FeedTypeOK, Dispatch
  <2>3. sent' \in 0..MaxEvents
    BY <1>1 DEF FeedTypeOK, Dispatch
  <2> QED
    BY <1>1, <2>1, <2>2, <2>3 DEF FeedTypeOK, Dispatch
<1>2. CASE ProcessEvent
  <2>1. Head(events) \in Events /\ events' \in Seq(Events) /\ Len(events') <= EventCap
    BY <1>2, HeadTailProperties, LenProperties DEF FeedTypeOK, ProcessEvent
  <2>2. book' \in Books \cup {NoBook}
    BY <1>2, <2>1, BookAfterType DEF FeedTypeOK, ProcessEvent
  <2>3. CASE HasData(book')
    <3>1. book' \in Books
      BY <2>2, <2>3 DEF HasData
    <3>2. tape' \in Seq(Books) /\ Len(tape') <= TapeCap
      BY <1>2, <2>3, <3>1, PushedType DEF FeedTypeOK, ProcessEvent
    <3>3. taped' \in Seq(Seq(Books))
      <4>1. CASE Len(tape) < TapeCap
        <5>1. taped' = [taped EXCEPT ![Len(taped)] = Append(@, book')]
          BY <1>2, <2>3, <4>1 DEF ProcessEvent
        <5>2. CASE Len(taped) \in 1..Len(taped)
          <6>1. Append(taped[Len(taped)], book') \in Seq(Books)
            BY <3>1, <5>2, ElementOfSeq, AppendProperties DEF FeedTypeOK
          <6> QED
            BY <5>1, <5>2, <6>1, ExceptSeq DEF FeedTypeOK
        <5>3. CASE Len(taped) \notin 1..Len(taped)
          <6>1. Len(taped) \notin DOMAIN taped /\ taped \in [1..Len(taped) -> Seq(Books)]
            BY <5>3, LenProperties DEF FeedTypeOK
          <6>2. [taped EXCEPT ![Len(taped)] = Append(@, book')] = taped
            BY <6>1
          <6> QED
            BY <5>1, <6>2 DEF FeedTypeOK
        <5> QED
          BY <5>2, <5>3
      <4>2. CASE ~(Len(tape) < TapeCap)
        BY <1>2, <2>3, <4>2 DEF FeedTypeOK, ProcessEvent
      <4> QED
        BY <4>1, <4>2
    <3> QED
      BY <1>2, <2>1, <2>2, <3>2, <3>3 DEF FeedTypeOK, ProcessEvent
  <2>4. CASE ~HasData(book')
    BY <1>2, <2>1, <2>2, <2>4 DEF FeedTypeOK, ProcessEvent
  <2> QED
    BY <2>3, <2>4
<1>3. CASE Write
  <2>1. /\ Head(tape) \in Books /\ tape' \in Seq(Books) /\ Len(tape') <= TapeCap
    BY <1>3, HeadTailProperties, LenProperties DEF FeedTypeOK, Write
  <2>2. file' \in Seq(Books)
    BY <1>3, <2>1, AppendProperties DEF FeedTypeOK, Write
  <2> QED
    BY <1>3, <2>1, <2>2 DEF FeedTypeOK, Write
<1>4. CASE CloseStreams \/ JoinProcessor
  BY <1>4 DEF FeedTypeOK, CloseStreams, JoinProcessor, Stages
<1>5. CASE JoinRecorder
  <2>1. [records |-> file, torn |-> FALSE] \in Archives
    BY DEF FeedTypeOK, Archives
  <2>2. exits' = exits \cup {Len(archives')} /\ Ends([records |-> file, torn |-> FALSE])
    BY <1>5 DEF JoinRecorder
  <2>3. Len(archives) \in Nat
    BY LenProperties DEF FeedTypeOK
  <2>4. exits' \subseteq 1..Len(archives')
    BY <2>1, <2>2, <2>3, EndsType
  <2> QED
    BY <2>1, <2>2, <2>4, EndsType DEF FeedTypeOK
<1>6. CASE Crash
  <2>1. PICK n \in 0..Len(file), torn \in BOOLEAN :
          Ends([records |-> SubSeq(file, 1, n), torn |-> torn])
    BY <1>6 DEF Crash
  <2>2. Len(file) \in Nat /\ \A i \in 1..n : file[i] \in Books
    BY LenProperties, ElementOfSeq DEF FeedTypeOK
  <2>3. SubSeq(file, 1, n) \in Seq(Books)
    BY <2>2, SubSeqProperties
  <2>4. [records |-> SubSeq(file, 1, n), torn |-> torn] \in Archives
    BY <2>3 DEF Archives
  <2> QED
    BY <1>6, <2>1, <2>4, EndsType DEF Crash, FeedTypeOK
<1>7. CASE Restart
  <2>1. taped' \in Seq(Seq(Books))
    BY <1>7, EmptySeq, AppendProperties DEF FeedTypeOK, Restart
  <2> QED
    BY <1>7, <2>1 DEF FeedTypeOK, Restart, Stages
<1>8. CASE UNCHANGED feedVars
  BY <1>8 DEF FeedTypeOK, feedVars
<1> QED
  BY <1>1, <1>2, <1>3, <1>4, <1>5, <1>6, <1>7, <1>8 DEF FeedNext

(* Every variable keeps its type, for every capacity and bound. *)
THEOREM FeedTypeCorrect == FeedSpec => []FeedTypeOK
<1> QED
  BY FeedTypeInit, FeedTypeStep, PTL DEF FeedSpec

-----------------------------------------------------------------------------
(* The processor's book *)

(* What makes BookIsCurrent inductive: while the last whole book the ring   *)
(* took is still in it, no whole book is queued behind that one; afterwards *)
(* it is the processor's book.                                              *)
IsDepth(i) == events[i].type = "depth"
Current ==
  HasData(latest) =>
    \/ /\ \A i \in 1..Len(events) : ~IsDepth(i)
       /\ book = latest
    \/ \E i \in 1..Len(events) :
         /\ IsDepth(i) /\ events[i].top = latest
         /\ \A j \in 1..Len(events) : j > i => ~IsDepth(j)

LEMMA DispatchKeepsCurrent ==
  ASSUME FeedTypeOK, Current, NEW e \in Events, Dispatch(e)
  PROVE  Current'
<1> USE DEF Current, IsDepth
<1>1. Len(events) \in Nat
  BY LenProperties DEF FeedTypeOK
<1>2. CASE ~(Len(events) < EventCap)
  BY <1>2 DEF Dispatch, Pushed
<1>3. CASE Len(events) < EventCap
  <2>1. /\ Len(events') = Len(events) + 1
        /\ \A i \in 1..Len(events) : events'[i] = events[i]
        /\ events'[Len(events) + 1] = e
    BY <1>3, AppendProperties DEF FeedTypeOK, Dispatch, Pushed
  <2>2. CASE e.type = "depth"
    <3>1. latest' = e.top /\ Len(events) + 1 \in 1..Len(events')
      BY <1>1, <1>3, <2>1, <2>2 DEF Dispatch
    <3> QED
      BY <1>1, <2>1, <2>2, <3>1
  <2>3. CASE e.type # "depth"
    <3>1. latest' = latest /\ book' = book
      BY <2>3 DEF Dispatch
    <3>2. CASE HasData(latest) /\ (\A i \in 1..Len(events) : ~IsDepth(i)) /\ book = latest
      BY <1>1, <2>1, <2>3, <3>1, <3>2
    <3>3. ASSUME NEW i \in 1..Len(events), IsDepth(i), events[i].top = latest,
                 \A j \in 1..Len(events) : j > i => ~IsDepth(j)
          PROVE  Current'
      BY <1>1, <2>1, <2>3, <3>1, <3>3
    <3>4. CASE ~HasData(latest)
      BY <3>1, <3>4 DEF HasData
    <3> QED
      BY <3>2, <3>3, <3>4
  <2> QED
    BY <2>2, <2>3
<1> QED
  BY <1>2, <1>3

LEMMA ProcessKeepsCurrent ==
  ASSUME FeedTypeOK, Current, ProcessEvent
  PROVE  Current'
<1> USE DEF Current, IsDepth
<1>1. /\ Len(events) \in Nat \ {0}
      /\ Len(events') = Len(events) - 1
      /\ \A i \in 1..Len(events') : events'[i] = events[i + 1]
  BY EmptySeq, HeadTailProperties DEF FeedTypeOK, ProcessEvent
<1>2. Head(events) = events[1] /\ book' = BookAfter(Head(events)) /\ latest' = latest
  BY DEF ProcessEvent
<1>3. CASE HasData(latest) /\ (\A i \in 1..Len(events) : ~IsDepth(i)) /\ book = latest
  <2>1. book' = latest
    BY <1>1, <1>2, <1>3 DEF BookAfter
  <2> QED
    BY <1>1, <1>2, <1>3, <2>1
<1>4. ASSUME NEW i \in 1..Len(events), IsDepth(i), events[i].top = latest,
             \A j \in 1..Len(events) : j > i => ~IsDepth(j)
      PROVE  Current'
  <2>1. CASE i = 1
    <3>1. book' = latest
      BY <1>2, <1>4, <2>1 DEF BookAfter
    <3>2. \A j \in 1..Len(events') : ~IsDepth(j)'
      BY <1>1, <1>4, <2>1
    <3> QED
      BY <1>2, <3>1, <3>2
  <2>2. CASE i # 1
    <3>1. i - 1 \in 1..Len(events') /\ events'[i - 1] = events[i]
      BY <1>1, <1>4, <2>2
    <3>2. \A j \in 1..Len(events') : j > i - 1 => ~IsDepth(j)'
      BY <1>1, <1>4
    <3> QED
      BY <1>2, <1>4, <3>1, <3>2
  <2> QED
    BY <2>1, <2>2
<1>5. CASE ~HasData(latest)
  BY <1>2, <1>5 DEF HasData
<1> QED
  BY <1>3, <1>4, <1>5

LEMMA CurrentStep == FeedTypeOK /\ Current /\ [FeedNext]_feedVars => Current'
<1> SUFFICES ASSUME FeedTypeOK, Current, [FeedNext]_feedVars PROVE Current'
  OBVIOUS
<1>1. ASSUME NEW a, Ends(a) PROVE Current'
  BY <1>1, BookFacts DEF Ends, Current
<1>2. CASE Write \/ CloseStreams \/ JoinProcessor \/ Restart \/ UNCHANGED feedVars
  BY <1>2 DEF Write, CloseStreams, JoinProcessor, Restart, feedVars, Current, IsDepth, HasData
<1>3. CASE JoinRecorder \/ Crash
  BY <1>1, <1>3 DEF JoinRecorder, Crash
<1> QED
  BY <1>2, <1>3, DispatchKeepsCurrent, ProcessKeepsCurrent DEF FeedNext

(* Once the ring is empty the book is the last whole book it took, however  *)
(* many tickers, trades and dropped events came around it and however often *)
(* the process died.                                                        *)
THEOREM BookStaysCurrent == FeedSpec => []BookIsCurrent
<1>1. FeedInit => Current
  BY BookFacts DEF FeedInit, Current
<1>2. FeedTypeOK /\ Current => BookIsCurrent
  BY EmptySeq DEF FeedTypeOK, Current, BookIsCurrent
<1> QED
  BY <1>1, <1>2, CurrentStep, FeedTypeCorrect, PTL DEF FeedSpec

-----------------------------------------------------------------------------
(* The tape *)

(* What makes ExitKeepsTape inductive: the tape of the running process is   *)
(* what its recorder has written and what waits in its ring, and the tapes  *)
(* of the others belong to the archives in order.                           *)
Recorded ==
  /\ stage = "down" => Len(taped) = Len(archives) /\ tape = <<>> /\ file = <<>>
  /\ stage # "down" => /\ Len(taped) = Len(archives) + 1
                       /\ taped[Len(taped)] = file \o tape
  /\ ExitKeepsTape

(* The head of the ring moves to the file: the tape stays the same. *)
LEMMA MoveHead ==
  ASSUME NEW S, NEW front \in Seq(S), NEW t \in Seq(S), t # <<>>
  PROVE  Append(front, Head(t)) \o Tail(t) = front \o t
<1> DEFINE left == Append(front, Head(t)) \o Tail(t)
           right == front \o t
<1>1. /\ Head(t) \in S /\ Head(t) = t[1] /\ Tail(t) \in Seq(S)
      /\ Len(Tail(t)) = Len(t) - 1
      /\ \A i \in 1..Len(Tail(t)) : Tail(t)[i] = t[i + 1]
  BY HeadTailProperties
<1>2. Len(front) \in Nat /\ Len(t) \in Nat \ {0}
  BY EmptySeq, LenProperties
<1>3. /\ Append(front, Head(t)) \in Seq(S)
      /\ Len(Append(front, Head(t))) = Len(front) + 1
      /\ \A i \in 1..Len(front) : Append(front, Head(t))[i] = front[i]
      /\ Append(front, Head(t))[Len(front) + 1] = t[1]
  BY <1>1, AppendProperties
<1>4. /\ left \in Seq(S) /\ Len(left) = Len(front) + Len(t)
      /\ \A i \in 1..Len(front) + Len(t) :
           left[i] = IF i <= Len(front) + 1 THEN Append(front, Head(t))[i]
                     ELSE Tail(t)[i - (Len(front) + 1)]
  <2>1. Len(front) + 1 + (Len(t) - 1) = Len(front) + Len(t)
    BY <1>2
  <2> QED
    BY <1>1, <1>3, <2>1, ConcatProperties
<1>5. /\ right \in Seq(S) /\ Len(right) = Len(front) + Len(t)
      /\ \A i \in 1..Len(front) + Len(t) :
           right[i] = IF i <= Len(front) THEN front[i] ELSE t[i - Len(front)]
  BY ConcatProperties
<1> HIDE DEF left, right
<1>6. ASSUME NEW i \in 1..Len(front) + Len(t) PROVE left[i] = right[i]
  <2>1. CASE i <= Len(front)
    BY <1>2, <1>3, <1>4, <1>5, <2>1
  <2>2. CASE i = Len(front) + 1
    <3>1. i - Len(front) = 1 /\ ~(i <= Len(front))
      BY <1>2, <2>2
    <3> QED
      BY <1>2, <1>3, <1>4, <1>5, <2>2, <3>1
  <2>3. CASE i > Len(front) + 1
    <3>1. /\ i - (Len(front) + 1) \in 1..Len(Tail(t))
          /\ (i - (Len(front) + 1)) + 1 = i - Len(front)
      BY <1>1, <1>2, <2>3
    <3>2. left[i] = Tail(t)[i - (Len(front) + 1)] /\ right[i] = t[i - Len(front)]
      BY <1>2, <1>4, <1>5, <2>3
    <3> QED
      BY <1>1, <3>1, <3>2
  <2> QED
    BY <1>2, <2>1, <2>2, <2>3
<1> QED
  BY <1>4, <1>5, <1>6, SeqEqual DEF left, right

LEMMA AppendAfter ==
  ASSUME NEW S, NEW front \in Seq(S), NEW t \in Seq(S), NEW e \in S
  PROVE  front \o Append(t, e) = Append(front \o t, e)
<1>1. <<e>> \in Seq(S) /\ front \o t \in Seq(S)
  BY ConcatProperties
<1>2. Append(t, e) = t \o <<e>> /\ Append(front \o t, e) = (front \o t) \o <<e>>
  BY <1>1, AppendIsConcat
<1> QED
  BY <1>1, <1>2, ConcatAssociative

(* The tapes of the processes that ended do not change. *)
LEMMA EndedTapesStay ==
  ASSUME FeedTypeOK, Recorded, stage # "down",
         archives' = archives, exits' = exits,
         taped' = taped \/ \E t \in Seq(Books) : taped' = [taped EXCEPT ![Len(taped)] = t]
  PROVE  /\ Len(taped') = Len(taped) /\ ExitKeepsTape'
         /\ \A i \in 1..Len(archives) : taped'[i] = taped[i]
<1>1. Len(archives) \in Nat /\ Len(taped) = Len(archives) + 1
  BY LenProperties DEF FeedTypeOK, Recorded
<1>2. /\ Len(taped') = Len(taped)
      /\ \A i \in 1..Len(archives) : taped'[i] = taped[i]
  <2>1. ASSUME NEW t \in Seq(Books), taped' = [taped EXCEPT ![Len(taped)] = t]
        PROVE  /\ Len(taped') = Len(taped)
               /\ \A i \in 1..Len(archives) : taped'[i] = taped[i]
    <3>1. Len(taped) \in 1..Len(taped)
      BY <1>1
    <3>2. /\ Len(taped') = Len(taped)
          /\ \A j \in 1..Len(taped) : taped'[j] = IF j = Len(taped) THEN t ELSE taped[j]
      BY <2>1, <3>1, ExceptSeq DEF FeedTypeOK
    <3>3. \A i \in 1..Len(archives) : i \in 1..Len(taped) /\ i # Len(taped)
      BY <1>1
    <3>4. ASSUME NEW i \in 1..Len(archives)
          PROVE  taped'[i] = taped[i]
      BY <3>2, <3>3
    <3> QED
      BY <3>2, <3>4
  <2>2. CASE taped' = taped
    BY <2>2
  <2>3. CASE \E t \in Seq(Books) : taped' = [taped EXCEPT ![Len(taped)] = t]
    BY <2>1, <2>3, Zenon
  <2> QED
    BY <2>2, <2>3, Zenon
<1>3. exits \subseteq 1..Len(archives)
  BY DEF FeedTypeOK
<1> QED
  BY <1>2, <1>3 DEF Recorded, ExitKeepsTape

LEMMA ProcessKeepsRecorded ==
  ASSUME FeedTypeOK, Recorded, ProcessEvent
  PROVE  Recorded'
<1>1. /\ stage # "down" /\ stage' = stage /\ file' = file
      /\ archives' = archives /\ exits' = exits
  BY DEF ProcessEvent
<1>2. Len(archives) \in Nat /\ Len(taped) = Len(archives) + 1
      /\ taped[Len(taped)] = file \o tape
  BY <1>1, LenProperties DEF FeedTypeOK, Recorded
<1>3. CASE tape' = tape /\ taped' = taped
  BY <1>1, <1>2, <1>3, EndedTapesStay DEF Recorded
<1>4. CASE HasData(book') /\ Len(tape) < TapeCap
  <2>1. book' \in Books
    <3>1. Head(events) \in Events
      BY HeadTailProperties DEF FeedTypeOK, ProcessEvent
    <3>2. book' \in Books \cup {NoBook}
      BY <3>1, BookAfterType DEF FeedTypeOK, ProcessEvent
    <3> QED
      BY <1>4, <3>2 DEF HasData
  <2>2. /\ tape' = Append(tape, book')
        /\ taped' = [taped EXCEPT ![Len(taped)] = Append(file \o tape, book')]
    BY <1>2, <1>4 DEF ProcessEvent, Pushed
  <2>3. file \o tape \in Seq(Books) /\ Append(file \o tape, book') \in Seq(Books)
    BY <2>1, ConcatProperties, AppendProperties DEF FeedTypeOK
  <2>4. Len(taped') = Len(taped) /\ ExitKeepsTape'
    BY <1>1, <2>2, <2>3, EndedTapesStay
  <2>5. taped'[Len(taped)] = Append(file \o tape, book')
    BY <1>2, <2>2, <2>3, ExceptSeq DEF FeedTypeOK
  <2>6. Append(file \o tape, book') = file \o tape'
    <3>1. file \in Seq(Books) /\ tape \in Seq(Books)
      BY DEF FeedTypeOK
    <3>2. file \o Append(tape, book') = Append(file \o tape, book')
      BY <2>1, <3>1, AppendAfter
    <3> QED
      BY <2>2, <3>2
  <2> QED
    BY <1>1, <1>2, <2>4, <2>5, <2>6 DEF Recorded
<1> QED
  BY <1>3, <1>4 DEF ProcessEvent, Pushed

(* A process ends: its archive gets the index of its tape. *)
LEMMA EndsKeepsRecorded ==
  ASSUME FeedTypeOK, Recorded, stage # "down", NEW a \in Archives, Ends(a),
         \/ exits' = exits
         \/ exits' = exits \cup {Len(archives')} /\ a.records = file \o tape
  PROVE  Recorded'
<1>1. Len(archives) \in Nat /\ Len(taped) = Len(archives) + 1
      /\ taped[Len(taped)] = file \o tape
  BY LenProperties DEF FeedTypeOK, Recorded
<1>2. /\ Len(archives') = Len(archives) + 1
      /\ \A i \in 1..Len(archives) : archives'[i] = archives[i]
      /\ archives'[Len(archives) + 1] = a
  BY AppendProperties DEF FeedTypeOK, Ends
<1>3. stage' = "down" /\ taped' = taped /\ tape' = <<>> /\ file' = <<>>
  BY DEF Ends
<1>4. exits \subseteq 1..Len(archives)
  BY DEF FeedTypeOK
<1>5. ExitKeepsTape'
  BY <1>1, <1>2, <1>3, <1>4 DEF Recorded, ExitKeepsTape
<1> QED
  BY <1>1, <1>2, <1>3, <1>5 DEF Recorded

LEMMA RecordedStep == FeedTypeOK /\ Recorded /\ [FeedNext]_feedVars => Recorded'
<1> SUFFICES ASSUME FeedTypeOK, Recorded, [FeedNext]_feedVars PROVE Recorded'
  OBVIOUS
<1>1. CASE (\E e \in Events : Dispatch(e)) \/ CloseStreams \/ JoinProcessor
           \/ UNCHANGED feedVars
  BY <1>1 DEF Dispatch, CloseStreams, JoinProcessor, feedVars, Recorded, ExitKeepsTape
<1>2. CASE Write
  <2>1. file' \o tape' = file \o tape
    BY <1>2, MoveHead DEF FeedTypeOK, Write
  <2> QED
    BY <1>2, <2>1 DEF Write, Recorded, ExitKeepsTape
<1>3. CASE JoinRecorder
  <2>1. file = file \o tape
    BY <1>3, ConcatEmptySeq DEF FeedTypeOK, JoinRecorder, RecorderDone
  <2>2. [records |-> file, torn |-> FALSE] \in Archives
    BY DEF FeedTypeOK, Archives
  <2> QED
    BY <1>3, <2>1, <2>2, EndsKeepsRecorded DEF JoinRecorder
<1>4. CASE Crash
  <2>1. PICK n \in 0..Len(file), torn \in BOOLEAN :
          Ends([records |-> SubSeq(file, 1, n), torn |-> torn])
    BY <1>4 DEF Crash
  <2>2. Len(file) \in Nat /\ \A i \in 1..n : file[i] \in Books
    BY LenProperties, ElementOfSeq DEF FeedTypeOK
  <2>3. [records |-> SubSeq(file, 1, n), torn |-> torn] \in Archives
    BY <2>2, SubSeqProperties DEF Archives
  <2> QED
    BY <1>4, <2>1, <2>3, EndsKeepsRecorded DEF Crash
<1>5. CASE Restart
  <2>1. /\ stage = "down" /\ stage' = "up" /\ taped' = Append(taped, <<>>)
        /\ archives' = archives /\ exits' = exits /\ file' = file /\ tape' = tape
    BY <1>5 DEF Restart
  <2>2. Len(archives) \in Nat /\ Len(taped) = Len(archives)
        /\ file = <<>> /\ tape = <<>>
    BY <2>1, LenProperties DEF FeedTypeOK, Recorded
  <2>3. /\ Len(taped') = Len(taped) + 1
        /\ \A i \in 1..Len(taped) : taped'[i] = taped[i]
        /\ taped'[Len(taped) + 1] = <<>>
    BY <2>1, EmptySeq, AppendProperties DEF FeedTypeOK
  <2>4. file' \o tape' = <<>>
    BY <2>1, <2>2, EmptySeq, ConcatEmptySeq
  <2>5. ExitKeepsTape'
    BY <2>1, <2>2, <2>3 DEF FeedTypeOK, Recorded, ExitKeepsTape
  <2> QED
    BY <2>1, <2>2, <2>3, <2>4, <2>5 DEF Recorded
<1> QED
  BY <1>1, <1>2, <1>3, <1>4, <1>5, ProcessKeepsRecorded DEF FeedNext

LEMMA RecordedInit == FeedInit => Recorded
<1> SUFFICES ASSUME FeedInit PROVE Recorded
  OBVIOUS
<1>1. Len(archives) = 0 /\ Len(taped) = 1 /\ taped[1] = <<>>
  BY DEF FeedInit
<1>2. file \o tape = <<>>
  BY EmptySeq, ConcatEmptySeq DEF FeedInit
<1> QED
  BY <1>1, <1>2 DEF FeedInit, Recorded, ExitKeepsTape

(* The archive of a process that ended in main's order holds every snapshot *)
(* its tape took, for all capacities and whatever other processes did.      *)
THEOREM OrderlyExitKeepsTape == FeedSpec => []ExitKeepsTape
<1>1. Recorded => ExitKeepsTape
  BY DEF Recorded
<1> QED
  BY <1>1, RecordedInit, RecordedStep, FeedTypeCorrect, PTL DEF FeedSpec

-----------------------------------------------------------------------------
(* The replay *)

Follows(part, whole) ==
  Len(part) <= Len(whole) /\ \A i \in 1..Len(part) : part[i] = whole[i]

LEMMA FollowsIsPrefix ==
  ASSUME NEW S, NEW part \in Seq(S), NEW whole \in Seq(S), Follows(part, whole)
  PROVE  IsPrefix(part, whole)
<1> DEFINE n == Len(part)
           a == SubSeq(part, 1, n)
           b == SubSeq(whole, 1, n)
<1>1. n \in Nat /\ Len(whole) \in Nat /\ n <= Len(whole)
  BY LenProperties DEF Follows
<1>2. \A i \in 1..n : part[i] \in S /\ whole[i] \in S /\ part[i] = whole[i]
  BY <1>1, ElementOfSeq DEF Follows
<1>3. /\ a \in Seq(S) /\ Len(a) = IF 1 <= n THEN n - 1 + 1 ELSE 0
      /\ \A i \in 1..(n - 1 + 1) : a[i] = part[1 + i - 1]
  BY <1>1, <1>2, SubSeqProperties
<1>4. /\ b \in Seq(S) /\ Len(b) = IF 1 <= n THEN n - 1 + 1 ELSE 0
      /\ \A i \in 1..(n - 1 + 1) : b[i] = whole[1 + i - 1]
  BY <1>1, <1>2, SubSeqProperties
<1> HIDE DEF a, b
<1>5. /\ Len(a) = n /\ Len(b) = n
      /\ \A i \in 1..n : i \in 1..(n - 1 + 1) /\ 1 + i - 1 = i
  BY <1>1, <1>3, <1>4
<1>6. \A i \in 1..n : a[i] = b[i]
  BY <1>2, <1>3, <1>4, <1>5
<1>7. a = b
  BY <1>3, <1>4, <1>5, <1>6, SeqEqual
<1> QED
  BY <1>1, <1>7 DEF IsPrefix, a, b

(* The archives follow the tapes of their processes. *)
Followed == \A i \in 1..Len(archives) : Follows(archives[i].records, taped[i])

LEMMA EndsKeepsFollowed ==
  ASSUME FeedTypeOK, Recorded, Followed, stage # "down", NEW a \in Archives, Ends(a),
         Follows(a.records, file \o tape)
  PROVE  Followed'
<1>1. Len(archives) \in Nat /\ Len(taped) = Len(archives) + 1
      /\ taped[Len(taped)] = file \o tape /\ taped' = taped
  BY LenProperties DEF FeedTypeOK, Recorded, Ends
<1>2. /\ Len(archives') = Len(archives) + 1
      /\ \A i \in 1..Len(archives) : archives'[i] = archives[i]
      /\ archives'[Len(archives) + 1] = a
  BY AppendProperties DEF FeedTypeOK, Ends
<1>3. \A i \in 1..Len(archives') : i \in 1..Len(archives) \/ i = Len(archives) + 1
  BY <1>1, <1>2
<1>4. ASSUME NEW i \in 1..Len(archives') PROVE Follows(archives'[i].records, taped'[i])
  <2>1. CASE i \in 1..Len(archives)
    BY <1>1, <1>2, <2>1 DEF Followed
  <2>2. CASE i = Len(archives) + 1
    BY <1>1, <1>2, <2>2
  <2> QED BY <1>3, <2>1, <2>2
<1> QED
  BY <1>4 DEF Followed

(* Of what a process wrote, any first part follows its tape. *)
LEMMA FileFollowsTape ==
  ASSUME FeedTypeOK, NEW n \in 0..Len(file)
  PROVE  Follows(SubSeq(file, 1, n), file \o tape)
<1>1. /\ file \in Seq(Books) /\ tape \in Seq(Books) /\ Len(file) \in Nat /\ Len(tape) \in Nat
      /\ \A i \in 1..n : file[i] \in Books
  BY LenProperties, ElementOfSeq DEF FeedTypeOK
<1>2. /\ Len(SubSeq(file, 1, n)) = n
      /\ \A i \in 1..n : SubSeq(file, 1, n)[i] = file[i]
  <2>1. /\ Len(SubSeq(file, 1, n)) = IF 1 <= n THEN n - 1 + 1 ELSE 0
        /\ \A i \in 1..(n - 1 + 1) : SubSeq(file, 1, n)[i] = file[1 + i - 1]
    BY <1>1, SubSeqProperties
  <2>2. \A i \in 1..n : i \in 1..(n - 1 + 1) /\ 1 + i - 1 = i
    OBVIOUS
  <2> QED BY <2>1, <2>2
<1>3. /\ Len(file \o tape) = Len(file) + Len(tape)
      /\ \A i \in 1..(Len(file) + Len(tape)) :
           (file \o tape)[i] = IF i <= Len(file) THEN file[i] ELSE tape[i - Len(file)]
  BY <1>1, ConcatProperties
<1>4. \A i \in 1..n : i \in 1..(Len(file) + Len(tape)) /\ i <= Len(file)
  BY <1>1
<1>5. n <= Len(file \o tape)
  BY <1>1, <1>3
<1> QED
  BY <1>2, <1>3, <1>4, <1>5 DEF Follows

LEMMA FollowedStep ==
  ASSUME FeedTypeOK, Recorded, Followed, [FeedNext]_feedVars
  PROVE  Followed'
<1>1. CASE JoinRecorder
  <2>1. [records |-> file, torn |-> FALSE] \in Archives
    BY DEF FeedTypeOK, Archives
  <2>2. Follows(file, file \o tape)
    <3>1. file = file \o tape /\ Len(file) \in Nat
      BY <1>1, ConcatEmptySeq, LenProperties DEF FeedTypeOK, JoinRecorder, RecorderDone
    <3> QED BY <3>1 DEF Follows
  <2> QED
    BY <1>1, <2>1, <2>2, EndsKeepsFollowed DEF JoinRecorder
<1>2. CASE Crash
  <2>1. PICK n \in 0..Len(file), torn \in BOOLEAN :
          Ends([records |-> SubSeq(file, 1, n), torn |-> torn])
    BY <1>2 DEF Crash
  <2>2. Len(file) \in Nat /\ \A i \in 1..n : file[i] \in Books
    BY LenProperties, ElementOfSeq DEF FeedTypeOK
  <2>3. [records |-> SubSeq(file, 1, n), torn |-> torn] \in Archives
    BY <2>2, SubSeqProperties DEF Archives
  <2> QED
    BY <1>2, <2>1, <2>3, FileFollowsTape, EndsKeepsFollowed DEF Crash
<1>3. CASE Restart
  <2>1. /\ taped' = Append(taped, <<>>) /\ archives' = archives /\ Len(taped) = Len(archives)
    BY <1>3 DEF Restart, Recorded
  <2>2. \A i \in 1..Len(archives) : taped'[i] = taped[i]
    <3>1. taped \in Seq(Seq(Books)) /\ <<>> \in Seq(Books)
      BY EmptySeq DEF FeedTypeOK
    <3>2. \A i \in 1..Len(taped) : Append(taped, <<>>)[i] = taped[i]
      BY <3>1, AppendProperties
    <3>3. taped' = Append(taped, <<>>) /\ Len(taped) = Len(archives)
      BY <2>1
    <3>4. \A i \in 1..Len(taped) : taped'[i] = taped[i]
      BY <3>2, <3>3, Zenon
    <3> QED BY <3>3, <3>4, Zenon
  <2>3. archives' = archives
    BY <2>1
  <2>4. \A i \in 1..Len(archives') : Follows(archives'[i].records, taped'[i])
    BY <2>2, <2>3, Zenon DEF Followed
  <2> QED
    BY <2>4 DEF Followed
<1>4. CASE ProcessEvent
  <2>1. /\ stage # "down" /\ archives' = archives /\ exits' = exits
    BY <1>4 DEF ProcessEvent
  <2>2. taped' = taped \/ \E t \in Seq(Books) : taped' = [taped EXCEPT ![Len(taped)] = t]
    <3>1. CASE HasData(book') /\ Len(tape) < TapeCap
      <4>1. book' \in Books
        <5>1. Head(events) \in Events
          BY <1>4, HeadTailProperties DEF FeedTypeOK, ProcessEvent
        <5>2. book' \in Books \cup {NoBook}
          BY <1>4, <5>1, BookAfterType DEF FeedTypeOK, ProcessEvent
        <5> QED
          BY <3>1, <5>2 DEF HasData
      <4>2. Len(taped) \in 1..Len(taped)
        BY <2>1, LenProperties DEF FeedTypeOK, Recorded
      <4>3. Append(taped[Len(taped)], book') \in Seq(Books)
        BY <4>1, <4>2, ElementOfSeq, AppendProperties DEF FeedTypeOK
      <4>4. taped' = [taped EXCEPT ![Len(taped)] = Append(taped[Len(taped)], book')]
        BY <1>4, <3>1 DEF ProcessEvent
      <4> QED
        BY <4>3, <4>4
    <3>2. CASE ~(HasData(book') /\ Len(tape) < TapeCap)
      BY <1>4, <3>2 DEF ProcessEvent
    <3> QED
      BY <3>1, <3>2
  <2>3. \A i \in 1..Len(archives) : taped'[i] = taped[i]
    BY <2>1, <2>2, EndedTapesStay
  <2> QED
    BY <2>1, <2>3 DEF Followed
<1>5. CASE (\E e \in Events : Dispatch(e)) \/ Write \/ CloseStreams \/ JoinProcessor
           \/ UNCHANGED feedVars
  BY <1>5 DEF Dispatch, Write, CloseStreams, JoinProcessor, feedVars, Followed
<1> QED
  BY <1>1, <1>2, <1>3, <1>4, <1>5 DEF FeedNext

(* How far the replay has come: the archives before the current one whole,  *)
(* of that one the records before the current one.                          *)
Replayed ==
  /\ at = <<0, 0>> => replayed = <<>>
  /\ at # <<0, 0>> =>
       /\ at[1] \in Nat \ {0} /\ at[2] \in Nat \ {0}
       /\ replayed \in Seq(Seq(Books)) /\ Len(replayed) = Len(archives)
       /\ \A i \in 1..Len(archives) :
            /\ i < at[1] => replayed[i] = archives[i].records
            /\ i = at[1] => /\ Len(replayed[i]) = at[2] - 1
                            /\ Follows(replayed[i], archives[i].records)
            /\ i > at[1] => replayed[i] = <<>>

LEMMA ArchiveType ==
  ASSUME FeedTypeOK, NEW i \in 1..Len(archives)
  PROVE  archives[i].records \in Seq(Books)
<1>1. archives[i] \in Archives
  BY ElementOfSeq DEF FeedTypeOK
<1> QED BY <1>1 DEF Archives

LEMMA BeginReplayed ==
  ASSUME FeedTypeOK, BeginReplay
  PROVE  Replayed'
<1>1. at' = <<1, 1>> /\ archives' = archives /\ Len(archives) \in Nat
      /\ replayed' = [i \in 1..Len(archives) |-> <<>>]
  BY LenProperties DEF BeginReplay, feedVars, FeedTypeOK
<1>2. /\ replayed' \in Seq(Seq(Books)) /\ Len(replayed') = Len(archives)
      /\ \A i \in 1..Len(archives) : replayed'[i] = <<>>
  <2>1. <<>> \in Seq(Books)
    BY EmptySeq
  <2>2. PICK n \in Nat : n = Len(archives)
    BY <1>1 DEF FeedTypeOK
  <2>3. /\ [i \in 1..n |-> <<>>] \in Seq(Seq(Books)) /\ Len([i \in 1..n |-> <<>>]) = n
        /\ \A i \in 1..n : [j \in 1..n |-> <<>>][i] = <<>>
    BY <2>1
  <2> QED BY <1>1, <2>2, <2>3
<1>3. /\ at' # <<0, 0>> /\ at'[1] = 1 /\ at'[2] = 1
  BY <1>1
<1>4. \A i \in 1..Len(archives) : Follows(<<>>, archives[i].records)
  <2> SUFFICES ASSUME NEW i \in 1..Len(archives) PROVE Follows(<<>>, archives[i].records)
    OBVIOUS
  <2>1. Len(archives[i].records) \in Nat /\ Len(<<>>) = 0
    BY ArchiveType, LenProperties
  <2> QED BY <2>1 DEF Follows
<1>5. Len(<<>>) = 0
  OBVIOUS
<1> QED
  BY <1>1, <1>2, <1>3, <1>4, <1>5 DEF Replayed

LEMMA RecordReplayed ==
  ASSUME FeedTypeOK, Replayed, NEW lag, NEW regimeMoved, NEW first,
         ReplayRecord(lag, regimeMoved, first)
  PROVE  Replayed'
<1> DEFINE a == at[1]
           rs == archives[a].records
<1>1. /\ a \in 1..Len(archives) /\ at[2] <= Len(rs) /\ archives' = archives
      /\ at' = <<a, at[2] + 1>>
      /\ replayed' = [replayed EXCEPT ![a] = Append(replayed[a], rs[at[2]])]
  BY DEF ReplayRecord, Whole, feedVars
<1>2. /\ a \in Nat \ {0} /\ at[2] \in Nat \ {0}
      /\ replayed \in Seq(Seq(Books)) /\ Len(replayed) = Len(archives)
  <2>1. at # <<0, 0>>
    BY <1>1
  <2> QED BY <2>1 DEF Replayed
<1>3. Len(replayed[a]) = at[2] - 1 /\ Follows(replayed[a], rs) /\ replayed[a] \in Seq(Books)
  <2>1. Len(replayed[a]) = at[2] - 1 /\ Follows(replayed[a], rs)
    BY <1>1, <1>2 DEF Replayed
  <2>2. a \in 1..Len(replayed) /\ replayed \in Seq(Seq(Books))
    BY <1>1, <1>2
  <2>3. replayed[a] \in Seq(Books)
    <3> HIDE DEF a
    <3> QED BY <2>2, ElementOfSeq
  <2> QED BY <2>1, <2>3
<1>4. rs \in Seq(Books) /\ at[2] \in 1..Len(rs) /\ Len(rs) \in Nat
  BY <1>1, <1>2, ArchiveType, LenProperties
<1> DEFINE r == Append(replayed[a], rs[at[2]])
<1>5. /\ r \in Seq(Books) /\ Len(r) = at[2] - 1 + 1 /\ r[at[2]] = rs[at[2]]
      /\ \A i \in 1..(at[2] - 1) : r[i] = replayed[a][i]
  <2>1. rs[at[2]] \in Books /\ Len(replayed[a]) + 1 = at[2]
    BY <1>2, <1>3, <1>4, ElementOfSeq
  <2> QED BY <1>3, <2>1, AppendProperties
<1> HIDE DEF r
<1>6. Len(r) = at[2] /\ Follows(r, rs)
  <2>1. Len(r) = at[2]
    BY <1>2, <1>5
  <2>2. \A i \in 1..at[2] : i \in 1..(at[2] - 1) \/ i = at[2]
    BY <1>2
  <2>3. \A i \in 1..(at[2] - 1) : replayed[a][i] = rs[i]
    BY <1>3 DEF Follows
  <2>4. ASSUME NEW i \in 1..at[2] PROVE r[i] = rs[i]
    <3> HIDE DEF rs
    <3>1. CASE i \in 1..(at[2] - 1)
      BY <1>5, <2>3, <3>1
    <3>2. CASE i = at[2]
      BY <1>5, <3>2
    <3> QED BY <2>2, <3>1, <3>2
  <2>5. at[2] <= Len(rs)
    BY <1>1
  <2> HIDE DEF rs
  <2> QED BY <2>1, <2>4, <2>5 DEF Follows
<1>7. /\ replayed' \in Seq(Seq(Books)) /\ Len(replayed') = Len(archives)
      /\ \A i \in 1..Len(archives) : replayed'[i] = IF i = a THEN r ELSE replayed[i]
  <2>1. replayed' = [replayed EXCEPT ![a] = r]
    BY <1>1 DEF r
  <2>2. a \in 1..Len(replayed) /\ r \in Seq(Books)
    BY <1>1, <1>2, <1>5
  <2>3. /\ [replayed EXCEPT ![a] = r] \in Seq(Seq(Books))
        /\ Len([replayed EXCEPT ![a] = r]) = Len(replayed)
        /\ \A j \in 1..Len(replayed) :
             [replayed EXCEPT ![a] = r][j] = IF j = a THEN r ELSE replayed[j]
    <3> HIDE DEF a
    <3>1. replayed \in Seq(Seq(Books))
      BY <1>2
    <3> QED BY <2>2, <3>1, ExceptSeq
  <2> QED BY <1>2, <2>1, <2>3
<1>8. /\ at' # <<0, 0>> /\ at'[1] = a /\ at'[2] = at[2] + 1 /\ at # <<0, 0>>
  BY <1>1, <1>2
<1> HIDE DEF a
<1>9. \A i \in 1..Len(archives) :
        /\ i < a => replayed'[i] = archives[i].records
        /\ i = a => Len(replayed'[i]) = at[2] + 1 - 1 /\ Follows(replayed'[i], archives[i].records)
        /\ i > a => replayed'[i] = <<>>
  <2> SUFFICES ASSUME NEW i \in 1..Len(archives)
               PROVE  /\ i < a => replayed'[i] = archives[i].records
                      /\ i = a => /\ Len(replayed'[i]) = at[2] + 1 - 1
                                  /\ Follows(replayed'[i], archives[i].records)
                      /\ i > a => replayed'[i] = <<>>
    OBVIOUS
  <2>1. CASE i = a
    <3>1. replayed'[i] = r /\ Follows(r, archives[i].records) /\ Len(r) = at[2] + 1 - 1
      <4>1. replayed'[i] = r
        BY <1>7, <2>1
      <4>2. Follows(r, archives[i].records)
        BY <1>6, <2>1 DEF a
      <4>3. Len(r) = at[2] + 1 - 1
        BY <1>2, <1>6
      <4> QED BY <4>1, <4>2, <4>3
    <3> QED BY <1>2, <2>1, <3>1
  <2>2. CASE i # a
    BY <1>2, <1>7, <1>8, <2>2 DEF Replayed, a
  <2> QED BY <2>1, <2>2
<1>10. at'[2] \in Nat \ {0}
  BY <1>2, <1>8
<1> QED
  BY <1>1, <1>2, <1>7, <1>8, <1>9, <1>10 DEF Replayed

LEMMA ArchiveReplayed ==
  ASSUME FeedTypeOK, Replayed, NextArchive
  PROVE  Replayed'
<1> DEFINE a == at[1]
           rs == archives[a].records
<1>1. /\ a \in 1..Len(archives) /\ at[2] > Len(rs) /\ archives' = archives
      /\ at' = <<a + 1, 1>> /\ replayed' = replayed
  BY DEF NextArchive, Whole, feedVars
<1>2. /\ at # <<0, 0>> /\ a \in Nat \ {0} /\ at[2] \in Nat \ {0}
      /\ replayed \in Seq(Seq(Books)) /\ Len(replayed) = Len(archives)
  <2>1. at # <<0, 0>>
    BY <1>1
  <2> QED BY <2>1 DEF Replayed
<1>3. Len(replayed[a]) = at[2] - 1 /\ Follows(replayed[a], rs) /\ replayed[a] \in Seq(Books)
  <2>1. Len(replayed[a]) = at[2] - 1 /\ Follows(replayed[a], rs)
    BY <1>1, <1>2 DEF Replayed
  <2>2. a \in 1..Len(replayed) /\ replayed \in Seq(Seq(Books))
    BY <1>1, <1>2
  <2>3. replayed[a] \in Seq(Books)
    <3> HIDE DEF a
    <3> QED BY <2>2, ElementOfSeq
  <2> QED BY <2>1, <2>3
<1>4. rs \in Seq(Books) /\ Len(rs) \in Nat
  BY <1>1, ArchiveType, LenProperties
<1>5. replayed[a] = rs
  <2>1. Len(replayed[a]) = Len(rs)
    BY <1>1, <1>2, <1>3, <1>4 DEF Follows
  <2>2. \A i \in 1..Len(rs) : replayed[a][i] = rs[i]
    BY <1>3, <2>1 DEF Follows
  <2> QED BY <1>3, <1>4, <2>1, <2>2, SeqEqual
<1>6. /\ at' # <<0, 0>> /\ at'[1] = a + 1 /\ at'[2] = 1
  BY <1>1, <1>2
<1>7. ASSUME NEW i \in 1..Len(archives)
      PROVE  /\ i < a + 1 => replayed[i] = archives[i].records
             /\ i = a + 1 => Len(replayed[i]) = 1 - 1 /\ Follows(replayed[i], archives[i].records)
             /\ i > a + 1 => replayed[i] = <<>>
  <2>1. i < a => replayed[i] = archives[i].records
    BY <1>2 DEF Replayed
  <2>2. i > a => replayed[i] = <<>>
    BY <1>2 DEF Replayed
  <2>3. Len(archives[i].records) \in Nat /\ Len(<<>>) = 0
    BY ArchiveType, LenProperties
  <2>4. i < a + 1 => i < a \/ i = a
    BY <1>2
  <2>5. i >= a + 1 => i > a
    BY <1>2
  <2>6. Follows(<<>>, archives[i].records)
    BY <2>3 DEF Follows
  <2> QED BY <1>2, <1>5, <2>1, <2>2, <2>3, <2>4, <2>5, <2>6
<1> HIDE DEF a
<1> QED
  BY <1>1, <1>2, <1>6, <1>7 DEF Replayed

(* The recording goes on as if there were no replay. *)
LEMMA FeedGoesOn ==
  /\ BacktestInit => FeedInit
  /\ [BacktestNext]_vars => [FeedNext]_feedVars
BY DEF BacktestInit, BacktestNext, BeginReplay, ReplayRecord, NextArchive, vars

Archived == FeedTypeOK /\ Recorded /\ Followed

LEMMA ReplayedStep ==
  ASSUME Archived, Replayed, [BacktestNext]_vars
  PROVE  Replayed'
<1>1. CASE at = <<0, 0>> /\ UNCHANGED replayVars
  BY <1>1 DEF replayVars, Replayed
<1>2. CASE UNCHANGED vars
  BY <1>2 DEF vars, feedVars, replayVars, Replayed
<1> QED
  BY <1>1, <1>2, BeginReplayed, RecordReplayed, ArchiveReplayed DEF BacktestNext, Archived

LEMMA ArchivedInit == FeedInit => Archived
<1> SUFFICES ASSUME FeedInit PROVE Archived
  OBVIOUS
<1>1. Len(archives) = 0
  BY DEF FeedInit
<1> QED
  BY <1>1, FeedTypeInit, RecordedInit DEF Archived, Followed

LEMMA ArchivedStep == Archived /\ [FeedNext]_feedVars => Archived'
BY FeedTypeStep, RecordedStep, FollowedStep DEF Archived

(* A replay emits of every recording process, however it ended, a first     *)
(* part of its tape in the tape's order; of one that main ended, once it    *)
(* has gone on to the next archive, the whole tape.                         *)
THEOREM ReplayKeepsToTape == BacktestSpec => []ReplayFollowsTape
<1>1. BacktestInit => Archived /\ Replayed
  BY FeedGoesOn, ArchivedInit DEF BacktestInit, Replayed
<1>2. Archived /\ Replayed /\ [BacktestNext]_vars => Archived' /\ Replayed'
  BY FeedGoesOn, ArchivedStep, ReplayedStep
<1>3. ASSUME Archived, Replayed PROVE ReplayFollowsTape
  <2>1. CASE at = <<0, 0>>
    <3>1. Len(replayed) = 0
      BY <1>3, <2>1 DEF Replayed
    <3> QED BY <3>1 DEF ReplayFollowsTape
  <2>2. CASE at # <<0, 0>>
    <3> SUFFICES ASSUME NEW i \in 1..Len(replayed)
                 PROVE  /\ IsPrefix(replayed[i], taped[i])
                        /\ i \in exits /\ at[1] > i => replayed[i] = taped[i]
      BY DEF ReplayFollowsTape
    <3>1. /\ i \in 1..Len(archives) /\ replayed \in Seq(Seq(Books)) /\ at[1] \in Nat
          /\ Len(archives) \in Nat
      BY <1>3, <2>2, LenProperties DEF Replayed, Archived, FeedTypeOK
    <3>2. Follows(archives[i].records, taped[i])
      BY <1>3, <3>1 DEF Archived, Followed
    <3>3. /\ replayed[i] \in Seq(Books) /\ archives[i].records \in Seq(Books)
          /\ taped[i] \in Seq(Books)
      <4>1. i \in 1..Len(taped)
        BY <1>3, <3>1 DEF Archived, Recorded, FeedTypeOK, Stages
      <4> QED BY <1>3, <3>1, <4>1, ElementOfSeq, ArchiveType DEF Archived, FeedTypeOK
    <3>4. /\ i < at[1] => replayed[i] = archives[i].records
          /\ i = at[1] => Follows(replayed[i], archives[i].records)
          /\ i > at[1] => replayed[i] = <<>>
      BY <1>3, <2>2, <3>1 DEF Replayed
    <3>5. Len(archives[i].records) \in Nat /\ Len(taped[i]) \in Nat /\ Len(replayed[i]) \in Nat
      BY <3>3, LenProperties
    <3>6. Follows(replayed[i], archives[i].records)
      <4>1. CASE i < at[1]
        <5>1. replayed[i] = archives[i].records
          BY <3>4, <4>1, Zenon
        <5> QED BY <3>5, <5>1 DEF Follows
      <4>2. CASE i > at[1]
        <5>1. replayed[i] = <<>>
          BY <3>4, <4>2, Zenon
        <5>2. Len(<<>>) = 0
          OBVIOUS
        <5> QED BY <3>5, <5>1, <5>2 DEF Follows
      <4> QED BY <3>1, <3>4, <4>1, <4>2
    <3>7. Follows(replayed[i], taped[i])
      BY <3>2, <3>5, <3>6 DEF Follows
    <3>8. i \in exits => archives[i].records = taped[i]
      BY <1>3 DEF Archived, Recorded, ExitKeepsTape
    <3> QED BY <3>1, <3>3, <3>4, <3>7, <3>8, FollowsIsPrefix
  <2> QED BY <2>1, <2>2
<1> QED
  BY <1>1, <1>2, <1>3, PTL DEF BacktestSpec

-----------------------------------------------------------------------------
(* The state of the backtest *)

QuotePrices == {m - QuoteWidth : m \in Mids} \cup {m + QuoteWidth : m \in Mids}
Resting == [cid : Nat, side : Sides, price : QuotePrices, executed : 0..(Qty - 1)]
Slots == [active : BOOLEAN, cid : Nat, state : {"NEW", "ACKNOWLEDGED", "REJECTED", "CANCELED"},
          price : Int]
Quotes == [valid : BOOLEAN, mid : Int, at : Nat]
Backtests ==
  [pending : SUBSET Resting, simInv : Int, simEntry : Int, top : Books \cup {NoBook},
   inv : Int, ae : Int, realized : Int, cash : Int, mid : Int,
   slot : [Sides -> Slots], open : Nat, cid : Nat, quote : Quotes, now : Nat,
   placed : Seq(Nat)]

(* What scanning for fills leaves alone. *)
Unscanned(t, u) ==
  /\ u.top = t.top /\ u.mid = t.mid /\ u.slot = t.slot /\ u.open = t.open /\ u.cid = t.cid
  /\ u.quote = t.quote /\ u.now = t.now /\ u.placed = t.placed

LEMMA TheSides == Sides = {"BID", "ASK"} /\ \A side \in Sides : Sim!Other(side) \in Sides
BY DEF Sides, Sim!Sides, Sim!Other

LEMMA Quantity == Qty \in Nat \ {0}
BY BacktestAssumption DEF BacktestAssumption

LEMMA IntProducts == \A x, y \in Int : x * y \in Int
  OBVIOUS

LEMMA SimAbs == \A n \in Int : Sim!Abs(n) = (IF n < 0 THEN -n ELSE n) /\ Sim!Abs(n) \in Nat
BY DEF Sim!Abs

LEMMA SimMeanType ==
  ASSUME NEW i \in Int, NEW e \in Int, NEW n \in Int \ {0}, NEW p \in Int
  PROVE  Sim!Mean(i, e, n, p) \in Int
<1>1. Sim!Abs(i) \in Nat /\ Sim!Abs(n) \in Nat \ {0}
  BY DEF Sim!Abs
<1>2. Sim!Abs(i) * e + Sim!Abs(n) * p \in Int /\ Sim!Abs(i) + Sim!Abs(n) \in Nat \ {0}
  BY <1>1, IntProducts
<1>3. \A a \in Int, b \in Nat \ {0} : a \div b \in Int
  OBVIOUS
<1> QED BY <1>2, <1>3 DEF Sim!Mean

LEMMA SimEntryType ==
  ASSUME NEW i \in Int, NEW e \in Int, NEW n \in Int \ {0}, NEW p \in Int
  PROVE  Sim!Entry(i, e, n, p) \in Int /\ Sim!SimEntry(i, e, n, p) \in Int
         /\ Sim!Gain(i, e, n, p) \in Int
<1>1. Sim!Mean(i, e, n, p) \in Int
  BY SimMeanType
<1>2. Sim!Entry(i, e, n, p) \in Int
  BY <1>1 DEF Sim!Entry
<1>3. Sim!SimEntry(i, e, n, p) \in Int
  BY <1>1 DEF Sim!SimEntry
<1>4. Sim!Gain(i, e, n, p) \in Int
  <2>1. Sim!Least(Sim!Abs(i), Sim!Abs(n)) \in Int /\ p - e \in Int
    BY DEF Sim!Least, Sim!Abs
  <2>2. (IF i > 0 THEN 1 ELSE -1) * Sim!Least(Sim!Abs(i), Sim!Abs(n)) \in Int
    BY <2>1
  <2> QED BY <2>1, <2>2, IntProducts DEF Sim!Gain
<1> QED BY <1>2, <1>3, <1>4

(* A fill of the simulator, which the tracker is told of. *)
Booked(t, u, n, p) ==
  /\ u \in Backtests /\ Unscanned(t, u) /\ u.pending = t.pending
  /\ u.simInv = t.simInv + n /\ u.simEntry = Sim!SimEntry(t.simInv, t.simEntry, n, p)
  /\ u.inv = t.inv + n /\ u.ae = Sim!Entry(t.inv, t.ae, n, p)
  /\ u.realized = t.realized + Sim!Gain(t.inv, t.ae, n, p)
  /\ u.cash = t.cash - n * p

LEMMA FilledFacts ==
  ASSUME NEW t \in Backtests, NEW n \in Int \ {0}, NEW p \in Int
  PROVE  Booked(t, Sim!Filled(t, n, p), n, p)
<1> DEFINE v == [t EXCEPT !.simInv = t.simInv + n,
                          !.simEntry = Sim!SimEntry(t.simInv, t.simEntry, n, p)]
           u == Sim!Filled(t, n, p)
<1>1. /\ t.simInv \in Int /\ t.simEntry \in Int /\ t.inv \in Int /\ t.ae \in Int
      /\ t.realized \in Int /\ t.cash \in Int
  BY DEF Backtests
<1>2. /\ v \in Backtests /\ Unscanned(t, v) /\ v.pending = t.pending
      /\ v.simInv = t.simInv + n /\ v.simEntry = Sim!SimEntry(t.simInv, t.simEntry, n, p)
      /\ v.inv = t.inv /\ v.ae = t.ae /\ v.realized = t.realized /\ v.cash = t.cash
  <2>1. t.simInv + n \in Int
    BY <1>1
  <2>2. Sim!SimEntry(t.simInv, t.simEntry, n, p) \in Int
    BY <1>1, SimEntryType
  <2> QED BY <2>1, <2>2 DEF Backtests, Unscanned
<1>3. u = [v EXCEPT !.inv = v.inv + n,
                    !.ae = Sim!Entry(v.inv, v.ae, n, p),
                    !.realized = v.realized + Sim!Gain(v.inv, v.ae, n, p),
                    !.cash = v.cash - n * p]
  BY DEF Sim!Filled, Sim!Tracked
<1>4. /\ v.inv + n \in Int /\ Sim!Entry(v.inv, v.ae, n, p) \in Int
      /\ v.realized + Sim!Gain(v.inv, v.ae, n, p) \in Int /\ v.cash - n * p \in Int
  <2>1. n * p \in Int
    BY IntProducts
  <2> QED BY <1>1, <1>2, <2>1, SimEntryType
<1> HIDE DEF v, u
<1>5. u \in Backtests /\ Unscanned(v, u) /\ u.pending = v.pending
      /\ u.simInv = v.simInv /\ u.simEntry = v.simEntry
      /\ u.inv = v.inv + n /\ u.ae = Sim!Entry(v.inv, v.ae, n, p)
      /\ u.realized = v.realized + Sim!Gain(v.inv, v.ae, n, p) /\ u.cash = v.cash - n * p
  BY <1>2, <1>3, <1>4 DEF Backtests, Unscanned
<1>6. Booked(t, u, n, p)
  BY <1>2, <1>5 DEF Booked, Unscanned
<1> QED BY <1>6 DEF u

(* The arithmetic of a fill *)

LEMMA DivExact == \A b \in Nat \ {0}, w \in Int : (w * b) \div b = w
  OBVIOUS

(* The mean of two entries in one direction costs what the entries cost. *)
MeanBalances(i, e, n, p) ==
  i # 0 /\ Sim!SameDirection(i, n) => Sim!Mean(i, e, n, p) * (i + n) = i * e + n * p

(* What the position cost goes up by what the fill cost and by what it gained. *)
EntryBalances(i, e, n, p) ==
  (i + n) * Sim!Entry(i, e, n, p) = i * e + n * p + Sim!Gain(i, e, n, p)

(* A fill leaves the books balanced. *)
LEMMA FillBalances ==
  ASSUME NEW i \in Int, NEW e \in Int, NEW n \in Int \ {0}, NEW p \in Int,
         MeanBalances(i, e, n, p)
  PROVE  EntryBalances(i, e, n, p)
<1> USE DEF MeanBalances, EntryBalances
<1>0. n \in Int /\ n # 0
  OBVIOUS
<1>1. CASE i = 0
  <2>1. Sim!Entry(i, e, n, p) = p /\ Sim!Gain(i, e, n, p) = 0
    BY <1>1 DEF Sim!Entry, Sim!Gain
  <2> QED BY <1>1, <2>1
<1>2. CASE i # 0 /\ Sim!SameDirection(i, n)
  <2>1. Sim!Entry(i, e, n, p) = Sim!Mean(i, e, n, p)
    BY <1>2 DEF Sim!Entry
  <2>2. Sim!Gain(i, e, n, p) = 0
    BY <1>2 DEF Sim!Gain, Sim!SameDirection
  <2>3. PICK m \in Int : m = Sim!Mean(i, e, n, p)
    BY SimMeanType
  <2>4. m * (i + n) = i * e + n * p
    BY <1>2, <2>3
  <2>5. i * e + n * p \in Int /\ (i + n) * m = m * (i + n)
    BY <1>0, IntProducts
  <2> QED BY <2>1, <2>2, <2>3, <2>4, <2>5
<1>3. CASE i # 0 /\ ~Sim!SameDirection(i, n)
  <2>1. Sim!Abs(i) \in Nat /\ Sim!Abs(n) \in Nat
    BY DEF Sim!Abs
  <2>2. (IF i > 0 THEN 1 ELSE -1) * Sim!Least(Sim!Abs(i), Sim!Abs(n))
          = IF Sim!Abs(n) >= Sim!Abs(i) THEN i ELSE -n
    BY <1>3 DEF Sim!Least, Sim!Abs, Sim!SameDirection
  <2>3. Sim!Gain(i, e, n, p) = (IF Sim!Abs(n) >= Sim!Abs(i) THEN i ELSE -n) * (p - e)
    BY <1>3, <2>2 DEF Sim!Gain
  <2>4. CASE Sim!Abs(n) > Sim!Abs(i)
    <3>0. i + n # 0
      BY <2>4 DEF Sim!Abs
    <3>1. Sim!Entry(i, e, n, p) = p
      BY <1>3, <2>1, <2>4, <3>0 DEF Sim!Entry
    <3>2. Sim!Gain(i, e, n, p) = i * (p - e)
      BY <2>1, <2>3, <2>4
    <3> QED BY <3>1, <3>2
  <2>5. CASE i + n = 0
    <3>1. Sim!Abs(n) = Sim!Abs(i) /\ n = -i
      BY <2>5 DEF Sim!Abs
    <3>2. Sim!Entry(i, e, n, p) = 0 /\ Sim!Gain(i, e, n, p) = i * (p - e)
      BY <1>3, <2>1, <2>3, <2>5, <3>1 DEF Sim!Entry
    <3> QED BY <3>1, <3>2
  <2>6. CASE Sim!Abs(n) < Sim!Abs(i)
    <3>1. i + n # 0
      BY <2>6 DEF Sim!Abs
    <3>2. Sim!Entry(i, e, n, p) = e /\ Sim!Gain(i, e, n, p) = (-n) * (p - e)
      BY <1>3, <2>1, <2>3, <2>6, <3>1 DEF Sim!Entry
    <3> QED BY <3>2
  <2>7. Sim!Abs(n) = Sim!Abs(i) => i + n = 0
    BY <1>3 DEF Sim!Abs, Sim!SameDirection
  <2> QED BY <2>1, <2>4, <2>5, <2>6, <2>7
<1> QED BY <1>1, <1>2, <1>3

(* The simulator's entry price is the tracker's while there is a position.  *)
LEMMA EntriesAgree ==
  ASSUME NEW i \in Int, NEW e \in Int, NEW f \in Int, NEW n \in Int \ {0}, NEW p \in Int,
         i # 0 => f = e, i + n # 0
  PROVE  Sim!SimEntry(i, f, n, p) = Sim!Entry(i, e, n, p)
<1>0. n \in Int /\ n # 0
  OBVIOUS
<1>1. CASE i = 0
  BY <1>1 DEF Sim!SimEntry, Sim!Entry
<1>2. CASE i # 0 /\ Sim!SameDirection(i, n)
  BY <1>2 DEF Sim!SimEntry, Sim!Entry
<1>3. CASE i # 0 /\ ~Sim!SameDirection(i, n)
  <2>1. i * (i + n) < 0 <=> Sim!Abs(n) > Sim!Abs(i)
    <3>1. CASE i > 0
      <4>1. n < 0
        BY <1>0, <1>3, <3>1 DEF Sim!SameDirection
      <4>2. CASE i + n > 0
        <5>1. i * (i + n) > 0
          BY <3>1, <4>2
        <5> QED BY <3>1, <4>1, <4>2, <5>1 DEF Sim!Abs
      <4>3. CASE i + n < 0
        <5>1. i * (i + n) < 0
          BY <3>1, <4>3
        <5> QED BY <3>1, <4>1, <4>3, <5>1 DEF Sim!Abs
      <4> QED BY <4>2, <4>3
    <3>2. CASE i < 0
      <4>1. n > 0
        BY <1>0, <1>3, <3>2 DEF Sim!SameDirection
      <4>2. CASE i + n > 0
        <5>1. i * (i + n) < 0
          BY <3>2, <4>2
        <5> QED BY <3>2, <4>1, <4>2, <5>1 DEF Sim!Abs
      <4>3. CASE i + n < 0
        <5>1. i * (i + n) > 0
          BY <3>2, <4>3
        <5> QED BY <3>2, <4>1, <4>3, <5>1 DEF Sim!Abs
      <4> QED BY <4>2, <4>3
    <3> QED BY <1>3, <3>1, <3>2
  <2>2. f = e
    BY <1>3
  <2>3. Sim!SimEntry(i, f, n, p) = IF i * (i + n) < 0 THEN p ELSE f
    BY <1>3 DEF Sim!SimEntry
  <2>4. Sim!Entry(i, e, n, p) = IF Sim!Abs(n) > Sim!Abs(i) THEN p ELSE e
    BY <1>3 DEF Sim!Entry
  <2> QED BY <2>1, <2>2, <2>3, <2>4
<1> QED BY <1>1, <1>2, <1>3

Multiples(b) == {x * b : x \in Int}

(* Lots that a replay can trade: every record brings two orders at most.    *)
LotCap == Qty * (2 * (MaxSessions * MaxEvents))

(* Prices are multiples of numbers large enough for every mean to be whole, *)
(* as FillAccounting has it: d[k] divides the prices and every entry price  *)
(* that k fills lead to.                                                    *)
FineTicks(d) ==
  /\ d \in [0..LotCap -> Nat \ {0}]
  /\ \A k \in 0..LotCap : QuotePrices \subseteq Multiples(d[k])
  /\ \A k \in 1..LotCap, n \in 1..MaxPosition : d[k - 1] \in Multiples(n * d[k])

LEMMA MeanIsWhole ==
  ASSUME NEW i \in Int, NEW n \in Int, Sim!SameDirection(i, n),
         NEW b \in Nat, NEW c \in Nat, c \in Multiples((Sim!Abs(i) + Sim!Abs(n)) * b),
         NEW e \in Multiples(c), NEW p \in Multiples(c)
  PROVE  /\ Sim!Mean(i, e, n, p) \in Multiples(b)
         /\ Sim!Mean(i, e, n, p) * (i + n) = i * e + n * p
<1> DEFINE m == Sim!Abs(i) + Sim!Abs(n)
<1>1. Sim!Abs(i) \in Nat /\ Sim!Abs(n) \in Nat /\ m \in Nat \ {0}
  BY DEF Sim!Abs, Sim!SameDirection
<1>2. PICK x \in Int, y \in Int, z \in Int : e = x * c /\ p = y * c /\ c = z * (m * b)
  BY DEF Multiples
<1> DEFINE u == Sim!Abs(i) * x + Sim!Abs(n) * y
           w == (u * z) * b
<1>3. u \in Int /\ u * z \in Int /\ w \in Int /\ m * b \in Int
  BY <1>1, IntProducts
<1>4. Sim!Abs(i) * e + Sim!Abs(n) * p = w * m
  <2>1. Sim!Abs(i) * e + Sim!Abs(n) * p = u * c
    BY <1>1, <1>2
  <2>2. u * c = w * m
    <3> HIDE DEF u, m
    <3> QED BY <1>1, <1>2, <1>3
  <2> QED BY <2>1, <2>2
<1>5. Sim!Mean(i, e, n, p) = w
  <2>1. Sim!Mean(i, e, n, p) = (w * m) \div m
    BY <1>4 DEF Sim!Mean
  <2> HIDE DEF w, m
  <2> QED BY <1>1, <1>3, <2>1, DivExact
<1>6. w * (i + n) = i * e + n * p
  <2>1. e \in Int /\ p \in Int /\ w \in Int
    BY <1>2, <1>3, IntProducts
  <2> HIDE DEF w
  <2>2. CASE i > 0
    <3>1. Sim!Abs(i) = i /\ Sim!Abs(n) = n
      BY <2>2 DEF Sim!Abs, Sim!SameDirection
    <3> QED BY <1>4, <3>1
  <2>3. CASE i < 0
    <3>1. Sim!Abs(i) = -i /\ Sim!Abs(n) = -n
      BY <2>3 DEF Sim!Abs, Sim!SameDirection
    <3>2. (-i) * e + (-n) * p = w * (-i - n)
      BY <1>4, <3>1
    <3> QED BY <2>1, <3>2
  <2> QED BY <2>2, <2>3 DEF Sim!SameDirection
<1> QED
  BY <1>3, <1>5, <1>6 DEF Multiples

LEMMA MultiplesNest ==
  ASSUME NEW n \in Int, NEW c \in Int, NEW b \in Multiples(n * c), NEW a \in Multiples(b)
  PROVE  a \in Multiples(c)
<1>1. PICK x \in Int, y \in Int : a = x * b /\ b = y * (n * c)
  BY DEF Multiples
<1>2. (x * y) * n \in Int /\ a = ((x * y) * n) * c
  BY <1>1, IntProducts
<1> QED BY <1>2 DEF Multiples

(* One more fill, with ticks fine enough for it. *)
LEMMA FillIsWhole ==
  ASSUME NEW i \in Int, NEW e \in Int, NEW n \in Int \ {0}, NEW p \in Int,
         NEW b \in Nat, NEW c \in Nat, i + n \in -MaxPosition..MaxPosition,
         \A m \in 1..MaxPosition : c \in Multiples(m * b),
         e \in Multiples(c), p \in Multiples(c), p \in Multiples(b),
         i # 0 => 1 \in 1..MaxPosition
  PROVE  /\ Sim!Entry(i, e, n, p) \in Multiples(b)
         /\ (i + n) * Sim!Entry(i, e, n, p) = i * e + n * p + Sim!Gain(i, e, n, p)
<1>1. ASSUME i # 0, Sim!SameDirection(i, n)
      PROVE  /\ Sim!Mean(i, e, n, p) \in Multiples(b)
             /\ Sim!Mean(i, e, n, p) * (i + n) = i * e + n * p
  <2>1. Sim!Abs(i) + Sim!Abs(n) \in 1..MaxPosition
    BY <1>1, BacktestAssumption DEF BacktestAssumption, Sim!Abs, Sim!SameDirection
  <2>2. c \in Multiples((Sim!Abs(i) + Sim!Abs(n)) * b)
    BY <2>1
  <2>3. n \in Int
    OBVIOUS
  <2> QED BY <1>1, <2>2, <2>3, MeanIsWhole
<1>2. Sim!Entry(i, e, n, p) \in Multiples(b)
  <2>1. 0 \in Multiples(b)
    <3>1. 0 = 0 * b
      OBVIOUS
    <3> QED BY <3>1 DEF Multiples
  <2>2. ASSUME i # 0 PROVE e \in Multiples(b)
    <3>1. c \in Multiples(1 * b)
      BY <2>2
    <3>2. 1 \in Int /\ b \in Int
      OBVIOUS
    <3> QED BY <3>1, <3>2, MultiplesNest
  <2> QED BY <1>1, <2>1, <2>2 DEF Sim!Entry
<1>3. i # 0 /\ Sim!SameDirection(i, n) => Sim!Mean(i, e, n, p) * (i + n) = i * e + n * p
  BY <1>1
<1>4. EntryBalances(i, e, n, p)
  BY <1>3, FillBalances, Zenon DEF MeanBalances
<1> QED BY <1>2, <1>4 DEF EntryBalances

(* The mean of one price is that price. *)
LEMMA SamePriceMean ==
  ASSUME NEW i \in Int, NEW n \in Int, Sim!SameDirection(i, n), NEW p \in Int
  PROVE  Sim!Mean(i, p, n, p) = p
<1> DEFINE m == Sim!Abs(i) + Sim!Abs(n)
<1>1. Sim!Abs(i) \in Nat /\ Sim!Abs(n) \in Nat /\ m \in Nat \ {0}
  BY DEF Sim!Abs, Sim!SameDirection
<1>2. Sim!Abs(i) * p + Sim!Abs(n) * p = p * m
  BY <1>1
<1>3. Sim!Mean(i, p, n, p) = (p * m) \div m
  BY <1>2 DEF Sim!Mean
<1> HIDE DEF m
<1> QED BY <1>1, <1>3, DivExact

-----------------------------------------------------------------------------
(* What every call on the simulator keeps *)

(* One resting order a side. *)
Single(t) == \A x, y \in t.pending : x.side = y.side => x = y

(* The position, and what it would be were the resting order to fill.       *)
Exposed(t) ==
  /\ t.inv \in -MaxPosition..MaxPosition
  /\ \A o \in t.pending :
       /\ o.side = "BID" => t.inv + (Qty - o.executed) <= MaxPosition
       /\ o.side = "ASK" => -MaxPosition <= t.inv - (Qty - o.executed)

SameBooks(t) == t.simInv = t.inv /\ (t.inv # 0 => t.simEntry = t.ae)

(* Where a position is never larger than an order, what a resting order has *)
(* added to it is all of it, at that order's price.                         *)
OnePrice(t) ==
  \A o \in t.pending :
    /\ o.side = "BID" /\ t.inv > 0 => t.ae = o.price
    /\ o.side = "ASK" /\ t.inv < 0 => t.ae = o.price

Balanced(t) == t.inv * t.ae = t.realized - t.cash

(* With k fills behind it and those that the resting orders may still bring *)
(* no more than the lots ordered.                                           *)
Settled(t, d) ==
  Qty * Len(t.placed) <= LotCap =>
    \E k \in 0..LotCap, bids \in Nat, asks \in Nat :
      /\ k + bids + asks <= Qty * Len(t.placed)
      /\ \A o \in t.pending :
           /\ o.side = "BID" => Qty - o.executed <= bids
           /\ o.side = "ASK" => Qty - o.executed <= asks
      /\ t.ae \in Multiples(d[k])
      /\ Balanced(t)

Sound(t, d) ==
  /\ Single(t) /\ Exposed(t) /\ SameBooks(t)
  /\ MaxPosition <= Qty => OnePrice(t) /\ Balanced(t)
  /\ FineTicks(d) => Settled(t, d)

(* The orders of u are orders of t, of which more may have been executed.   *)
Kept(t, u) ==
  \A x \in u.pending : \E y \in t.pending : x.cid = y.cid /\ x.side = y.side /\ x.price = y.price

(* From t to u the order o fills q lots. *)
Left(o, q) ==
  IF o.executed + q < Qty THEN {[o EXCEPT !.executed = o.executed + q]} ELSE {}
Lots(o, q) == Sim!Sign(o.side) * q
Fill(t, u, o, q) ==
  /\ u \in Backtests /\ Unscanned(t, u)
  /\ u.pending = (t.pending \ {o}) \cup Left(o, q)
  /\ u.simInv = t.simInv + Lots(o, q)
  /\ u.simEntry = Sim!SimEntry(t.simInv, t.simEntry, Lots(o, q), o.price)
  /\ u.inv = t.inv + Lots(o, q)
  /\ u.ae = Sim!Entry(t.inv, t.ae, Lots(o, q), o.price)
  /\ u.realized = t.realized + Sim!Gain(t.inv, t.ae, Lots(o, q), o.price)
  /\ u.cash = t.cash - Lots(o, q) * o.price

LEMMA PriceType == QuotePrices \subseteq Int
<1>1. QuoteWidth \in Int /\ \A m \in Mids : m \in Int
  BY BacktestAssumption, MarketFeedAssumption DEF BacktestAssumption, MarketFeedAssumption
<1> QED BY <1>1 DEF QuotePrices

LEMMA OrderFacts ==
  ASSUME NEW t \in Backtests, NEW o \in t.pending
  PROVE  /\ o \in Resting /\ o.side \in {"BID", "ASK"} /\ o.price \in QuotePrices /\ o.price \in Int
         /\ o.executed \in 0..(Qty - 1) /\ Qty - o.executed \in Nat \ {0}
<1>1. o \in Resting
  BY DEF Backtests
<1>2. o.executed \in 0..(Qty - 1) /\ o.price \in QuotePrices /\ o.side \in {"BID", "ASK"}
  BY <1>1, TheSides DEF Resting
<1>3. Qty - o.executed \in Nat \ {0}
  <2>1. Qty \in Nat \ {0}
    BY Quantity
  <2> QED BY <1>2, <2>1
<1> QED BY <1>1, <1>2, <1>3, PriceType

LEMMA LotsFacts ==
  ASSUME NEW t \in Backtests, NEW o \in t.pending, NEW q \in 1..(Qty - o.executed)
  PROVE  /\ q \in Nat \ {0} /\ Lots(o, q) \in Int \ {0}
         /\ o.side = "BID" => Lots(o, q) = q
         /\ o.side = "ASK" => Lots(o, q) = -q
         /\ Left(o, q) \subseteq Resting
         /\ \A x \in Left(o, q) : /\ x.cid = o.cid /\ x.side = o.side /\ x.price = o.price
                                  /\ x.executed = o.executed + q
<1>1. o \in Resting /\ o.executed \in 0..(Qty - 1) /\ Qty - o.executed \in Nat \ {0} /\ Qty \in Nat
  BY OrderFacts, Quantity
<1>2. q \in Nat \ {0}
  BY <1>1
<1>3. Sim!Sign(o.side) = (IF o.side = "BID" THEN 1 ELSE -1)
  BY DEF Sim!Sign
<1>4. Lots(o, q) = IF o.side = "BID" THEN q ELSE -q
  BY <1>2, <1>3 DEF Lots
<1>5. ASSUME NEW x \in Left(o, q)
      PROVE  /\ x \in Resting /\ x.cid = o.cid /\ x.side = o.side /\ x.price = o.price
             /\ x.executed = o.executed + q
  <2>1. o.executed + q < Qty /\ x = [o EXCEPT !.executed = o.executed + q]
    BY <1>5 DEF Left
  <2>2. o.executed + q \in 0..(Qty - 1)
    BY <1>1, <1>2, <2>1
  <2> QED BY <1>1, <2>1, <2>2 DEF Resting
<1> QED BY <1>2, <1>4, <1>5

LEMMA FillOneFacts ==
  ASSUME NEW t \in Backtests, t.top \in Books, NEW o \in t.pending
  PROVE  \/ Sim!FillOne(t, o) = t
         \/ \E q \in 1..(Qty - o.executed) : Fill(t, Sim!FillOne(t, o), o, q)
<1>1. CASE ~Sim!Crossed(t, o)
  BY <1>1 DEF Sim!FillOne
<1>2. CASE Sim!Crossed(t, o)
  <2> DEFINE q == Sim!FillQty(t, o)
             v == [t EXCEPT !.pending = (t.pending \ {o}) \cup Left(o, q)]
             u == Sim!FillOne(t, o)
  <2>1. q \in 1..(Qty - o.executed)
    <3>1. t.top.size \in Nat \ {0}
      BY MarketFeedAssumption DEF MarketFeedAssumption, Books
    <3> QED BY <3>1, OrderFacts DEF Sim!FillQty, Sim!Least
  <2>2. u = Sim!Filled(v, Lots(o, q), o.price)
    BY <1>2 DEF Sim!FillOne, Left, Lots
  <2> HIDE DEF q
  <2>3. /\ v \in Backtests /\ Unscanned(t, v) /\ v.pending = (t.pending \ {o}) \cup Left(o, q)
        /\ v.simInv = t.simInv /\ v.simEntry = t.simEntry /\ v.inv = t.inv /\ v.ae = t.ae
        /\ v.realized = t.realized /\ v.cash = t.cash
    <3>1. (t.pending \ {o}) \cup Left(o, q) \in SUBSET Resting
      BY <2>1, LotsFacts DEF Backtests
    <3> QED BY <3>1 DEF Backtests, Unscanned
  <2>4. Lots(o, q) \in Int \ {0} /\ o.price \in Int
    BY <2>1, LotsFacts, OrderFacts
  <2> HIDE DEF u, v
  <2>5. Booked(v, u, Lots(o, q), o.price)
    BY <2>2, <2>3, <2>4, FilledFacts, Zenon
  <2>6. Fill(t, u, o, q)
    BY <2>3, <2>5 DEF Booked, Fill, Unscanned
  <2> QED BY <2>1, <2>6 DEF u
<1> QED BY <1>1, <1>2

LEMMA FillKeepsSingle ==
  ASSUME NEW t \in Backtests, NEW u, NEW o \in t.pending, NEW q \in 1..(Qty - o.executed),
         Fill(t, u, o, q), Single(t)
  PROVE  Single(u) /\ Kept(t, u)
<1>1. \A x \in u.pending : \/ x \in t.pending /\ x # o
                           \/ x \in Left(o, q)
  BY DEF Fill
<1>2. \A x \in Left(o, q) : x.cid = o.cid /\ x.side = o.side /\ x.price = o.price
  BY LotsFacts
<1>3. \A x, y \in Left(o, q) : x = y
  BY DEF Left
<1>4. Kept(t, u)
  BY <1>1, <1>2 DEF Kept
<1> QED BY <1>1, <1>2, <1>3, <1>4 DEF Single

LEMMA FillKeepsExposed ==
  ASSUME NEW t \in Backtests, NEW u, NEW o \in t.pending, NEW q \in 1..(Qty - o.executed),
         Fill(t, u, o, q), Single(t), Exposed(t)
  PROVE  Exposed(u)
<1>1. /\ q \in Nat \ {0} /\ q <= Qty - o.executed /\ Qty - o.executed \in Nat \ {0}
      /\ t.inv \in -MaxPosition..MaxPosition /\ MaxPosition \in Nat /\ Qty \in Nat
      /\ o.executed \in Nat
      /\ o.side = "BID" => u.inv = t.inv + q
      /\ o.side = "ASK" => u.inv = t.inv - q
  <2>1. t.inv \in Int /\ MaxPosition \in Nat
    BY BacktestAssumption DEF Backtests, BacktestAssumption
  <2> QED BY <2>1, LotsFacts, OrderFacts, Quantity DEF Fill, Exposed
<1>2. o.side \in {"BID", "ASK"}
  BY OrderFacts
<1>3. u.inv \in -MaxPosition..MaxPosition
  <2>1. o.side = "BID" => t.inv + (Qty - o.executed) <= MaxPosition
    BY DEF Exposed
  <2>2. o.side = "ASK" => -MaxPosition <= t.inv - (Qty - o.executed)
    BY DEF Exposed
  <2> QED BY <1>1, <1>2, <2>1, <2>2
<1>4. ASSUME NEW x \in u.pending
      PROVE  /\ x.side = "BID" => u.inv + (Qty - x.executed) <= MaxPosition
             /\ x.side = "ASK" => -MaxPosition <= u.inv - (Qty - x.executed)
  <2>1. CASE x \in Left(o, q)
    <3>1. x.side = o.side /\ x.executed = o.executed + q
      BY <2>1, LotsFacts
    <3> QED BY <1>1, <3>1 DEF Exposed
  <2>2. CASE x \notin Left(o, q)
    <3>1. x \in t.pending /\ x # o
      BY <2>2 DEF Fill
    <3>2. x.side # o.side /\ x.side \in {"BID", "ASK"} /\ x.executed \in Nat
      BY <3>1, OrderFacts DEF Single
    <3>3. /\ x.side = "BID" => t.inv + (Qty - x.executed) <= MaxPosition
          /\ x.side = "ASK" => -MaxPosition <= t.inv - (Qty - x.executed)
      BY <3>1 DEF Exposed
    <3> QED BY <1>1, <1>2, <3>2, <3>3
  <2> QED BY <2>1, <2>2
<1> QED BY <1>3, <1>4 DEF Exposed

LEMMA FillKeepsSameBooks ==
  ASSUME NEW t \in Backtests, NEW u, NEW o \in t.pending, NEW q \in 1..(Qty - o.executed),
         Fill(t, u, o, q), SameBooks(t)
  PROVE  SameBooks(u)
<1>1. /\ t.inv \in Int /\ t.ae \in Int /\ t.simEntry \in Int
      /\ Lots(o, q) \in Int \ {0} /\ o.price \in Int
  BY LotsFacts, OrderFacts DEF Backtests
<1>2. u.simInv = u.inv
  BY DEF Fill, SameBooks
<1>3. ASSUME u.inv # 0 PROVE u.simEntry = u.ae
  <2>1. t.inv # 0 => t.simEntry = t.ae
    BY DEF SameBooks
  <2>2. t.inv + Lots(o, q) # 0
    BY <1>3 DEF Fill
  <2>3. Sim!SimEntry(t.inv, t.simEntry, Lots(o, q), o.price)
          = Sim!Entry(t.inv, t.ae, Lots(o, q), o.price)
    BY <1>1, <2>1, <2>2, EntriesAgree
  <2> QED BY <2>3 DEF Fill, SameBooks
<1> QED BY <1>2, <1>3 DEF SameBooks

LEMMA EntryCases ==
  ASSUME NEW i \in Int, NEW e \in Int, NEW n \in Int \ {0}, NEW p \in Int
  PROVE  /\ i = 0 => Sim!Entry(i, e, n, p) = p
         /\ Sim!SameDirection(i, n) => Sim!Entry(i, e, n, p) = Sim!Mean(i, e, n, p)
         /\ (i > 0 /\ i + n < 0) \/ (i < 0 /\ i + n > 0) => Sim!Entry(i, e, n, p) = p
         /\ (i > 0 /\ n < 0 /\ i + n > 0) \/ (i < 0 /\ n > 0 /\ i + n < 0)
              => Sim!Entry(i, e, n, p) = e
<1>1. i = 0 => Sim!Entry(i, e, n, p) = p
  BY DEF Sim!Entry
<1>2. Sim!SameDirection(i, n) => Sim!Entry(i, e, n, p) = Sim!Mean(i, e, n, p)
  <2>1. Sim!SameDirection(i, n) => i # 0
    BY DEF Sim!SameDirection
  <2> QED BY <2>1 DEF Sim!Entry
<1>3. ASSUME (i > 0 /\ i + n < 0) \/ (i < 0 /\ i + n > 0)
      PROVE  Sim!Entry(i, e, n, p) = p
  <2>1. /\ i # 0 /\ ~Sim!SameDirection(i, n) /\ Sim!Abs(n) > Sim!Abs(i) /\ i + n # 0
        /\ Sim!Abs(i) \in Nat /\ Sim!Abs(n) \in Nat
    BY <1>3 DEF Sim!SameDirection, Sim!Abs
  <2> QED BY <2>1 DEF Sim!Entry
<1>4. ASSUME (i > 0 /\ n < 0 /\ i + n > 0) \/ (i < 0 /\ n > 0 /\ i + n < 0)
      PROVE  Sim!Entry(i, e, n, p) = e
  <2>1. /\ i # 0 /\ ~Sim!SameDirection(i, n) /\ Sim!Abs(n) < Sim!Abs(i) /\ i + n # 0
        /\ Sim!Abs(i) \in Nat /\ Sim!Abs(n) \in Nat
    BY <1>4 DEF Sim!SameDirection, Sim!Abs
  <2> QED BY <2>1 DEF Sim!Entry
<1> QED BY <1>1, <1>2, <1>3, <1>4

LEMMA FillKeepsOnePrice ==
  ASSUME NEW t \in Backtests, NEW u, NEW o \in t.pending, NEW q \in 1..(Qty - o.executed),
         Fill(t, u, o, q), Single(t), OnePrice(t), Balanced(t)
  PROVE  OnePrice(u) /\ Balanced(u)
<1> DEFINE n == Lots(o, q)
           i == t.inv
           e == t.ae
           p == o.price
<1>1. /\ i \in Int /\ e \in Int /\ n \in Int \ {0} /\ p \in Int /\ q \in Nat \ {0}
      /\ t.realized \in Int /\ t.cash \in Int
      /\ o.side = "BID" => n = q
      /\ o.side = "ASK" => n = -q
      /\ o.side \in {"BID", "ASK"}
  <2>1. i \in Int /\ e \in Int /\ t.realized \in Int /\ t.cash \in Int
    BY DEF Backtests
  <2>2. /\ n \in Int \ {0} /\ q \in Nat \ {0}
        /\ o.side = "BID" => n = q
        /\ o.side = "ASK" => n = -q
    BY LotsFacts, Zenon
  <2>3. p \in Int /\ o.side \in {"BID", "ASK"}
    BY OrderFacts, Zenon
  <2> QED BY <2>1, <2>2, <2>3, Zenon
<1>2. /\ u.inv = i + n /\ u.ae = Sim!Entry(i, e, n, p)
      /\ u.realized = t.realized + Sim!Gain(i, e, n, p) /\ u.cash = t.cash - n * p
  BY DEF Fill
<1>3. \A x \in u.pending : \/ x \in t.pending /\ x.side # o.side /\ x.side \in {"BID", "ASK"}
                           \/ x.side = o.side /\ x.price = o.price
  <2> SUFFICES ASSUME NEW x \in u.pending
               PROVE  \/ x \in t.pending /\ x.side # o.side /\ x.side \in {"BID", "ASK"}
                      \/ x.side = o.side /\ x.price = o.price
    OBVIOUS
  <2>1. CASE x \in Left(o, q)
    BY <2>1, LotsFacts
  <2>2. CASE x \in t.pending /\ x # o
    BY <2>2, OrderFacts DEF Single
  <2> QED BY <2>1, <2>2 DEF Fill
<1>4. Sim!SameDirection(i, n) => e = p
  <2>1. Sim!SameDirection(i, n) => \/ o.side = "BID" /\ i > 0
                                   \/ o.side = "ASK" /\ i < 0
    BY <1>1 DEF Sim!SameDirection
  <2> QED BY <2>1 DEF OnePrice
<1>5. Sim!SameDirection(i, n) => Sim!Mean(i, e, n, p) = p
  BY <1>1, <1>4, SamePriceMean
<1> HIDE DEF n, i, e, p
<1>6. Balanced(u)
  <2>1. i # 0 /\ Sim!SameDirection(i, n) => Sim!Mean(i, e, n, p) * (i + n) = i * e + n * p
    <3>1. p * (i + n) = i * p + n * p
      BY <1>1
    <3> QED BY <1>4, <1>5, <3>1
  <2>2. (i + n) * Sim!Entry(i, e, n, p) = i * e + n * p + Sim!Gain(i, e, n, p)
    <3>1. i \in Int /\ e \in Int /\ n \in Int \ {0} /\ p \in Int
      BY <1>1
    <3>2. MeanBalances(i, e, n, p)
      BY <2>1, Zenon DEF MeanBalances
    <3>3. EntryBalances(i, e, n, p)
      BY <3>1, <3>2, FillBalances, Zenon
    <3> QED BY <3>3, Zenon DEF EntryBalances
  <2>3. Sim!Gain(i, e, n, p) \in Int /\ n * p \in Int
    BY <1>1, SimEntryType, IntProducts
  <2>4. i * e = t.realized - t.cash
    BY DEF Balanced, i, e
  <2>5. (i + n) * Sim!Entry(i, e, n, p) = (t.realized + Sim!Gain(i, e, n, p)) - (t.cash - n * p)
    <3>1. \A r, c, g, x \in Int : (r - c) + x + g = (r + g) - (c - x)
      OBVIOUS
    <3> QED BY <1>1, <2>2, <2>3, <2>4, <3>1
  <2> QED BY <1>2, <2>5 DEF Balanced
<1>7. OnePrice(u)
  <2> SUFFICES ASSUME NEW x \in u.pending
               PROVE  /\ x.side = "BID" /\ u.inv > 0 => u.ae = x.price
                      /\ x.side = "ASK" /\ u.inv < 0 => u.ae = x.price
    BY DEF OnePrice
  <2>1. CASE x.side = o.side /\ x.price = o.price
    <3>1. ASSUME x.side = "BID", u.inv > 0 PROVE u.ae = p
      <4>1. i = 0 \/ Sim!SameDirection(i, n) \/ (i < 0 /\ i + n > 0)
        BY <1>1, <1>2, <2>1, <3>1 DEF Sim!SameDirection
      <4> QED BY <1>1, <1>2, <1>5, <4>1, EntryCases
    <3>2. ASSUME x.side = "ASK", u.inv < 0 PROVE u.ae = p
      <4>1. i = 0 \/ Sim!SameDirection(i, n) \/ (i > 0 /\ i + n < 0)
        BY <1>1, <1>2, <2>1, <3>2 DEF Sim!SameDirection
      <4> QED BY <1>1, <1>2, <1>5, <4>1, EntryCases
    <3> QED BY <2>1, <3>1, <3>2 DEF p
  <2>2. CASE x \in t.pending /\ x.side # o.side /\ x.side \in {"BID", "ASK"}
    <3>1. ASSUME x.side = "BID", u.inv > 0 PROVE u.ae = x.price
      <4>1. i > 0 /\ n < 0 /\ i + n > 0
        BY <1>1, <1>2, <2>2, <3>1
      <4>2. u.ae = e
        BY <1>1, <1>2, <4>1, EntryCases
      <4> QED BY <2>2, <3>1, <4>1, <4>2 DEF OnePrice, i, e
    <3>2. ASSUME x.side = "ASK", u.inv < 0 PROVE u.ae = x.price
      <4>1. i < 0 /\ n > 0 /\ i + n < 0
        BY <1>1, <1>2, <2>2, <3>2
      <4>2. u.ae = e
        BY <1>1, <1>2, <4>1, EntryCases
      <4> QED BY <2>2, <3>2, <4>1, <4>2 DEF OnePrice, i, e
    <3> QED BY <3>1, <3>2
  <2> QED BY <1>3, <2>1, <2>2
<1> QED BY <1>6, <1>7

LEMMA FillKeepsSettled ==
  ASSUME NEW t \in Backtests, NEW u, NEW o \in t.pending, NEW q \in 1..(Qty - o.executed),
         Fill(t, u, o, q), Single(t), Exposed(t), Exposed(u),
         NEW d, FineTicks(d), Settled(t, d)
  PROVE  Settled(u, d)
<1> SUFFICES ASSUME Qty * Len(u.placed) <= LotCap
             PROVE  \E k \in 0..LotCap, bids \in Nat, asks \in Nat :
                      /\ k + bids + asks <= Qty * Len(u.placed)
                      /\ \A x \in u.pending :
                           /\ x.side = "BID" => Qty - x.executed <= bids
                           /\ x.side = "ASK" => Qty - x.executed <= asks
                      /\ u.ae \in Multiples(d[k])
                      /\ Balanced(u)
  BY DEF Settled
<1> DEFINE n == Lots(o, q)
           i == t.inv
           e == t.ae
           p == o.price
           all == Qty * Len(t.placed)
<1>1. /\ i \in Int /\ e \in Int /\ n \in Int \ {0} /\ p \in Int /\ q \in Nat \ {0}
      /\ t.realized \in Int /\ t.cash \in Int
      /\ o.side = "BID" => n = q
      /\ o.side = "ASK" => n = -q
      /\ o.side \in {"BID", "ASK"} /\ q <= Qty - o.executed /\ Qty - o.executed \in Nat
      /\ p \in QuotePrices
  <2>1. i \in Int /\ e \in Int /\ t.realized \in Int /\ t.cash \in Int
    BY DEF Backtests
  <2>2. /\ n \in Int \ {0} /\ q \in Nat \ {0}
        /\ o.side = "BID" => n = q
        /\ o.side = "ASK" => n = -q
    BY LotsFacts, Zenon
  <2>3. /\ p \in Int /\ o.side \in {"BID", "ASK"} /\ p \in QuotePrices
        /\ Qty - o.executed \in Nat \ {0}
    BY OrderFacts, Zenon
  <2>4. q <= Qty - o.executed
    BY <2>3
  <2> QED BY <2>1, <2>2, <2>3, <2>4, Zenon
<1>2. /\ u.inv = i + n /\ u.ae = Sim!Entry(i, e, n, p)
      /\ u.realized = t.realized + Sim!Gain(i, e, n, p) /\ u.cash = t.cash - n * p
      /\ u.placed = t.placed
  BY DEF Fill, Unscanned
<1>3. PICK k \in 0..LotCap, bids \in Nat, asks \in Nat :
        /\ k + bids + asks <= all
        /\ \A x \in t.pending : /\ x.side = "BID" => Qty - x.executed <= bids
                                /\ x.side = "ASK" => Qty - x.executed <= asks
        /\ e \in Multiples(d[k])
        /\ Balanced(t)
  BY <1>2 DEF Settled
<1>4. all \in Nat /\ all <= LotCap /\ LotCap \in Nat
  <2>1. Len(t.placed) \in Nat /\ Qty \in Nat
    BY LenProperties, Quantity DEF Backtests
  <2>2. MaxSessions * MaxEvents \in Nat
    BY MarketFeedAssumption DEF MarketFeedAssumption
  <2>3. 2 * (MaxSessions * MaxEvents) \in Nat
    BY <2>2
  <2>4. \A x, y \in Nat : x * y \in Nat
    OBVIOUS
  <2> QED BY <1>2, <2>1, <2>3, <2>4 DEF LotCap
<1> HIDE DEF all
<1>5. \E b, a \in Nat :
        /\ k + 1 + b + a <= all
        /\ \A x \in u.pending : /\ x.side = "BID" => Qty - x.executed <= b
                                /\ x.side = "ASK" => Qty - x.executed <= a
  <2>1. \A x \in u.pending : \/ x \in t.pending /\ x.side # o.side
                             \/ /\ x.side = o.side
                                /\ x.executed = o.executed + q
    <3> SUFFICES ASSUME NEW x \in u.pending
                 PROVE  \/ x \in t.pending /\ x.side # o.side
                        \/ x.side = o.side /\ x.executed = o.executed + q
      OBVIOUS
    <3>1. CASE x \in Left(o, q)
      BY <3>1, LotsFacts
    <3>2. CASE x \in t.pending /\ x # o
      BY <3>2 DEF Single
    <3> QED BY <3>1, <3>2 DEF Fill
  <2>2. Qty \in Nat /\ o.executed \in Nat
    BY Quantity, OrderFacts
  <2>5. /\ all \in Nat /\ k \in Nat /\ q \in Nat \ {0} /\ q <= Qty - o.executed
        /\ k + bids + asks <= all
    BY <1>1, <1>3, <1>4
  <2>6. /\ all \in Int /\ k \in Int /\ bids \in Int /\ asks \in Int /\ q \in Int /\ q >= 1
        /\ Qty \in Int /\ o.executed \in Int /\ q <= Qty - o.executed
        /\ k + bids + asks <= all
    BY <2>2, <2>5
  <2>3. CASE o.side = "BID"
    <3>1. Qty - o.executed <= bids
      BY <1>3, <2>3
    <3>2. /\ bids - q \in Nat /\ k + 1 + (bids - q) + asks <= all
          /\ Qty - (o.executed + q) <= bids - q
      BY <2>6, <3>1
    <3>3. \A x \in u.pending : /\ x.side = "BID" => Qty - x.executed <= bids - q
                               /\ x.side = "ASK" => Qty - x.executed <= asks
      BY <1>3, <2>1, <2>3, <3>2
    <3>4. bids - q \in Nat /\ asks \in Nat
      BY <3>2
    <3> QED BY <3>2, <3>3, <3>4
  <2>4. CASE o.side = "ASK"
    <3>1. Qty - o.executed <= asks
      BY <1>3, <2>4
    <3>2. /\ asks - q \in Nat /\ k + 1 + bids + (asks - q) <= all
          /\ Qty - (o.executed + q) <= asks - q
      BY <2>6, <3>1
    <3>3. \A x \in u.pending : /\ x.side = "BID" => Qty - x.executed <= bids
                               /\ x.side = "ASK" => Qty - x.executed <= asks - q
      BY <1>3, <2>1, <2>4, <3>2
    <3>4. bids \in Nat /\ asks - q \in Nat
      BY <3>2
    <3> QED BY <3>2, <3>3, <3>4
  <2> QED BY <1>1, <2>3, <2>4
<1>6. k + 1 \in 1..LotCap /\ (k + 1) - 1 = k /\ k + 1 \in 0..LotCap
  BY <1>3, <1>4, <1>5
<1>7. /\ d[k] \in Nat /\ d[k + 1] \in Nat /\ p \in Multiples(d[k]) /\ p \in Multiples(d[k + 1])
      /\ \A m \in 1..MaxPosition : d[k] \in Multiples(m * d[k + 1])
  BY <1>1, <1>6 DEF FineTicks
<1>8. i + n \in -MaxPosition..MaxPosition /\ (i # 0 => 1 \in 1..MaxPosition)
  BY <1>1, <1>2, BacktestAssumption DEF BacktestAssumption, Exposed
<1> HIDE DEF n, i, e, p
<1>9. /\ Sim!Entry(i, e, n, p) \in Multiples(d[k + 1])
      /\ (i + n) * Sim!Entry(i, e, n, p) = i * e + n * p + Sim!Gain(i, e, n, p)
  <2>1. i \in Int /\ e \in Int /\ n \in Int \ {0} /\ p \in Int
    BY <1>1
  <2>2. e \in Multiples(d[k])
    BY <1>3
  <2> QED BY <1>7, <1>8, <2>1, <2>2, FillIsWhole, Zenon
<1>10. Balanced(u)
  <2>1. Sim!Gain(i, e, n, p) \in Int /\ n * p \in Int
    BY <1>1, SimEntryType, IntProducts
  <2>2. i * e = t.realized - t.cash
    BY <1>3 DEF Balanced, i, e
  <2>3. (i + n) * Sim!Entry(i, e, n, p) = (t.realized + Sim!Gain(i, e, n, p)) - (t.cash - n * p)
    <3>1. \A r, c, g, x \in Int : (r - c) + x + g = (r + g) - (c - x)
      OBVIOUS
    <3>2. t.realized \in Int /\ t.cash \in Int
      BY <1>1
    <3>3. (i + n) * Sim!Entry(i, e, n, p)
            = (t.realized - t.cash) + n * p + Sim!Gain(i, e, n, p)
      BY <1>9, <2>2
    <3> QED BY <2>1, <3>1, <3>2, <3>3
  <2> QED BY <1>2, <2>3 DEF Balanced
<1> QED BY <1>2, <1>5, <1>6, <1>9, <1>10 DEF all

(* Of t and u before and after scanning. *)
Scanned(t, u, d) == u \in Backtests /\ Unscanned(t, u) /\ Kept(t, u) /\ Sound(u, d)

LEMMA UnchangedIsScanned ==
  ASSUME NEW t \in Backtests, NEW d, Sound(t, d)
  PROVE  Scanned(t, t, d)
BY DEF Scanned, Unscanned, Kept

LEMMA FillOneScans ==
  ASSUME NEW t \in Backtests, t.top \in Books, NEW o \in t.pending, NEW d, Sound(t, d)
  PROVE  Scanned(t, Sim!FillOne(t, o), d)
<1> DEFINE u == Sim!FillOne(t, o)
<1>1. CASE u = t
  BY <1>1, UnchangedIsScanned
<1>2. CASE \E q \in 1..(Qty - o.executed) : Fill(t, u, o, q)
  <2> HIDE DEF u
  <2>1. PICK q \in 1..(Qty - o.executed) : Fill(t, u, o, q)
    BY <1>2
  <2>2. Single(t) /\ Exposed(t) /\ SameBooks(t)
    BY DEF Sound
  <2>3. Single(u) /\ Kept(t, u)
    BY <2>1, <2>2, FillKeepsSingle
  <2>4. Exposed(u)
    BY <2>1, <2>2, FillKeepsExposed
  <2>5. SameBooks(u)
    BY <2>1, <2>2, FillKeepsSameBooks
  <2>6. MaxPosition <= Qty => OnePrice(u) /\ Balanced(u)
    BY <2>1, <2>2, FillKeepsOnePrice DEF Sound
  <2>7. FineTicks(d) => Settled(u, d)
    BY <2>1, <2>2, <2>4, FillKeepsSettled DEF Sound
  <2>8. Sound(u, d)
    BY <2>3, <2>4, <2>5, <2>6, <2>7 DEF Sound
  <2>9. Scanned(t, u, d)
    BY <2>1, <2>3, <2>8 DEF Fill, Scanned
  <2> QED BY <2>9 DEF u
<1> QED BY <1>1, <1>2, FillOneFacts

(* A side without an order, and a side with one. *)
LEMMA ScanNothing ==
  ASSUME NEW t, NEW side, {o \in t.pending : o.side = side} = {}
  PROVE  Sim!ScanSide(t, side) = t
<1> DEFINE S == {x \in t.pending : x.side = side}
           body(iter) == [x \in SUBSET S |-> IF x = {} THEN t
                            ELSE Sim!FillOne(iter[x \ {CHOOSE y \in x : TRUE}], CHOOSE y \in x : TRUE)]
           g == [x \in SUBSET S |-> t]
           h == CHOOSE iter : iter = body(iter)
<1>1. Sim!ScanSide(t, side) = h[S]
  BY SMT DEF Sim!ScanSide, Sim!FoldSet, Sim!MapThenFoldSet
<1>2. S = {}
  OBVIOUS
<1> HIDE DEF S
<1>3. g = body(g)
  <2>1. SUBSET S = {{}}
    BY <1>2
  <2>2. ASSUME NEW x \in SUBSET S PROVE g[x] = body(g)[x]
    BY <2>1
  <2> QED BY <2>2
<1>4. h = body(h)
  BY <1>3
<1> HIDE DEF h
<1>5. h[{}] = t
  BY <1>4
<1> QED BY <1>1, <1>2, <1>5

LEMMA ScanTheOrder ==
  ASSUME NEW t, NEW side, NEW o, {x \in t.pending : x.side = side} = {o}
  PROVE  Sim!ScanSide(t, side) = Sim!FillOne(t, o)
<1> DEFINE S == {x \in t.pending : x.side = side}
           body(iter) == [x \in SUBSET S |-> IF x = {} THEN t
                            ELSE Sim!FillOne(iter[x \ {CHOOSE y \in x : TRUE}], CHOOSE y \in x : TRUE)]
           g == [x \in SUBSET S |-> IF x = {} THEN t ELSE Sim!FillOne(t, o)]
           h == CHOOSE iter : iter = body(iter)
<1>1. Sim!ScanSide(t, side) = h[S]
  BY SMT DEF Sim!ScanSide, Sim!FoldSet, Sim!MapThenFoldSet
<1>2. S = {o}
  OBVIOUS
<1> HIDE DEF S
<1>3. g = body(g)
  <2>1. ASSUME NEW x \in SUBSET S, x # {}
        PROVE  (CHOOSE y \in x : TRUE) = o /\ x \ {CHOOSE y \in x : TRUE} = {}
    BY <2>1, <1>2
  <2>2. ASSUME NEW x \in SUBSET S PROVE g[x] = body(g)[x]
    BY <2>1
  <2> QED BY <2>2
<1>4. h = body(h)
  BY <1>3
<1> HIDE DEF h
<1>5. h[{}] = t
  BY <1>4
<1>6. (CHOOSE y \in {o} : TRUE) = o
  OBVIOUS
<1>7. h[{o}] = Sim!FillOne(h[{o} \ {o}], o)
  BY <1>2, <1>4, <1>6
<1> QED BY <1>1, <1>2, <1>5, <1>7

LEMMA ScanSideScans ==
  ASSUME NEW t \in Backtests, t.top \in Books, NEW side, NEW d, Sound(t, d)
  PROVE  Scanned(t, Sim!ScanSide(t, side), d)
<1>1. CASE \E o \in t.pending : o.side = side
  <2>1. PICK o \in t.pending : o.side = side
    BY <1>1
  <2>2. {x \in t.pending : x.side = side} = {o}
    BY <2>1 DEF Sound, Single
  <2> QED BY <2>1, <2>2, ScanTheOrder, FillOneScans
<1>2. CASE ~\E o \in t.pending : o.side = side
  <2>1. {o \in t.pending : o.side = side} = {}
    BY <1>2
  <2> QED BY <2>1, ScanNothing, UnchangedIsScanned
<1> QED BY <1>1, <1>2

LEMMA ScanFillsScans ==
  ASSUME NEW t \in Backtests, t.top \in Books, NEW first, NEW d, Sound(t, d)
  PROVE  Scanned(t, Sim!ScanFills(t, first), d)
<1> DEFINE v == Sim!ScanSide(t, first)
           u == Sim!ScanSide(v, Sim!Other(first))
<1>1. Scanned(t, v, d)
  BY ScanSideScans
<1>2. v \in Backtests /\ v.top \in Books /\ Sound(v, d)
  BY <1>1 DEF Scanned, Unscanned
<1> HIDE DEF v
<1>3. Scanned(v, u, d)
  BY <1>2, ScanSideScans
<1>4. u = Sim!ScanFills(t, first)
  BY DEF Sim!ScanFills, v
<1> HIDE DEF u
<1>5. Kept(t, u)
  BY <1>1, <1>3 DEF Scanned, Kept
<1>6. Unscanned(t, u)
  BY <1>1, <1>3 DEF Scanned, Unscanned
<1> QED BY <1>3, <1>4, <1>5, <1>6 DEF Scanned

-----------------------------------------------------------------------------
(* What every call of the trading side keeps *)

Tracked(t) ==
  \A o \in t.pending : Working(t.slot[o.side]) /\ t.slot[o.side].cid = o.cid

(* The orders were submitted in the order of time, and not too many at once. *)
Paced(t) ==
  /\ \A i, j \in 1..Len(t.placed) : i <= j => t.placed[i] <= t.placed[j]
  /\ \A i \in 1..Len(t.placed) : t.placed[i] <= t.now
  /\ \A i \in 1..(Len(t.placed) - RateLimit - 1) :
       t.placed[i + RateLimit + 1] - t.placed[i] > RateWindow

Ready(t, d) ==
  t \in Backtests /\ t.top \in Books /\ Sound(t, d) /\ Tracked(t) /\ Paced(t)

LEMMA SyncReady ==
  ASSUME NEW t, NEW d, Ready(t, d)
  PROVE  /\ Ready(Sync(t), d) /\ Sync(t).placed = t.placed /\ Sync(t).pending = t.pending
         /\ Sync(t).slot = t.slot
<1> DEFINE working == {side \in Sides : Working(t.slot[side])}
           u == Sync(t)
<1>1. Cardinality(working) \in Nat
  <2>1. IsFiniteSet({"BID", "ASK"})
    <3>1. IsFiniteSet({"BID"})
      BY FS_Singleton
    <3>2. IsFiniteSet({"BID"} \cup {"ASK"})
      BY <3>1, FS_AddElement
    <3>3. {"BID", "ASK"} = {"BID"} \cup {"ASK"}
      OBVIOUS
    <3> QED BY <3>2, <3>3
  <2>2. working \subseteq {"BID", "ASK"}
    BY TheSides
  <2> HIDE DEF working
  <2> QED BY <2>1, <2>2, FS_Subset, FS_CardinalityType
<1>2. u = [t EXCEPT !.open = Cardinality(working)]
  BY DEF Sync
<1> HIDE DEF working, u
<1>3. /\ u \in Backtests /\ u.top = t.top /\ u.pending = t.pending /\ u.inv = t.inv
      /\ u.simInv = t.simInv /\ u.simEntry = t.simEntry /\ u.ae = t.ae
      /\ u.realized = t.realized /\ u.cash = t.cash /\ u.placed = t.placed
      /\ u.slot = t.slot /\ u.now = t.now
  BY <1>1, <1>2 DEF Ready, Backtests
<1>4. Sound(u, d)
  BY <1>3 DEF Ready, Sound, Single, Exposed, SameBooks, OnePrice, Balanced, Settled
<1>5. Tracked(u) /\ Paced(u)
  BY <1>3 DEF Ready, Tracked, Paced
<1>6. Ready(u, d) /\ u.placed = t.placed /\ u.pending = t.pending /\ u.slot = t.slot
  BY <1>3, <1>4, <1>5 DEF Ready
<1> QED BY <1>6 DEF u

(* Cancelling the order of a slot: its side has no order any more. *)
LEMMA CancelReady ==
  ASSUME NEW t, NEW d, Ready(t, d), NEW side \in Sides
  PROVE  /\ Ready(CancelSlot(t, side), d) /\ CancelSlot(t, side).placed = t.placed
         /\ \A o \in CancelSlot(t, side).pending : o.side # side
<1> DEFINE left == {o \in t.pending : o.cid # t.slot[side].cid}
           v == [[t EXCEPT !.pending = left]
                   EXCEPT !.slot[side].active = FALSE, !.slot[side].state = "CANCELED"]
           slots == [x \in Sides |->
                       IF x = side THEN [t.slot[x] EXCEPT !.active = FALSE, !.state = "CANCELED"]
                       ELSE t.slot[x]]
<1>1. CancelSlot(t, side) = Sync(v)
  BY DEF CancelSlot, Sim!CancelOrder
<1>0. slots \in [Sides -> Slots] /\ \A x \in Sides : x # side => slots[x] = t.slot[x]
  BY DEF Ready, Backtests, Slots
<1>2. left \subseteq t.pending /\ \A o \in left : o.side # side
  BY DEF Ready, Tracked
<1> HIDE DEF left
<1>11. v = [t EXCEPT !.pending = left, !.slot = slots]
  BY DEF Ready, Backtests, Slots
<1> HIDE DEF v, slots
<1>3. /\ v \in Backtests /\ v.top = t.top /\ v.pending = left /\ v.inv = t.inv
      /\ v.simInv = t.simInv /\ v.simEntry = t.simEntry /\ v.ae = t.ae
      /\ v.realized = t.realized /\ v.cash = t.cash /\ v.placed = t.placed /\ v.now = t.now
      /\ \A x \in Sides : x # side => v.slot[x] = t.slot[x]
  BY <1>0, <1>2, <1>11 DEF Ready, Backtests
<1>4. Single(v) /\ Exposed(v) /\ SameBooks(v)
  BY <1>2, <1>3 DEF Ready, Sound, Single, Exposed, SameBooks
<1>5. OnePrice(t) /\ Balanced(t) => OnePrice(v) /\ Balanced(v)
  BY <1>2, <1>3 DEF OnePrice, Balanced
<1>6. Settled(t, d) => Settled(v, d)
  <2> SUFFICES ASSUME Settled(t, d), Qty * Len(v.placed) <= LotCap
               PROVE  \E k \in 0..LotCap, bids \in Nat, asks \in Nat :
                        /\ k + bids + asks <= Qty * Len(v.placed)
                        /\ \A o \in v.pending :
                             /\ o.side = "BID" => Qty - o.executed <= bids
                             /\ o.side = "ASK" => Qty - o.executed <= asks
                        /\ v.ae \in Multiples(d[k])
                        /\ Balanced(v)
    BY DEF Settled
  <2>1. PICK k \in 0..LotCap, bids \in Nat, asks \in Nat :
          /\ k + bids + asks <= Qty * Len(t.placed)
          /\ \A o \in t.pending : /\ o.side = "BID" => Qty - o.executed <= bids
                                  /\ o.side = "ASK" => Qty - o.executed <= asks
          /\ t.ae \in Multiples(d[k])
          /\ Balanced(t)
    BY <1>3 DEF Settled
  <2>2. Balanced(v)
    BY <1>3, <2>1 DEF Balanced
  <2> QED BY <1>2, <1>3, <2>1, <2>2
<1>7. Sound(v, d)
  BY <1>4, <1>5, <1>6 DEF Ready, Sound
<1>8. Tracked(v)
  <2> SUFFICES ASSUME NEW o \in v.pending
               PROVE  Working(v.slot[o.side]) /\ v.slot[o.side].cid = o.cid
    BY DEF Tracked
  <2>1. o \in t.pending /\ o.side # side /\ o.side \in Sides
    BY <1>2, <1>3 DEF Ready, Backtests, Resting
  <2> QED BY <1>3, <2>1 DEF Ready, Tracked
<1>9. Paced(v)
  BY <1>3 DEF Ready, Paced
<1>10. Ready(v, d)
  BY <1>3, <1>7, <1>8, <1>9 DEF Ready
<1>12. /\ Ready(Sync(v), d) /\ Sync(v).placed = v.placed /\ Sync(v).pending = v.pending
  BY <1>10, SyncReady
<1>13. Sync(v).placed = t.placed /\ Sync(v).pending = left
  BY <1>3, <1>12
<1> QED BY <1>1, <1>2, <1>12, <1>13

(* The gate lets no order through that would overfill the window. *)
LEMMA PlacedPaced ==
  ASSUME NEW t \in Backtests, Paced(t), Cardinality(Recent(t)) <= RateLimit,
         NEW u, u.placed = Append(t.placed, t.now), u.now = t.now
  PROVE  Paced(u)
<1> DEFINE l == Len(t.placed)
           p == t.placed
           n == t.now
           q == u.placed
<1>1. /\ p \in Seq(Nat) /\ l \in Nat /\ n \in Nat /\ RateLimit \in Nat /\ RateWindow \in Nat
      /\ \A i \in 1..l : p[i] \in Nat
  BY LenProperties, ElementOfSeq, BacktestAssumption DEF Backtests, BacktestAssumption
<1>2. Len(q) = l + 1 /\ q[l + 1] = n /\ \A i \in 1..l : q[i] = p[i]
  BY <1>1, AppendProperties
<1>3. /\ \A i, j \in 1..l : i <= j => p[i] <= p[j]
      /\ \A i \in 1..l : p[i] <= n
      /\ \A i \in 1..(l - RateLimit - 1) : p[i + RateLimit + 1] - p[i] > RateWindow
  BY DEF Paced
<1>4. Recent(t) = {i \in 1..l : p[i] >= n - RateWindow}
  BY DEF Recent
<1> HIDE DEF l, p, n, q
<1>5. ASSUME l - RateLimit >= 1 PROVE n - p[l - RateLimit] > RateWindow
  <2> DEFINE m == l - RateLimit
  <2>1. m \in 1..l
    BY <1>1, <1>5
  <2>2. SUFFICES ASSUME ~(n - p[m] > RateWindow) PROVE FALSE
    OBVIOUS
  <2>3. p[m] >= n - RateWindow
    BY <1>1, <2>1, <2>2
  <2>4. ASSUME NEW i \in m..l PROVE i \in Recent(t)
    <3>1. i \in 1..l /\ m <= i
      BY <1>1, <2>1, <2>4
    <3>2. p[m] <= p[i]
      BY <1>3, <2>1, <3>1
    <3>3. p[i] >= n - RateWindow
      BY <1>1, <2>1, <2>3, <3>1, <3>2
    <3> QED BY <1>4, <3>1, <3>3
  <2> HIDE DEF m
  <2>5. IsFiniteSet(Recent(t))
    <3>1. IsFiniteSet(1..l)
      BY <1>1, FS_Interval
    <3>2. Recent(t) \subseteq 1..l
      BY <1>4
    <3> QED BY <3>1, <3>2, FS_Subset
  <2>6. m..l \subseteq Recent(t) /\ m \in Int /\ l \in Int /\ m <= l
    BY <1>1, <2>1, <2>4
  <2>7. Cardinality(m..l) = l - m + 1
    BY <2>6, FS_Interval
  <2>8. Cardinality(m..l) <= Cardinality(Recent(t))
    BY <2>5, <2>6, FS_Subset
  <2>9. Cardinality(Recent(t)) \in Nat
    BY <2>5, FS_CardinalityType
  <2>10. l - m + 1 = RateLimit + 1
    BY <1>1 DEF m
  <2> QED BY <1>1, <2>7, <2>8, <2>9, <2>10
<1>6. \A i, j \in 1..(l + 1) : i <= j => q[i] <= q[j]
  <2> SUFFICES ASSUME NEW i \in 1..(l + 1), NEW j \in 1..(l + 1), i <= j PROVE q[i] <= q[j]
    OBVIOUS
  <2>1. CASE j = l + 1 /\ i = l + 1
    BY <1>1, <1>2, <2>1
  <2>2. CASE j = l + 1 /\ i \in 1..l
    BY <1>1, <1>2, <1>3, <2>2
  <2>3. CASE j \in 1..l
    <3>1. i \in 1..l
      BY <1>1, <2>3
    <3> QED BY <1>2, <1>3, <2>3, <3>1
  <2> QED BY <1>1, <2>1, <2>2, <2>3
<1>7. \A i \in 1..(l + 1) : q[i] <= n
  <2> SUFFICES ASSUME NEW i \in 1..(l + 1) PROVE q[i] <= n
    OBVIOUS
  <2>1. CASE i = l + 1
    BY <1>1, <1>2, <2>1
  <2>2. CASE i \in 1..l
    <3>1. q[i] = p[i] /\ p[i] <= n
      BY <1>2, <1>3, <2>2
    <3> QED BY <3>1
  <2> QED BY <1>1, <2>1, <2>2
<1>8. \A i \in 1..(l + 1 - RateLimit - 1) : q[i + RateLimit + 1] - q[i] > RateWindow
  <2> SUFFICES ASSUME NEW i \in 1..(l + 1 - RateLimit - 1)
               PROVE  q[i + RateLimit + 1] - q[i] > RateWindow
    OBVIOUS
  <2>1. i \in 1..l /\ i <= l - RateLimit
    BY <1>1
  <2>2. CASE i = l - RateLimit
    <3>1. i + RateLimit + 1 = l + 1 /\ l - RateLimit >= 1
      BY <1>1, <2>1, <2>2
    <3> QED BY <1>2, <1>5, <2>1, <2>2, <3>1
  <2>3. CASE i # l - RateLimit
    <3>1. i \in 1..(l - RateLimit - 1) /\ i + RateLimit + 1 \in 1..l
      BY <1>1, <2>1, <2>3
    <3> QED BY <1>2, <1>3, <2>1, <3>1
  <2> QED BY <2>2, <2>3
<1>9. Paced(u)
  <2>1. Len(u.placed) = l + 1 /\ u.placed = q /\ u.now = n
    BY <1>2 DEF q, n
  <2>2. \A i, j \in 1..Len(u.placed) : i <= j => u.placed[i] <= u.placed[j]
    BY <1>6, <2>1
  <2>3. \A i \in 1..Len(u.placed) : u.placed[i] <= u.now
    BY <1>7, <2>1
  <2>4. \A i \in 1..(Len(u.placed) - RateLimit - 1) :
          u.placed[i + RateLimit + 1] - u.placed[i] > RateWindow
    BY <1>1, <1>8, <2>1
  <2> QED BY <2>2, <2>3, <2>4 DEF Paced
<1> QED BY <1>9

(* An order for a side that has none, if the gate lets it through: what it  *)
(* might fill is within the limits of the position and of the lots ordered. *)
LEMMA NewOrderSound ==
  ASSUME NEW t, NEW d, Ready(t, d), NEW side \in Sides, NEW price \in QuotePrices,
         \A o \in t.pending : o.side # side, ~PositionRejects(t, side),
         NEW o, o \in Resting, o.side = side, o.price = price, o.executed = 0,
         NEW u, u.pending = t.pending \cup {o}, u.inv = t.inv, u.simInv = t.simInv,
         u.simEntry = t.simEntry, u.ae = t.ae, u.realized = t.realized, u.cash = t.cash,
         u.placed = Append(t.placed, t.now)
  PROVE  Sound(u, d)
<1>1. /\ t.inv \in Int /\ MaxPosition \in Nat /\ Qty \in Nat \ {0}
      /\ t.inv \in -MaxPosition..MaxPosition
      /\ t.placed \in Seq(Nat) /\ Len(t.placed) \in Nat /\ t.now \in Nat
  BY LenProperties, BacktestAssumption
     DEF BacktestAssumption, Ready, Backtests, Sound, Exposed
<1>2. Len(u.placed) = Len(t.placed) + 1
  BY <1>1, AppendProperties
<1>3. /\ side = "BID" => t.inv + Qty <= MaxPosition
      /\ side = "ASK" => -MaxPosition <= t.inv - Qty
      /\ side \in {"BID", "ASK"}
  <2>1. ~(Sim!Abs(t.inv + Sim!Sign(side) * Qty) > MaxPosition)
    BY DEF PositionRejects, Abs
  <2>2. CASE side = "BID"
    <3>1. Sim!Sign(side) = 1
      BY <2>2 DEF Sim!Sign
    <3>2. Sim!Abs(t.inv + Qty) <= MaxPosition /\ t.inv + Qty \in Int
      BY <1>1, <2>1, <3>1, SimAbs
    <3> QED BY <1>1, <2>2, <3>2 DEF Sim!Abs
  <2>3. CASE side = "ASK"
    <3>1. Sim!Sign(side) = -1
      BY <2>3 DEF Sim!Sign
    <3>3. Sim!Sign(side) * Qty = -Qty
      BY <1>1, <3>1
    <3>2. Sim!Abs(t.inv - Qty) <= MaxPosition /\ t.inv - Qty \in Int
      <4>1. t.inv + Sim!Sign(side) * Qty = t.inv - Qty
        BY <1>1, <3>3
      <4>2. ~(Sim!Abs(t.inv - Qty) > MaxPosition)
        BY <2>1, <4>1
      <4> QED BY <1>1, <4>2, SimAbs
    <3> QED BY <1>1, <2>3, <3>2 DEF Sim!Abs
  <2> QED BY <2>2, <2>3, TheSides
<1>4. Single(u)
  BY DEF Ready, Sound, Single
<1>5. Exposed(u)
  <2>1. Qty - o.executed = Qty
    BY <1>1
  <2> QED BY <1>1, <1>3, <2>1 DEF Ready, Sound, Exposed
<1>6. SameBooks(u)
  BY DEF Ready, Sound, SameBooks
<1>7. ASSUME MaxPosition <= Qty PROVE OnePrice(u) /\ Balanced(u)
  <2>1. OnePrice(t) /\ Balanced(t)
    BY <1>7 DEF Ready, Sound
  <2>2. /\ o.side = "BID" => ~(t.inv > 0)
        /\ o.side = "ASK" => ~(t.inv < 0)
    BY <1>1, <1>3, <1>7
  <2> QED BY <2>1, <2>2 DEF OnePrice, Balanced
<1>8. ASSUME FineTicks(d) PROVE Settled(u, d)
  <2> SUFFICES ASSUME Qty * Len(u.placed) <= LotCap
               PROVE  \E k \in 0..LotCap, bids \in Nat, asks \in Nat :
                        /\ k + bids + asks <= Qty * Len(u.placed)
                        /\ \A x \in u.pending :
                             /\ x.side = "BID" => Qty - x.executed <= bids
                             /\ x.side = "ASK" => Qty - x.executed <= asks
                        /\ u.ae \in Multiples(d[k])
                        /\ Balanced(u)
    BY DEF Settled
  <2> DEFINE all == Qty * Len(t.placed)
  <2>0. LotCap \in Int
    <3>1. MaxSessions * MaxEvents \in Nat
      BY MarketFeedAssumption DEF MarketFeedAssumption
    <3>2. 2 * (MaxSessions * MaxEvents) \in Nat
      BY <3>1
    <3> QED BY <1>1, <3>2, IntProducts DEF LotCap
  <2>1. Qty * Len(u.placed) = all + Qty /\ all \in Int /\ all <= LotCap
    <3>1. \A x, y \in Nat : x * (y + 1) = x * y + x /\ x * y \in Nat
      OBVIOUS
    <3>2. Qty * Len(u.placed) = all + Qty /\ all \in Nat
      BY <1>1, <1>2, <3>1
    <3> HIDE DEF all
    <3> QED BY <1>1, <2>0, <3>2
  <2>2. PICK k \in 0..LotCap, bids \in Nat, asks \in Nat :
          /\ k + bids + asks <= all
          /\ \A x \in t.pending : /\ x.side = "BID" => Qty - x.executed <= bids
                                  /\ x.side = "ASK" => Qty - x.executed <= asks
          /\ t.ae \in Multiples(d[k])
          /\ Balanced(t)
    <3>1. Settled(t, d)
      BY <1>8 DEF Ready, Sound
    <3>2. Qty * Len(t.placed) <= LotCap
      BY <2>1
    <3> QED BY <3>1, <3>2 DEF Settled
  <2> HIDE DEF all
  <2>3. u.ae \in Multiples(d[k]) /\ Balanced(u)
    BY <2>2 DEF Balanced
  <2>4. Qty - o.executed = Qty
    BY <1>1
  <2>5. CASE side = "BID"
    <3>1. k + (bids + Qty) + asks <= Qty * Len(u.placed) /\ bids + Qty \in Nat
      BY <1>1, <2>0, <2>1, <2>2
    <3>2. \A x \in t.pending : x.side # "BID"
      BY <2>5
    <3>3. \A x \in u.pending : /\ x.side = "BID" => Qty - x.executed <= bids + Qty
                               /\ x.side = "ASK" => Qty - x.executed <= asks
      BY <1>1, <2>2, <2>4, <2>5, <3>2
    <3> QED BY <2>3, <3>1, <3>3
  <2>6. CASE side = "ASK"
    <3>1. k + bids + (asks + Qty) <= Qty * Len(u.placed) /\ asks + Qty \in Nat
      BY <1>1, <2>0, <2>1, <2>2
    <3>2. \A x \in t.pending : x.side # "ASK"
      BY <2>6
    <3>3. \A x \in u.pending : /\ x.side = "BID" => Qty - x.executed <= bids
                               /\ x.side = "ASK" => Qty - x.executed <= asks + Qty
      BY <1>1, <2>2, <2>4, <2>6, <3>2
    <3> QED BY <2>3, <3>1, <3>3
  <2> QED BY <1>3, <2>5, <2>6
<1> QED BY <1>4, <1>5, <1>6, <1>7, <1>8 DEF Sound

(* An order for a side that has none. *)
LEMMA PlaceNewReady ==
  ASSUME NEW t, NEW d, Ready(t, d), NEW side \in Sides, NEW price \in QuotePrices, NEW first,
         \A o \in t.pending : o.side # side
  PROVE  LET u == PlaceNew(t, side, price, first)
         IN Ready(u, d) /\ Len(u.placed) <= Len(t.placed) + 1
<1> DEFINE Taken(state) == [active |-> TRUE, cid |-> t.cid, state |-> state, price |-> price]
           o == [cid |-> t.cid, side |-> side, price |-> price, executed |-> 0]
           v == [[t EXCEPT !.cid = t.cid + 1, !.placed = Append(t.placed, t.now)]
                   EXCEPT !.pending = t.pending \cup {o}]
           w == Sim!ScanFills(v, first)
           x == [w EXCEPT !.slot[side] = Taken("ACKNOWLEDGED")]
           y == [t EXCEPT !.cid = t.cid + 1, !.slot[side] = Taken("REJECTED")]
           u == PlaceNew(t, side, price, first)
<1>1. /\ t \in Backtests /\ t.top \in Books /\ t.cid \in Nat /\ t.cid + 1 \in Nat
      /\ t.placed \in Seq(Nat) /\ Len(t.placed) \in Nat /\ t.now \in Nat /\ price \in Int
      /\ t.slot \in [Sides -> Slots] /\ side \in Sides /\ t.pending \in SUBSET Resting
  BY LenProperties, PriceType DEF Ready, Backtests
<1>2. Taken("ACKNOWLEDGED") \in Slots /\ Taken("REJECTED") \in Slots
  BY <1>1 DEF Slots
<1>3. CASE GateOpen(t, side)
  <2>1. u = Sync(x)
    BY <1>3 DEF PlaceNew, Sim!PlaceOrder
  <2>2. ~PositionRejects(t, side) /\ Cardinality(Recent(t)) <= RateLimit
    BY <1>3 DEF GateOpen
  <2>3. o \in Resting /\ o.side = side /\ o.price = price /\ o.executed = 0 /\ o.cid = t.cid
    BY <1>1, Quantity DEF Resting
  <2>4. Append(t.placed, t.now) \in Seq(Nat) /\ Len(Append(t.placed, t.now)) = Len(t.placed) + 1
    BY <1>1, AppendProperties
  <2> HIDE DEF o
  <2>5. /\ v \in Backtests /\ v.top = t.top /\ v.pending = t.pending \cup {o} /\ v.inv = t.inv
        /\ v.simInv = t.simInv /\ v.simEntry = t.simEntry /\ v.ae = t.ae
        /\ v.realized = t.realized /\ v.cash = t.cash
        /\ v.placed = Append(t.placed, t.now) /\ v.now = t.now /\ v.slot = t.slot
    BY <1>1, <2>3, <2>4 DEF Backtests
  <2> HIDE DEF v
  <2>6. Sound(v, d)
    BY <2>2, <2>3, <2>5, NewOrderSound
  <2>7. Paced(v)
    BY <1>1, <2>2, <2>5, PlacedPaced DEF Ready
  <2>8. Scanned(v, w, d)
    BY <1>1, <2>5, <2>6, ScanFillsScans
  <2> HIDE DEF w
  <2>9. /\ w \in Backtests /\ w.top = t.top /\ w.slot = t.slot /\ w.now = v.now
        /\ w.placed = v.placed /\ Sound(w, d) /\ Kept(v, w)
    BY <2>5, <2>8 DEF Scanned, Unscanned
  <2> DEFINE slots == [t.slot EXCEPT ![side] = Taken("ACKNOWLEDGED")]
  <2>10. /\ slots \in [Sides -> Slots] /\ slots[side] = Taken("ACKNOWLEDGED")
         /\ \A z \in Sides : z # side => slots[z] = t.slot[z]
    BY <1>1, <1>2
  <2>11. x = [w EXCEPT !.slot = slots]
    BY <2>9 DEF Backtests
  <2> HIDE DEF x, slots
  <2>12. /\ x \in Backtests /\ x.top = t.top /\ x.pending = w.pending /\ x.inv = w.inv
         /\ x.simInv = w.simInv /\ x.simEntry = w.simEntry /\ x.ae = w.ae
         /\ x.realized = w.realized /\ x.cash = w.cash /\ x.placed = v.placed
         /\ x.now = v.now /\ x.slot = slots
    BY <2>9, <2>10, <2>11 DEF Backtests
  <2>13. Sound(x, d)
    BY <2>9, <2>12 DEF Sound, Single, Exposed, SameBooks, OnePrice, Balanced, Settled
  <2>14. Tracked(x)
    <3> SUFFICES ASSUME NEW z \in x.pending
                 PROVE  Working(x.slot[z.side]) /\ x.slot[z.side].cid = z.cid
      BY DEF Tracked
    <3>1. PICK z0 \in v.pending : z.cid = z0.cid /\ z.side = z0.side
      BY <2>9, <2>12 DEF Kept
    <3>2. CASE z0 = o
      <4>1. slots[z.side] = Taken("ACKNOWLEDGED")
        BY <2>3, <2>10, <3>1, <3>2
      <4> QED BY <2>3, <2>12, <3>1, <3>2, <4>1 DEF Working
    <3>3. CASE z0 \in t.pending
      <4>1. z.side \in Sides /\ z.side # side
        BY <1>1, <3>1, <3>3 DEF Resting
      <4> QED BY <2>10, <2>12, <3>1, <3>3, <4>1 DEF Ready, Tracked
    <3> QED BY <2>5, <3>1, <3>2, <3>3
  <2>15. Paced(x)
    BY <2>7, <2>12 DEF Paced
  <2>16. Ready(x, d)
    BY <1>1, <2>12, <2>13, <2>14, <2>15 DEF Ready
  <2>17. Ready(Sync(x), d) /\ Sync(x).placed = x.placed
    BY <2>16, SyncReady
  <2>18. Len(Sync(x).placed) <= Len(t.placed) + 1
    BY <1>1, <2>4, <2>5, <2>12, <2>17
  <2> QED BY <2>1, <2>17, <2>18
<1>4. CASE ~GateOpen(t, side)
  <2>1. u = Sync(y)
    BY <1>4 DEF PlaceNew
  <2> DEFINE slots == [t.slot EXCEPT ![side] = Taken("REJECTED")]
  <2>2. slots \in [Sides -> Slots] /\ \A z \in Sides : z # side => slots[z] = t.slot[z]
    BY <1>1, <1>2
  <2>3. y = [t EXCEPT !.cid = t.cid + 1, !.slot = slots]
    BY <1>1 DEF Backtests
  <2> HIDE DEF y, slots
  <2>4. /\ y \in Backtests /\ y.top = t.top /\ y.pending = t.pending /\ y.inv = t.inv
        /\ y.simInv = t.simInv /\ y.simEntry = t.simEntry /\ y.ae = t.ae
        /\ y.realized = t.realized /\ y.cash = t.cash /\ y.placed = t.placed
        /\ y.now = t.now /\ y.slot = slots
    BY <1>1, <2>2, <2>3 DEF Backtests
  <2>5. Sound(y, d)
    BY <2>4 DEF Ready, Sound, Single, Exposed, SameBooks, OnePrice, Balanced, Settled
  <2>6. Tracked(y)
    <3> SUFFICES ASSUME NEW z \in t.pending
                 PROVE  Working(slots[z.side]) /\ slots[z.side].cid = z.cid
      BY <2>4 DEF Tracked
    <3>1. z.side \in Sides /\ z.side # side
      BY <1>1 DEF Resting
    <3> QED BY <2>2, <3>1 DEF Ready, Tracked
  <2>7. Paced(y)
    BY <2>4 DEF Ready, Paced
  <2>8. Ready(y, d)
    BY <1>1, <2>4, <2>5, <2>6, <2>7 DEF Ready
  <2>9. Ready(Sync(y), d) /\ Sync(y).placed = t.placed
    BY <2>4, <2>8, SyncReady
  <2>10. Len(Sync(y).placed) <= Len(t.placed) + 1
    BY <1>1, <2>9
  <2> QED BY <2>1, <2>9, <2>10
<1> QED BY <1>3, <1>4

LEMMA MaybeRequoteReady ==
  ASSUME NEW t, NEW d, Ready(t, d), NEW side \in Sides, NEW price \in QuotePrices, NEW first
  PROVE  LET u == MaybeRequote(t, side, price, first)
         IN Ready(u, d) /\ Len(u.placed) <= Len(t.placed) + 1
<1>0. Len(t.placed) \in Nat /\ Len(t.placed) <= Len(t.placed) + 1
  <2>1. Len(t.placed) \in Nat
    BY LenProperties DEF Ready, Backtests
  <2> QED BY <2>1
<1>1. CASE ~Working(t.slot[side])
  <2>1. \A o \in t.pending : o.side # side
    BY <1>1 DEF Ready, Tracked
  <2> QED BY <1>1, <2>1, PlaceNewReady DEF MaybeRequote
<1>2. CASE Working(t.slot[side]) /\ Abs(price - t.slot[side].price) <= MoveThreshold
  BY <1>0, <1>2 DEF MaybeRequote
<1>3. CASE Working(t.slot[side]) /\ ~(Abs(price - t.slot[side].price) <= MoveThreshold)
  <2> DEFINE v == CancelSlot(t, side)
  <2>1. Ready(v, d) /\ v.placed = t.placed /\ \A o \in v.pending : o.side # side
    BY CancelReady
  <2>2. MaybeRequote(t, side, price, first) = PlaceNew(v, side, price, first)
    BY <1>3 DEF MaybeRequote
  <2> HIDE DEF v
  <2> QED BY <2>1, <2>2, PlaceNewReady
<1> QED BY <1>1, <1>2, <1>3

LEMMA OnQuoteReady ==
  ASSUME NEW t, NEW d, Ready(t, d), NEW m \in Mids, NEW first
  PROVE  LET u == OnQuote(t, m, first)
         IN Ready(u, d) /\ Len(u.placed) <= Len(t.placed) + 2
<1> DEFINE v == MaybeRequote(t, "BID", m - QuoteWidth, first)
           u == MaybeRequote(v, "ASK", m + QuoteWidth, first)
<1>1. /\ m - QuoteWidth \in QuotePrices /\ m + QuoteWidth \in QuotePrices
      /\ "BID" \in Sides /\ "ASK" \in Sides
  BY TheSides DEF QuotePrices
<1>2. Ready(v, d) /\ Len(v.placed) <= Len(t.placed) + 1
  BY <1>1, MaybeRequoteReady
<1> HIDE DEF v
<1>3. Ready(u, d) /\ Len(u.placed) <= Len(v.placed) + 1
  BY <1>1, <1>2, MaybeRequoteReady
<1>4. OnQuote(t, m, first) = u
  BY DEF OnQuote, v
<1> HIDE DEF u
<1>5. Len(u.placed) \in Nat /\ Len(v.placed) \in Nat /\ Len(t.placed) \in Nat
  BY <1>2, <1>3, LenProperties DEF Ready, Backtests
<1> QED BY <1>2, <1>3, <1>4, <1>5

LEMMA OnSignalsReady ==
  ASSUME NEW t, NEW d, Ready(t, d), NEW m \in Mids, NEW regimeMoved, NEW first
  PROVE  LET u == OnSignals(t, m, regimeMoved, first)
         IN Ready(u, d) /\ Len(u.placed) <= Len(t.placed) + 2
<1> DEFINE v == [t EXCEPT !.quote = [valid |-> TRUE, mid |-> m, at |-> t.now]]
<1>1. /\ v \in Backtests /\ v.top = t.top /\ v.pending = t.pending /\ v.inv = t.inv
      /\ v.simInv = t.simInv /\ v.simEntry = t.simEntry /\ v.ae = t.ae
      /\ v.realized = t.realized /\ v.cash = t.cash /\ v.placed = t.placed
      /\ v.now = t.now /\ v.slot = t.slot
  <2>1. [valid |-> TRUE, mid |-> m, at |-> t.now] \in Quotes
    BY MarketFeedAssumption DEF MarketFeedAssumption, Quotes, Ready, Backtests
  <2> QED BY <2>1 DEF Ready, Backtests
<1>2. OnSignals(t, m, regimeMoved, first) \in {OnQuote(v, m, first), t}
  BY DEF OnSignals
<1> HIDE DEF v
<1>3. Sound(v, d)
  BY <1>1 DEF Ready, Sound, Single, Exposed, SameBooks, OnePrice, Balanced, Settled
<1>4. Tracked(v) /\ Paced(v)
  BY <1>1 DEF Ready, Tracked, Paced
<1>5. Ready(v, d)
  BY <1>1, <1>3, <1>4 DEF Ready
<1>6. Ready(OnQuote(v, m, first), d) /\ Len(OnQuote(v, m, first).placed) <= Len(t.placed) + 2
  BY <1>1, <1>5, OnQuoteReady
<1>7. Len(t.placed) <= Len(t.placed) + 2
  <2>1. Len(t.placed) \in Nat
    BY LenProperties DEF Ready, Backtests
  <2> QED BY <2>1
<1> QED BY <1>2, <1>6, <1>7

(* Between two records; before the first the simulator knows no book. *)
Steady(t, d) == t \in Backtests /\ Sound(t, d) /\ Tracked(t) /\ Paced(t)

LEMMA OnRecordReady ==
  ASSUME NEW t, NEW d, Steady(t, d), NEW b \in Books, NEW lag \in Nat, NEW regimeMoved, NEW first
  PROVE  LET u == OnRecord(t, b, lag, regimeMoved, first)
         IN Steady(u, d) /\ Len(u.placed) <= Len(t.placed) + 2
<1> DEFINE v == [[t EXCEPT !.now = t.now + lag] EXCEPT !.top = b]
           w == Sim!ScanFills(v, first)
           x == [w EXCEPT !.mid = b.mid]
           u == OnRecord(t, b, lag, regimeMoved, first)
<1>1. u = OnSignals(x, b.mid, regimeMoved, first)
  BY DEF OnRecord, Sim!UpdateMarket
<1>2. /\ t.now \in Nat /\ t.now + lag \in Nat /\ Len(t.placed) \in Nat
      /\ \A i \in 1..Len(t.placed) : t.placed[i] \in Nat
  <2>1. t.now \in Nat /\ t.placed \in Seq(Nat)
    BY DEF Steady, Backtests
  <2>2. t.now + lag \in Nat
    BY <2>1
  <2> QED BY <2>1, <2>2, LenProperties, ElementOfSeq, Zenon
<1>3. /\ v \in Backtests /\ v.top = b /\ v.pending = t.pending /\ v.inv = t.inv
      /\ v.simInv = t.simInv /\ v.simEntry = t.simEntry /\ v.ae = t.ae
      /\ v.realized = t.realized /\ v.cash = t.cash /\ v.placed = t.placed
      /\ v.now = t.now + lag /\ v.slot = t.slot
  BY <1>2 DEF Steady, Backtests
<1> HIDE DEF v
<1>4. Sound(v, d)
  BY <1>3 DEF Steady, Sound, Single, Exposed, SameBooks, OnePrice, Balanced, Settled
<1>5. Tracked(v)
  BY <1>3 DEF Steady, Tracked
<1>6. Paced(v)
  <2>1. \A i \in 1..Len(t.placed) : t.placed[i] <= t.now + lag
    BY <1>2 DEF Steady, Paced
  <2> QED BY <1>3, <2>1 DEF Steady, Paced
<1>7. Scanned(v, w, d)
  BY <1>3, <1>4, ScanFillsScans
<1> HIDE DEF w
<1>8. b.mid \in Mids /\ b.mid \in Int
  <2>1. b.mid \in Mids
    BY DEF Books
  <2>2. b.mid \in Nat
    BY <2>1, MarketFeedAssumption DEF MarketFeedAssumption
  <2>3. \A n \in Nat : n \in Int
    OBVIOUS
  <2> QED BY <2>1, <2>2, <2>3
<1>9. /\ x \in Backtests /\ x.top = b /\ x.pending = w.pending /\ x.inv = w.inv
      /\ x.simInv = w.simInv /\ x.simEntry = w.simEntry /\ x.ae = w.ae
      /\ x.realized = w.realized /\ x.cash = w.cash /\ x.placed = v.placed
      /\ x.now = v.now /\ x.slot = v.slot
  BY <1>3, <1>7, <1>8 DEF Scanned, Unscanned, Backtests
<1> HIDE DEF x
<1>10. Sound(x, d)
  <2>1. Sound(w, d) /\ v.placed = w.placed
    BY <1>7 DEF Scanned, Unscanned
  <2> QED BY <1>9, <2>1 DEF Sound, Single, Exposed, SameBooks, OnePrice, Balanced, Settled
<1>11. Tracked(x) /\ Paced(x)
  <2>1. Tracked(x)
    <3> SUFFICES ASSUME NEW z \in w.pending
                 PROVE  Working(v.slot[z.side]) /\ v.slot[z.side].cid = z.cid
      BY <1>9 DEF Tracked
    <3>1. PICK y \in v.pending : z.cid = y.cid /\ z.side = y.side
      BY <1>7 DEF Scanned, Kept
    <3> QED BY <1>5, <3>1 DEF Tracked
  <2> QED BY <1>6, <1>9, <2>1 DEF Paced
<1>12. Ready(x, d)
  BY <1>9, <1>10, <1>11 DEF Ready
<1>13. Ready(u, d) /\ Len(u.placed) <= Len(x.placed) + 2
  BY <1>1, <1>8, <1>12, OnSignalsReady
<1> HIDE DEF u
<1>14. Steady(u, d) /\ Len(u.placed) <= Len(t.placed) + 2
  BY <1>3, <1>9, <1>13 DEF Ready, Steady
<1> QED BY <1>14 DEF u

LEMMA StartSteady == \A d : Steady(Start, d)
<1>1. Start \in Backtests
  <2>1. EmptySlot \in Slots /\ NoQuote \in Quotes /\ <<>> \in Seq(Nat)
    BY EmptySeq DEF EmptySlot, Slots, NoQuote, Quotes
  <2>2. [side \in Sides |-> EmptySlot] \in [Sides -> Slots]
    BY <2>1
  <2> QED BY <2>1, <2>2 DEF Start, Backtests
<1>2. /\ Start.pending = {} /\ Start.inv = 0 /\ Start.simInv = 0 /\ Start.ae = 0
      /\ Start.realized = 0 /\ Start.cash = 0 /\ Len(Start.placed) = 0
  BY DEF Start
<1> HIDE DEF Start
<1>3. Single(Start) /\ SameBooks(Start) /\ OnePrice(Start) /\ Balanced(Start) /\ Tracked(Start)
  BY <1>2 DEF Single, SameBooks, OnePrice, Balanced, Tracked
<1>4. Exposed(Start)
  BY <1>2, BacktestAssumption DEF BacktestAssumption, Exposed
<1>5. ASSUME NEW d, FineTicks(d) PROVE Settled(Start, d)
  <2>1. LotCap \in Nat
    <3>1. MaxSessions * MaxEvents \in Nat
      BY MarketFeedAssumption DEF MarketFeedAssumption
    <3>2. 2 * (MaxSessions * MaxEvents) \in Nat /\ Qty \in Nat
      BY <3>1, Quantity
    <3>3. \A x, y \in Nat : x * y \in Nat
      OBVIOUS
    <3> QED BY <3>2, <3>3 DEF LotCap
  <2>2. 0 \in 0..LotCap /\ d[0] \in Nat
    BY <1>5, <2>1 DEF FineTicks
  <2>3. 0 \in Multiples(d[0])
    <3>1. 0 = 0 * d[0]
      BY <2>2
    <3> QED BY <3>1 DEF Multiples
  <2>4. 0 + 0 + 0 <= Qty * Len(Start.placed)
    BY <1>2, Quantity
  <2> QED BY <1>2, <1>3, <2>2, <2>3, <2>4 DEF Settled
<1>6. Paced(Start)
  BY <1>2, BacktestAssumption DEF BacktestAssumption, Paced
<1> QED BY <1>1, <1>3, <1>4, <1>5, <1>6 DEF Steady, Sound

(* How many records there are: no event makes two of them. *)
Counted ==
  /\ Len(file) + Len(tape) + Len(events) <= sent
  /\ \A i \in 1..Len(archives) : Len(archives[i].records) <= MaxEvents
  /\ Len(taped) <= MaxSessions

LEMMA FeedLengths ==
  ASSUME FeedTypeOK
  PROVE  /\ Len(file) \in Nat /\ Len(tape) \in Nat /\ Len(events) \in Nat
         /\ Len(archives) \in Nat /\ Len(taped) \in Nat /\ sent \in Nat
         /\ MaxEvents \in Nat /\ MaxSessions \in Nat /\ sent <= MaxEvents
BY LenProperties, MarketFeedAssumption DEF FeedTypeOK, MarketFeedAssumption

LEMMA EndsKeepsCounted ==
  ASSUME FeedTypeOK, Counted, NEW a \in Archives, Ends(a), Len(a.records) <= Len(file)
  PROVE  Counted'
<1>1. /\ Len(archives') = Len(archives) + 1
      /\ \A i \in 1..Len(archives) : archives'[i] = archives[i]
      /\ archives'[Len(archives) + 1] = a
  BY AppendProperties DEF FeedTypeOK, Ends
<1>2. Len(a.records) <= MaxEvents
  <2>1. Len(a.records) \in Nat
    BY LenProperties DEF Archives
  <2> QED BY <2>1, FeedLengths DEF Counted
<1>3. \A i \in 1..Len(archives') : i \in 1..Len(archives) \/ i = Len(archives) + 1
  BY <1>1, FeedLengths
<1>4. \A i \in 1..Len(archives') : Len(archives'[i].records) <= MaxEvents
  BY <1>1, <1>2, <1>3 DEF Counted
<1>5. Len(file') + Len(tape') + Len(events') <= sent'
  <2>1. Len(file') = 0 /\ Len(tape') = 0 /\ Len(events') = 0 /\ sent' = sent
    BY DEF Ends
  <2> QED BY <2>1, FeedLengths
<1>6. taped' = taped
  BY DEF Ends
<1> QED BY <1>4, <1>5, <1>6 DEF Counted

LEMMA CountedStep ==
  ASSUME FeedTypeOK, Recorded, Counted, [FeedNext]_feedVars
  PROVE  Counted'
<1>1. CASE \E e \in Events : Dispatch(e)
  <2>1. PICK e \in Events : Dispatch(e)
    BY <1>1
  <2>2. Len(events') <= Len(events) + 1
    BY <2>1, FeedLengths, AppendProperties DEF FeedTypeOK, Dispatch, Pushed
  <2>3. Len(events') \in Nat
    BY <2>1, FeedLengths, AppendProperties DEF FeedTypeOK, Dispatch, Pushed
  <2>4. sent' = sent + 1 /\ UNCHANGED <<tape, file, archives, taped>>
    BY <2>1 DEF Dispatch
  <2>5. Len(file) + Len(tape) + Len(events') <= sent + 1
    BY <2>2, <2>3, FeedLengths DEF Counted
  <2> QED BY <2>4, <2>5 DEF Counted
<1>2. CASE ProcessEvent
  <2>1. stage # "down" /\ archives' = archives /\ exits' = exits /\ sent' = sent /\ file' = file
    BY <1>2 DEF ProcessEvent
  <2>2. /\ Len(events') + 1 = Len(events) /\ Len(events') \in Nat /\ Head(events) \in Events
        /\ events' \in Seq(Events) /\ events \in Seq(Events)
    BY <1>2, FeedLengths, HeadTailProperties DEF FeedTypeOK, ProcessEvent
  <2>3. CASE HasData(book') /\ Len(tape) < TapeCap
    <3>1. book' \in Books
      <4>1. book' \in Books \cup {NoBook}
        BY <1>2, <2>2, BookAfterType DEF FeedTypeOK, ProcessEvent
      <4> QED BY <2>3, <4>1 DEF HasData
    <3>2. Len(tape') = Len(tape) + 1 /\ tape' \in Seq(Books) /\ tape \in Seq(Books)
      <4>1. tape \in Seq(Books) /\ tape' = Append(tape, book')
        BY <1>2, <2>3 DEF FeedTypeOK, ProcessEvent, Pushed
      <4> QED BY <3>1, <4>1, AppendProperties
    <3>3. Len(taped) \in 1..Len(taped)
      BY <2>1, FeedLengths DEF Recorded
    <3>8. taped[Len(taped)] \in Seq(Books)
      <4>1. taped \in Seq(Seq(Books))
        BY DEF FeedTypeOK
      <4> QED BY <3>3, <4>1, ElementOfSeq
    <3>4. Append(taped[Len(taped)], book') \in Seq(Books)
      BY <3>1, <3>8, AppendProperties
    <3>5. taped' = [taped EXCEPT ![Len(taped)] = Append(taped[Len(taped)], book')]
      BY <1>2, <2>3 DEF ProcessEvent
    <3>6. Len(taped') = Len(taped)
      <4>1. \E t \in Seq(Books) : taped' = [taped EXCEPT ![Len(taped)] = t]
        BY <3>4, <3>5
      <4> QED BY <2>1, <4>1, EndedTapesStay, Zenon
    <3>7. Len(file) + Len(tape') + Len(events') <= sent
      <4>1. Len(file) + Len(tape) + Len(events) <= sent
        BY DEF Counted
      <4> QED BY <2>2, <3>2, <4>1, FeedLengths
    <3>9. Len(taped') <= MaxSessions
      BY <3>6 DEF Counted
    <3> QED BY <2>1, <3>7, <3>9 DEF Counted
  <2>4. CASE ~(HasData(book') /\ Len(tape) < TapeCap)
    <3>1. tape' = tape /\ taped' = taped
      BY <1>2, <2>4 DEF ProcessEvent, Pushed
    <3>2. Len(file) + Len(tape) + Len(events') <= sent
      <4>1. Len(file) + Len(tape) + Len(events) <= sent
        BY DEF Counted
      <4> QED BY <2>2, <4>1, FeedLengths
    <3> QED BY <2>1, <3>1, <3>2 DEF Counted
  <2> QED BY <2>3, <2>4
<1>3. CASE Write
  <2>1. /\ Head(tape) \in Books /\ Len(tape') + 1 = Len(tape) /\ Len(tape') \in Nat
        /\ tape' \in Seq(Books) /\ tape \in Seq(Books)
    BY <1>3, FeedLengths, HeadTailProperties DEF FeedTypeOK, Write
  <2>2. Len(file') = Len(file) + 1 /\ file' \in Seq(Books) /\ file \in Seq(Books)
    <3>1. file \in Seq(Books) /\ file' = Append(file, Head(tape))
      BY <1>3 DEF FeedTypeOK, Write
    <3> QED BY <2>1, <3>1, AppendProperties
  <2>3. Len(file') + Len(tape') + Len(events) <= sent
    <3>1. Len(file) + Len(tape) + Len(events) <= sent
      BY DEF Counted
    <3> QED BY <2>1, <2>2, <3>1, FeedLengths
  <2> QED BY <1>3, <2>3 DEF Write, Counted
<1>4. CASE JoinRecorder
  <2>1. [records |-> file, torn |-> FALSE] \in Archives /\ Len(file) <= Len(file)
    BY FeedLengths DEF FeedTypeOK, Archives
  <2> QED BY <1>4, <2>1, EndsKeepsCounted DEF JoinRecorder
<1>5. CASE Crash
  <2>1. PICK n \in 0..Len(file), torn \in BOOLEAN :
          Ends([records |-> SubSeq(file, 1, n), torn |-> torn])
    BY <1>5 DEF Crash
  <2>2. Len(file) \in Nat /\ \A i \in 1..n : file[i] \in Books
    BY LenProperties, ElementOfSeq DEF FeedTypeOK
  <2>3. /\ SubSeq(file, 1, n) \in Seq(Books)
        /\ Len(SubSeq(file, 1, n)) = IF 1 <= n THEN n - 1 + 1 ELSE 0
    BY <2>2, SubSeqProperties
  <2>4. Len(SubSeq(file, 1, n)) <= Len(file)
    BY <2>2, <2>3
  <2>5. [records |-> SubSeq(file, 1, n), torn |-> torn] \in Archives
    BY <2>3 DEF Archives
  <2> QED BY <2>1, <2>4, <2>5, EndsKeepsCounted
<1>6. CASE Restart
  <2>1. /\ taped' = Append(taped, <<>>) /\ Len(taped) = Len(archives)
        /\ Len(archives) < MaxSessions
        /\ UNCHANGED <<sent, events, tape, file, archives>>
    BY <1>6 DEF Restart, Recorded
  <2>2. Len(taped') = Len(taped) + 1
    BY <2>1, EmptySeq, AppendProperties DEF FeedTypeOK
  <2>3. Len(taped') <= MaxSessions
    BY <2>1, <2>2, FeedLengths
  <2> QED BY <2>1, <2>3 DEF Counted
<1>7. CASE CloseStreams \/ JoinProcessor \/ UNCHANGED feedVars
  BY <1>7 DEF CloseStreams, JoinProcessor, feedVars, Counted
<1> QED
  BY <1>1, <1>2, <1>3, <1>4, <1>5, <1>6, <1>7 DEF FeedNext

LEMMA CountedInit == FeedInit => Counted
<1> SUFFICES ASSUME FeedInit PROVE Counted
  OBVIOUS
<1>1. /\ Len(file) = 0 /\ Len(tape) = 0 /\ Len(events) = 0 /\ sent = 0
      /\ Len(archives) = 0 /\ Len(taped) = 1
  BY DEF FeedInit
<1> QED
  BY <1>1, MarketFeedAssumption DEF MarketFeedAssumption, Counted

(* The replay between two records, and the orders it has placed by then: a  *)
(* record brings at most two.                                               *)
Backtested(d) ==
  /\ Steady(s, d)
  /\ at = <<0, 0>> => Len(s.placed) = 0
  /\ at # <<0, 0>> =>
       /\ Len(s.placed) <= 2 * ((at[1] - 1) * MaxEvents + (at[2] - 1))
       /\ at[1] <= Len(archives) + 1 /\ (at[1] = Len(archives) + 1 => at[2] = 1)

LEMMA RecordBacktested ==
  ASSUME FeedTypeOK, Replayed, NEW d, Backtested(d), NEW lag \in Nat, NEW regimeMoved, NEW first,
         ReplayRecord(lag, regimeMoved, first)
  PROVE  Backtested(d)'
<1> DEFINE b == archives[at[1]].records[at[2]]
<1>1. /\ at[1] \in 1..Len(archives) /\ at[2] <= Len(archives[at[1]].records)
      /\ s' = OnRecord(s, b, lag, regimeMoved, first) /\ at' = <<at[1], at[2] + 1>>
  BY DEF ReplayRecord, Whole
<1>2. /\ at # <<0, 0>> /\ at[1] \in Nat \ {0} /\ at[2] \in Nat \ {0}
  <2>1. at # <<0, 0>>
    BY <1>1
  <2> QED BY <2>1 DEF Replayed
<1>3. b \in Books
  <2>1. archives[at[1]].records \in Seq(Books) /\ Len(archives[at[1]].records) \in Nat
    BY <1>1, ArchiveType, LenProperties
  <2>2. at[2] \in 1..Len(archives[at[1]].records)
    BY <1>1, <1>2, <2>1
  <2> QED BY <2>1, <2>2, ElementOfSeq
<1> HIDE DEF b
<1>4. Steady(s, d) /\ Len(s.placed) <= 2 * ((at[1] - 1) * MaxEvents + (at[2] - 1))
  BY <1>2 DEF Backtested
<1>5. Steady(s', d) /\ Len(s'.placed) <= Len(s.placed) + 2
  BY <1>1, <1>3, <1>4, OnRecordReady
<1>6. at' # <<0, 0>> /\ at'[1] = at[1] /\ at'[2] = at[2] + 1
  BY <1>1, <1>2
<1>7. Len(s'.placed) <= 2 * ((at'[1] - 1) * MaxEvents + (at'[2] - 1))
  <2>1. PICK n \in Int : n = (at[1] - 1) * MaxEvents
    <3>1. at[1] - 1 \in Int /\ MaxEvents \in Int
      BY <1>2, FeedLengths
    <3> QED BY <3>1, IntProducts
  <2>2. Len(s.placed) \in Nat /\ Len(s'.placed) \in Nat
    BY <1>4, <1>5, LenProperties DEF Steady, Backtests
  <2>3. Len(s.placed) <= 2 * (n + (at[2] - 1))
    BY <1>4, <2>1
  <2>4. Len(s'.placed) <= 2 * (n + (at[2] + 1 - 1))
    BY <1>2, <1>5, <2>2, <2>3
  <2>5. at'[1] - 1 = at[1] - 1 /\ at'[2] - 1 = at[2] + 1 - 1
    BY <1>2, <1>6
  <2> QED BY <2>1, <2>4, <2>5
<1>8. /\ archives' = archives /\ at[1] <= Len(archives) + 1 /\ at[1] # Len(archives) + 1
  BY <1>1, <1>2, FeedLengths DEF ReplayRecord, feedVars
<1> QED BY <1>5, <1>6, <1>7, <1>8 DEF Backtested

LEMMA ArchiveBacktested ==
  ASSUME FeedTypeOK, Counted, Replayed, NEW d, Backtested(d), NextArchive
  PROVE  Backtested(d)'
<1>1. /\ at[1] \in 1..Len(archives) /\ s' = s /\ at' = <<at[1] + 1, 1>>
  BY DEF NextArchive
<1>2. /\ at # <<0, 0>> /\ at[1] \in Nat \ {0} /\ at[2] \in Nat \ {0}
  <2>1. at # <<0, 0>>
    BY <1>1
  <2> QED BY <2>1 DEF Replayed
<1>3. at[2] - 1 <= MaxEvents
  <2>1. Len(replayed[at[1]]) = at[2] - 1
        /\ Len(replayed[at[1]]) <= Len(archives[at[1]].records)
    BY <1>1, <1>2 DEF Replayed, Follows
  <2>2. Len(archives[at[1]].records) <= MaxEvents /\ Len(archives[at[1]].records) \in Nat
    BY <1>1, ArchiveType, LenProperties DEF Counted
  <2>3. MaxEvents \in Nat
    BY FeedLengths
  <2>4. at[2] - 1 <= Len(archives[at[1]].records)
    BY <2>1
  <2> QED BY <1>2, <2>2, <2>3, <2>4
<1>4. Steady(s, d) /\ Len(s.placed) <= 2 * ((at[1] - 1) * MaxEvents + (at[2] - 1))
  BY <1>2 DEF Backtested
<1>5. at' # <<0, 0>> /\ at'[1] = at[1] + 1 /\ at'[2] = 1
  BY <1>1, <1>2
<1>6. Len(s.placed) <= 2 * ((at'[1] - 1) * MaxEvents + (at'[2] - 1))
  <2>1. PICK n \in Int : n = (at[1] - 1) * MaxEvents
    <3>1. at[1] - 1 \in Int /\ MaxEvents \in Int
      BY <1>2, FeedLengths
    <3> QED BY <3>1, IntProducts
  <2>2. (at'[1] - 1) * MaxEvents = n + MaxEvents
    <3>1. \A x, y \in Int : x * y = (x - 1) * y + y
      OBVIOUS
    <3>2. at[1] \in Int /\ MaxEvents \in Int /\ at'[1] - 1 = at[1]
      BY <1>2, <1>5, FeedLengths
    <3>3. at[1] * MaxEvents = n + MaxEvents
      BY <2>1, <3>1, <3>2, Zenon
    <3> QED BY <3>2, <3>3
  <2>3. Len(s.placed) \in Nat /\ Len(s.placed) <= 2 * (n + (at[2] - 1))
    BY <1>4, <2>1, LenProperties DEF Steady, Backtests
  <2>4. Len(s.placed) <= 2 * ((n + MaxEvents) + (1 - 1))
    <3>1. n \in Int /\ MaxEvents \in Nat /\ at[2] \in Nat
      BY <1>2, <2>1, FeedLengths
    <3> QED BY <1>3, <2>3, <3>1
  <2> QED BY <1>5, <2>2, <2>4
<1>7. archives' = archives /\ at[1] + 1 <= Len(archives) + 1
  BY <1>1, <1>2, FeedLengths DEF NextArchive, feedVars
<1> QED BY <1>1, <1>4, <1>5, <1>6, <1>7 DEF Backtested

LEMMA BacktestedStep ==
  ASSUME Archived, Counted, Replayed, NEW d, Backtested(d), [BacktestNext]_vars
  PROVE  Backtested(d)'
<1>0. FeedTypeOK
  BY DEF Archived
<1>1. CASE at = <<0, 0>> /\ UNCHANGED replayVars
  BY <1>1 DEF replayVars, Backtested
<1>2. CASE BeginReplay
  <2>1. /\ at = <<0, 0>> /\ s' = s /\ at' # <<0, 0>> /\ at'[1] = 1 /\ at'[2] = 1
    BY <1>2 DEF BeginReplay
  <2>2. Len(s.placed) = 0
    BY <2>1 DEF Backtested
  <2>3. 2 * ((1 - 1) * MaxEvents + (1 - 1)) = 0
    BY <1>0, FeedLengths
  <2>4. archives' = archives /\ Len(archives) \in Nat
    BY <1>0, <1>2, FeedLengths DEF BeginReplay, feedVars
  <2>5. 1 <= Len(archives) + 1
    BY <2>4
  <2> QED BY <2>1, <2>2, <2>3, <2>4, <2>5 DEF Backtested
<1>3. CASE \E lag \in 0..MaxLag, regimeMoved \in BOOLEAN, first \in Sides :
             ReplayRecord(lag, regimeMoved, first)
  <2>1. PICK lag \in 0..MaxLag, regimeMoved \in BOOLEAN, first \in Sides :
          ReplayRecord(lag, regimeMoved, first)
    BY <1>3
  <2>2. lag \in Nat
    BY BacktestAssumption DEF BacktestAssumption
  <2> QED BY <1>0, <2>1, <2>2, RecordBacktested
<1>4. CASE NextArchive
  BY <1>0, <1>4, ArchiveBacktested
<1>5. CASE UNCHANGED vars
  BY <1>5 DEF vars, feedVars, replayVars, Backtested
<1> QED
  BY <1>1, <1>2, <1>3, <1>4, <1>5 DEF BacktestNext

Backtesting(d) == Archived /\ Counted /\ Replayed /\ Backtested(d)

LEMMA BacktestingInit == \A d : BacktestInit => Backtesting(d)
<1> SUFFICES ASSUME NEW d, BacktestInit PROVE Backtesting(d)
  OBVIOUS
<1>1. Archived /\ Counted
  BY FeedGoesOn, ArchivedInit, CountedInit DEF BacktestInit
<1>2. Replayed
  BY DEF BacktestInit, Replayed
<1>3. Backtested(d)
  <2>1. s = Start /\ at = <<0, 0>> /\ Len(Start.placed) = 0
    BY DEF BacktestInit, Start
  <2> QED BY <2>1, StartSteady DEF Backtested
<1> QED BY <1>1, <1>2, <1>3 DEF Backtesting

LEMMA BacktestingStep == \A d : Backtesting(d) /\ [BacktestNext]_vars => Backtesting(d)'
<1> SUFFICES ASSUME NEW d, Backtesting(d), [BacktestNext]_vars PROVE Backtesting(d)'
  OBVIOUS
<1>1. Archived' /\ Replayed' /\ Backtested(d)'
  BY FeedGoesOn, ArchivedStep, ReplayedStep, BacktestedStep DEF Backtesting
<1>2. Counted'
  BY FeedGoesOn, CountedStep DEF Backtesting, Archived
<1> QED BY <1>1, <1>2 DEF Backtesting

(* The lots of all the orders a replay places. *)
LEMMA OrdersWithinCap ==
  ASSUME Archived, Counted, Replayed, NEW d, Backtested(d)
  PROVE  Qty * Len(s.placed) <= LotCap
<1>0. FeedTypeOK
  BY DEF Archived
<1>1. Len(s.placed) \in Nat
  BY LenProperties DEF Backtested, Steady, Backtests
<1> DEFINE cap == MaxSessions * MaxEvents
<1>2. cap \in Nat /\ MaxSessions \in Nat \ {0} /\ MaxEvents \in Nat
  <2>1. MaxSessions \in Nat \ {0} /\ MaxEvents \in Nat
    BY MarketFeedAssumption DEF MarketFeedAssumption
  <2> QED BY <2>1
<1>3. Len(s.placed) <= 2 * cap
  <2>1. CASE at = <<0, 0>>
    <3> HIDE DEF cap
    <3> QED BY <1>2, <2>1 DEF Backtested
  <2>2. CASE at # <<0, 0>>
    <3>1. PICK a \in Nat \ {0}, n \in Nat \ {0} : a = at[1] /\ n = at[2]
      BY <2>2 DEF Replayed
    <3>2. PICK l \in Nat : l = Len(archives) /\ l <= MaxSessions
      <4>1. Len(taped) \in {Len(archives), Len(archives) + 1}
        BY DEF Archived, Recorded
      <4>2. Len(taped) <= MaxSessions
        BY DEF Counted
      <4>3. /\ Len(taped) \in Nat /\ Len(archives) \in Nat
            /\ taped \in Seq(Seq(Books)) /\ archives \in Seq(Archives)
        BY <1>0, FeedLengths DEF FeedTypeOK
      <4> QED BY <1>2, <4>1, <4>2, <4>3
    <3>3. /\ Len(s.placed) <= 2 * ((a - 1) * MaxEvents + (n - 1))
          /\ a <= l + 1 /\ (a = l + 1 => n = 1)
      BY <2>2, <3>1, <3>2 DEF Backtested
    <3>4. a <= l => n - 1 <= MaxEvents
      <4> SUFFICES ASSUME a <= l PROVE n - 1 <= MaxEvents
        OBVIOUS
      <4>1. a \in 1..Len(archives)
        BY <3>1, <3>2
      <4>2. n - 1 <= Len(archives[a].records)
        BY <2>2, <3>1, <4>1 DEF Replayed, Follows
      <4>3. Len(archives[a].records) <= MaxEvents /\ Len(archives[a].records) \in Nat
        BY <1>0, <4>1, ArchiveType, LenProperties DEF Counted
      <4> QED BY <1>2, <3>1, <4>2, <4>3
    <3>5. (a - 1) * MaxEvents + (n - 1) <= l * MaxEvents
      <4>1. CASE a = l + 1
        BY <1>2, <3>2, <3>3, <4>1
      <4>2. CASE a <= l
        <5>1. (a - 1) * MaxEvents <= (l - 1) * MaxEvents
          <6>1. \A x, y, z \in Nat : x <= y => x * z <= y * z
            OBVIOUS
          <6>2. a - 1 \in Nat /\ l - 1 \in Nat /\ a - 1 <= l - 1
            BY <3>1, <3>2, <4>2
          <6> QED BY <1>2, <6>1, <6>2
        <5>2. (l - 1) * MaxEvents + MaxEvents = l * MaxEvents
          BY <1>2, <3>2
        <5>3. (a - 1) * MaxEvents \in Int /\ (l - 1) * MaxEvents \in Int
          BY <1>2, <3>1, <3>2, IntProducts
        <5> QED BY <1>2, <3>1, <3>4, <4>2, <5>1, <5>2, <5>3
      <4> QED BY <3>1, <3>2, <3>3, <4>1, <4>2
    <3>6. l * MaxEvents <= cap
      <4>1. \A x, y, z \in Nat : x <= y => x * z <= y * z
        OBVIOUS
      <4> QED BY <1>2, <3>2, <4>1
    <3>7. (a - 1) * MaxEvents + (n - 1) \in Int /\ l * MaxEvents \in Int
      BY <1>2, <3>1, <3>2, IntProducts
    <3> HIDE DEF cap
    <3> QED BY <1>1, <1>2, <3>3, <3>5, <3>6, <3>7
  <2> QED BY <2>1, <2>2
<1>4. \A x, y, z \in Nat : y <= z => x * y <= x * z
  OBVIOUS
<1>5. Qty \in Nat /\ 2 * cap \in Nat
  <2> HIDE DEF cap
  <2> QED BY <1>2, Quantity
<1> QED BY <1>1, <1>3, <1>4, <1>5 DEF LotCap

(* The simulator never rests an order the OrderManager has lost track of:   *)
(* every resting order is the one its side's slot is working, for every     *)
(* market, every order of the fills and all of the thresholds.              *)
THEOREM OrdersStayTracked == BacktestSpec => []RestingIsTracked
<1> DEFINE d == 0
<1>1. Backtesting(d) => RestingIsTracked
  BY DEF Backtesting, Backtested, Steady, Tracked, RestingIsTracked
<1>2. BacktestInit => Backtesting(d)
  BY BacktestingInit
<1>3. Backtesting(d) /\ [BacktestNext]_vars => Backtesting(d)'
  BY BacktestingStep
<1> QED
  BY <1>1, <1>2, <1>3, PTL DEF BacktestSpec

(* The gate keeps the position within its limit, though it looks at each    *)
(* order alone and at the position of that moment: what the one resting     *)
(* order of the side may still fill has been counted.                       *)
THEOREM PositionStaysBounded == BacktestSpec => []PositionBounded
<1> DEFINE d == 0
<1>1. Backtesting(d) => PositionBounded
  <2> SUFFICES ASSUME Backtesting(d) PROVE PositionBounded
    OBVIOUS
  <2>1. s.inv \in -MaxPosition..MaxPosition /\ MaxPosition \in Nat
    BY BacktestAssumption DEF BacktestAssumption, Backtesting, Backtested, Steady, Sound, Exposed
  <2>2. s.inv \in Int /\ -MaxPosition <= s.inv /\ s.inv <= MaxPosition
    BY <2>1
  <2> QED BY <2>1, <2>2 DEF PositionBounded, Abs, Sim!Abs
<1>2. BacktestInit => Backtesting(d)
  BY BacktestingInit
<1>3. Backtesting(d) /\ [BacktestNext]_vars => Backtesting(d)'
  BY BacktestingStep
<1> QED
  BY <1>1, <1>2, <1>3, PTL DEF BacktestSpec

(* Of RateLimit + 2 submissions in a row, the last comes more than the      *)
(* window after the first.                                                  *)
THEOREM RateStaysBounded == BacktestSpec => []RateBounded
<1> DEFINE d == 0
<1>1. Backtesting(d) => RateBounded
  BY DEF Backtesting, Backtested, Steady, Paced, RateBounded
<1>2. BacktestInit => Backtesting(d)
  BY BacktestingInit
<1>3. Backtesting(d) /\ [BacktestNext]_vars => Backtesting(d)'
  BY BacktestingStep
<1> QED
  BY <1>1, <1>2, <1>3, PTL DEF BacktestSpec

(* The simulator and the PositionTracker come to the same position at the   *)
(* same entry price by different arithmetic, and the realized P&L is the    *)
(* money received and what the position cost: if the ticks are fine enough  *)
(* for every mean to be whole, or if a position is never larger than an     *)
(* order and no mean of two prices is taken.                                *)
THEOREM BothBooksAgree ==
  ASSUME NEW d, FineTicks(d) \/ MaxPosition <= Qty
  PROVE  BacktestSpec => []TwoBooksAgree
<1>1. Backtesting(d) => TwoBooksAgree
  <2> SUFFICES ASSUME Backtesting(d) PROVE TwoBooksAgree
    OBVIOUS
  <2>1. Steady(s, d) /\ Sound(s, d) /\ s \in Backtests
    BY DEF Backtesting, Backtested, Steady
  <2>2. s.simInv = s.inv /\ (s.inv # 0 => s.simEntry = s.ae)
    BY <2>1 DEF Sound, SameBooks
  <2>3. Balanced(s)
    <3>1. CASE MaxPosition <= Qty
      BY <2>1, <3>1 DEF Sound
    <3>2. CASE FineTicks(d)
      <4>1. Qty * Len(s.placed) <= LotCap
        BY <2>1, OrdersWithinCap DEF Backtesting
      <4> QED BY <2>1, <3>2, <4>1 DEF Sound, Settled
    <3> QED BY <3>1, <3>2
  <2>4. s.realized = s.cash + s.inv * s.ae
    <3>1. s.inv * s.ae = s.realized - s.cash
      BY <2>3 DEF Balanced
    <3>2. s.realized \in Int /\ s.cash \in Int
      BY <2>1 DEF Backtests
    <3> QED BY <3>1, <3>2
  <2> QED BY <2>2, <2>4 DEF TwoBooksAgree
<1>2. BacktestInit => Backtesting(d)
  BY BacktestingInit
<1>3. Backtesting(d) /\ [BacktestNext]_vars => Backtesting(d)'
  BY BacktestingStep
<1> QED
  BY <1>1, <1>2, <1>3, PTL DEF BacktestSpec

=============================================================================
