------------------------- MODULE WsConnectionProofs -------------------------
(***************************************************************************)
(* Proofs about the WebSocket connections, for every number of attempts,   *)
(* lost connections and queued frames.  All but StreamIsNeverStranded are  *)
(* for an exchange that refuses no login (with refusals two reconnects     *)
(* overlap: see RefusalsExhaust).                                          *)
(***************************************************************************)
EXTENDS WsConnection, FiniteSetTheorems, SequenceTheorems, TLAPS

LoginsAccepted == "login" \notin Refusable

-----------------------------------------------------------------------------
(* The inductive invariant *)

Chain == {"connect", "ssl", "handshake"}
Lifelines == Chain \cup {"read"}
Lifeline == pending \ {"write"}

(* One thing keeps the connection going: a name resolution, an operation of *)
(* the connect chain, the read or the backoff.  Only a write is ever        *)
(* aborted, because a reconnect waits for the backoff alone.                *)
OneLifeline ==
  /\ aborted \subseteq {"write"}
  /\ resolving \in {0, 1}
  /\ resolving = 1 => Lifeline = {} /\ "backoff" \notin armed \cup due
  /\ \A op \in Lifeline :
       /\ resolving = 0 /\ "backoff" \notin armed \cup due
       /\ Lifeline = {op}
  /\ ~("backoff" \in armed /\ "backoff" \in due)

(* A frame is being written exactly when the queue is not empty, on the     *)
(* socket or, failing, on none.                                             *)
OneWrite ==
  /\ writing <=> queue # <<>>
  /\ writing <=> "write" \in pending \cup aborted
  /\ ~("write" \in pending /\ "write" \in aborted)
  /\ ~overlap

(* A socket that is not yet connected carries no write; one that is has no  *)
(* handler of another one left over.                                        *)
SocketIsFresh ==
  /\ resolving = 1 \/ pending \cap Chain # {} => session = "none"
  /\ session = "none" => "write" \notin pending
  /\ session \in Open => aborted = {}

(* The login goes out first and once. *)
LoginFirst ==
  /\ FirstThingsFirst
  /\ session \in Open => \A i \in 1..Len(queue) : queue[i] = "login" => session = "open" /\ i = 1
  /\ session \in {"open", "login sent"} => Len(queue) <= MaxQueue

AttemptsLeft == ~fatal => attempt <= MaxAttempts

Healthy ==
  /\ TypeOK /\ AttemptsLeft
  /\ OneLifeline /\ OneWrite /\ SocketIsFresh
  /\ LoginFirst /\ KeepaliveRuns

(* The type invariant in three parts. *)
Numbers ==
  /\ resolving \in 0..MaxResolving
  /\ attempt \in 0..(MaxAttempts + 1)
  /\ drops \in 0..MaxDrops /\ refused \in 0..(MaxAttempts + 1)
Collections ==
  /\ pending \subseteq Operations /\ aborted \subseteq Operations
  /\ armed \subseteq Timers /\ due \subseteq Timers
  /\ queue \in Seq(Frames) /\ Len(queue) <= MaxQueue + 1
Flags ==
  /\ client \in Clients /\ session \in Sessions /\ stopping \in {"no", "called", "done"}
  /\ writing \in BOOLEAN /\ loggedIn \in BOOLEAN
  /\ fatal \in BOOLEAN /\ overlap \in BOOLEAN

LEMMA TypeParts == TypeOK <=> Numbers /\ Collections /\ Flags
  BY ZenonT(30) DEF TypeOK, Numbers, Collections, Flags

LEMMA InitHealthy ==
  ASSUME Init
  PROVE  Healthy
<1> USE WsConnectionAssumption DEF WsConnectionAssumption, Init
<1>1. TypeOK
  <2>1. Collections
    BY EmptySeq DEF Collections
  <2>2. Numbers
    BY DEF Numbers, MaxResolving
  <2>3. Flags
    BY Zenon DEF Flags, Sessions
  <2> QED
    BY <2>1, <2>2, <2>3, TypeParts
<1>2. AttemptsLeft /\ OneLifeline /\ OneWrite /\ SocketIsFresh /\ LoginFirst /\ KeepaliveRuns
  BY DEF AttemptsLeft, OneLifeline, OneWrite, SocketIsFresh, LoginFirst, KeepaliveRuns,
         FirstThingsFirst, Lifeline, Chain, Open
<1> QED
  BY <1>1, <1>2 DEF Healthy

-----------------------------------------------------------------------------
(* The write queue *)

LEMMA SendFacts ==
  ASSUME NEW frame \in Frames, NEW ops \in SUBSET Lifelines, NEW left \in SUBSET Operations,
         NEW sess, queue \in Seq(Frames), Send(frame, ops, left, sess)
  PROVE  /\ queue' = Append(queue, frame) /\ queue' \in Seq(Frames)
         /\ Len(queue') = Len(queue) + 1 /\ queue' # <<>> /\ writing' = TRUE
         /\ \A i \in 1..Len(queue) : queue'[i] = queue[i]
         /\ queue'[Len(queue) + 1] = frame
         /\ pending' \cap Lifelines = (left \cap Lifelines) \cup ops
         /\ pending' \subseteq Operations
         /\ "write" \in pending' <=> "write" \in left \/ (~writing /\ sess \in Open)
         /\ aborted' = aborted \cup (IF ~writing /\ sess \notin Open THEN {"write"} ELSE {})
         /\ overlap' = (overlap \/ ops \cap left # {} \/ (~writing /\ sess \in Open /\ "write" \in left))
<1>1. /\ queue' = Append(queue, frame) /\ writing' = TRUE
      /\ Start(ops \cup Writes(~writing, sess), left)
      /\ aborted' = aborted \cup Bounces(~writing, sess)
  BY DEF Send, WriteNow
<1>2. /\ queue' \in Seq(Frames) /\ Len(queue') = Len(queue) + 1
      /\ \A i \in 1..Len(queue) : queue'[i] = queue[i]
      /\ queue'[Len(queue) + 1] = frame
  BY <1>1, AppendProperties
<1>3. queue' # <<>>
  BY <1>2, LenProperties
<1> QED
  BY <1>1, <1>2, <1>3 DEF Start, Writes, Bounces, Lifelines, Chain, Operations

LEMMA SendLifelines ==
  ASSUME NEW frame, NEW ops, NEW left, NEW sess, Send(frame, ops, left, sess)
  PROVE  /\ pending' \ {"write"} = (left \cup ops) \ {"write"}
         /\ aborted' \subseteq aborted \cup {"write"}
BY DEF Send, Start, Writes, Bounces

LEMMA WriteNextLifelines ==
  ASSUME NEW left, NEW unrun, WriteNext(left, unrun)
  PROVE  /\ pending' \ {"write"} = left \ {"write"}
         /\ aborted' \subseteq unrun \cup {"write"}
BY DEF WriteNext, Start, Writes, Bounces

LEMMA WriteNextFacts ==
  ASSUME NEW left \in SUBSET Operations, NEW unrun, queue \in Seq(Frames), queue # <<>>,
         WriteNext(left, unrun)
  PROVE  /\ queue' = Tail(queue) /\ queue' \in Seq(Frames) /\ Len(queue') = Len(queue) - 1
         /\ \A i \in 1..Len(queue') : queue'[i] = queue[i + 1]
         /\ writing' = (queue' # <<>>)
         /\ pending' \cap Lifelines = left \cap Lifelines
         /\ pending' \subseteq Operations
         /\ "write" \in pending' <=> "write" \in left \/ (writing' /\ session \in Open)
         /\ aborted' = unrun \cup (IF writing' /\ session \notin Open THEN {"write"} ELSE {})
         /\ overlap' = (overlap \/ (writing' /\ session \in Open /\ "write" \in left))
<1>1. /\ queue' = Tail(queue) /\ writing' = (queue' # <<>>)
      /\ Start(Writes(writing', session), left)
      /\ aborted' = unrun \cup Bounces(writing', session)
  BY DEF WriteNext
<1>2. /\ queue' \in Seq(Frames) /\ Len(queue') = Len(queue) - 1
      /\ \A i \in 1..Len(queue') : queue'[i] = queue[i + 1]
  BY <1>1, HeadTailProperties
<1> QED
  BY <1>1, <1>2 DEF Start, Writes, Bounces, Lifelines, Chain, Operations

(* The number of attempts grows by one, and too many of them are fatal. *)
LEMMA ReconnectFacts ==
  ASSUME TypeOK, AttemptsLeft, ~fatal, ScheduleReconnect
  PROVE  /\ attempt' \in 0..(MaxAttempts + 1) /\ fatal' \in BOOLEAN /\ AttemptsLeft'
         /\ armed' \subseteq Timers
         /\ armed' \subseteq armed \cup {"backoff"}
<1>0. Numbers /\ Collections /\ Flags /\ attempt <= MaxAttempts
  BY TypeParts, Zenon DEF AttemptsLeft
<1>1. MaxAttempts \in Nat /\ attempt \in Nat /\ attempt <= MaxAttempts /\ armed \subseteq Timers
  BY <1>0, WsConnectionAssumption DEF WsConnectionAssumption, Numbers, Collections
<1>2. CASE Stopping
  <2>1. armed' = armed /\ attempt' = attempt /\ fatal' = fatal
    BY <1>2 DEF ScheduleReconnect
  <2>2. attempt' \in 0..(MaxAttempts + 1) /\ armed' \subseteq Timers
    BY <1>1, <2>1
  <2>3. fatal' \in BOOLEAN /\ AttemptsLeft'
    BY <1>0, <2>1, Zenon DEF Flags, AttemptsLeft
  <2> QED
    BY <2>1, <2>2, <2>3
<1>3. CASE ~Stopping
  <2>1. /\ attempt' = attempt + 1
        /\ fatal' = (attempt' > MaxAttempts)
        /\ armed' \subseteq armed \cup {"backoff"}
    BY <1>3 DEF ScheduleReconnect, Counted, Exhausted
  <2>2. attempt' \in 0..(MaxAttempts + 1)
    BY <1>1, <2>1
  <2>3. fatal' \in BOOLEAN
    BY <2>1
  <2>4. AttemptsLeft'
    <3>1. ~(attempt' > MaxAttempts) => attempt' <= MaxAttempts
      BY <1>1, <2>1
    <3> QED BY <2>1, <3>1, Zenon DEF AttemptsLeft
  <2> QED
    BY <1>1, <2>1, <2>2, <2>3, <2>4 DEF Timers
<1> QED
  BY <1>2, <1>3

-----------------------------------------------------------------------------
(* What each action leaves of its connection's lifeline and write *)

(* Handlers of data, acknowledgements and refused subscriptions. *)
LEMMA IgnoredFacts ==
  ASSUME Collections, "read" \in pending, Ignored
  PROVE  /\ pending' \subseteq pending
         /\ "write" \in pending' <=> "write" \in pending
         /\ ~overlap => ~overlap'
         /\ queue' = queue /\ writing' = writing /\ aborted' = aborted
<1>1. /\ pending' = (pending \ {"read"}) \cup ReadAgain
      /\ overlap' = (overlap \/ ReadAgain \cap (pending \ {"read"}) # {})
      /\ queue' = queue /\ writing' = writing /\ aborted' = aborted
  BY DEF Ignored, Start, writeVars
<1>2. ReadAgain \subseteq {"read"}
  BY DEF ReadAgain
<1>3. ReadAgain \cap (pending \ {"read"}) = {}
  BY <1>2
<1>4. ~overlap => ~overlap'
  BY <1>1, <1>3, Zenon
<1> QED
  BY <1>1, <1>2, <1>4

LEMMA RefusedFacts ==
  ASSUME LoginsAccepted, ReadRefused
  PROVE  /\ Completes("read") /\ Ignored
         /\ session = "subscribe sent" /\ session' = "refused"
         /\ fatal' = (client = "public")
         /\ UNCHANGED <<armed, attempt, refused, client, resolving, due, loggedIn, stopping, drops>>
<1>1. PICK asked \in Refusable :
        /\ session = Asked[asked]
        /\ asked # "login" => fatal' = (client = "public") /\ UNCHANGED <<armed, attempt, refused>>
  BY Zenon DEF ReadRefused
<1>2. asked = "subscribe"
  BY <1>1, WsConnectionAssumption DEF WsConnectionAssumption, LoginsAccepted
<1>3. session = "subscribe sent"
  BY <1>1, <1>2 DEF Asked
<1>4. /\ Completes("read") /\ Ignored /\ session' = "refused"
      /\ UNCHANGED <<client, resolving, due, loggedIn, stopping, drops>>
  BY DEF ReadRefused
<1> QED
  BY <1>1, <1>2, <1>3, <1>4, Zenon

LEMMA FirstFrameType == FirstFrame \in Frames
BY DEF FirstFrame, Frames

LEMMA LifelineShrinks ==
  ASSUME OneLifeline, Lifeline' \subseteq Lifeline, aborted' \subseteq {"write"},
         resolving' = resolving,
         "backoff" \in armed' => "backoff" \in armed, "backoff" \in due' => "backoff" \in due
  PROVE  OneLifeline'
<1>1. \A op \in Lifeline' : Lifeline' = {op}
  BY DEF OneLifeline
<1> QED
  BY <1>1 DEF OneLifeline

LEMMA LifelineStep ==
  ASSUME LoginsAccepted, Healthy, [Next]_wsVars
  PROVE  OneLifeline'
<1>0. /\ Numbers /\ Collections /\ OneLifeline
      /\ aborted \subseteq {"write"}
      /\ session \in Open => aborted = {}
  BY TypeParts DEF Healthy, SocketIsFresh, OneLifeline
<1>1. CASE ResolveDone
  BY <1>0, <1>1 DEF OneLifeline, Lifeline, ResolveDone, ScheduleReconnect, Start
<1>2. CASE ConnectDone
  BY <1>0, <1>2 DEF OneLifeline, Lifeline, ConnectDone, Completes, After, ScheduleReconnect, Start
<1>3. CASE HandshakeDone
  <2>1. CASE Send(FirstFrame, {"read"}, pending \ {"handshake"}, "open") /\ armed' = Keepalive
    <3>1. "handshake" \in Lifeline /\ aborted = {} /\ UNCHANGED <<resolving, due>>
      BY <1>3 DEF HandshakeDone, Completes, Lifeline
    <3>2. Lifeline = {"handshake"} /\ resolving = 0 /\ "backoff" \notin armed \cup due
      BY <1>0, <3>1 DEF OneLifeline
    <3>3. Lifeline' = {"read"} /\ aborted' \subseteq {"write"}
      BY <2>1, <3>1, <3>2, SendLifelines DEF Lifeline
    <3>4. "backoff" \notin armed' \cup due'
      BY <2>1, <3>1, <3>2 DEF Keepalive
    <3> QED
      BY <3>1, <3>2, <3>3, <3>4 DEF OneLifeline
  <2>2. CASE ScheduleReconnect /\ Start({}, pending \ {"handshake"}) /\ UNCHANGED aborted
    BY <1>0, <1>3, <2>2 DEF OneLifeline, Lifeline, HandshakeDone, Completes, ScheduleReconnect, Start
  <2> QED
    BY <1>3, <2>1, <2>2 DEF HandshakeDone
<1>4. CASE WriteDone
  <2>1. WriteNext(pending \ {"write"}, aborted) /\ UNCHANGED <<resolving, armed, due>>
    BY <1>4 DEF WriteDone, timerVars
  <2> QED
    BY <1>0, <2>1, WriteNextLifelines, LifelineShrinks DEF Lifeline
<1>5. CASE ReadAccepted
  <2>0. "read" \in Lifeline /\ UNCHANGED <<resolving, armed, due>>
    BY <1>5 DEF ReadAccepted, Completes, Lifeline, timerVars
  <2>1. CASE Send("subscribe", ReadAgain, pending \ {"read"}, session)
    <3>1. /\ pending' \ {"write"} = ((pending \ {"read"}) \cup ReadAgain) \ {"write"}
          /\ aborted' \subseteq aborted \cup {"write"}
      BY <2>1, SendLifelines
    <3>2. Lifeline' \subseteq Lifeline /\ aborted' \subseteq {"write"}
      BY <1>0, <2>0, <3>1 DEF Lifeline, ReadAgain
    <3> QED
      BY <1>0, <2>0, <3>2, LifelineShrinks
  <2>2. CASE Ignored
    BY <1>0, <2>0, <2>2, IgnoredFacts, LifelineShrinks DEF Lifeline
  <2> QED
    BY <1>5, <2>1, <2>2 DEF ReadAccepted
<1>6. CASE ReadRefused
  BY <1>0, <1>6, RefusedFacts, IgnoredFacts, LifelineShrinks DEF Completes, Lifeline
<1>7. CASE ReadOther
  <2>0. "read" \in Lifeline /\ UNCHANGED <<resolving, armed, due>>
    BY <1>7 DEF ReadOther, Completes, Lifeline, timerVars
  <2>1. CASE Send("pong", ReadAgain, pending \ {"read"}, session)
    <3>1. /\ pending' \ {"write"} = ((pending \ {"read"}) \cup ReadAgain) \ {"write"}
          /\ aborted' \subseteq aborted \cup {"write"}
      BY <2>1, SendLifelines
    <3>2. Lifeline' \subseteq Lifeline /\ aborted' \subseteq {"write"}
      BY <1>0, <2>0, <3>1 DEF Lifeline, ReadAgain
    <3> QED
      BY <1>0, <2>0, <3>2, LifelineShrinks
  <2>2. CASE Ignored
    BY <1>0, <2>0, <2>2, IgnoredFacts, LifelineShrinks DEF Lifeline
  <2> QED
    BY <1>7, <2>1, <2>2 DEF ReadOther
<1>8. CASE ReadLost
  BY <1>0, <1>8 DEF OneLifeline, Lifeline, ReadLost, Completes, ScheduleReconnect, Start
<1>9. CASE \E t \in Timers : Expire(t)
  BY <1>0, <1>9 DEF OneLifeline, Lifeline, Expire, Timers, linkVars
<1>10. CASE PingDue
  <2>1. CASE Send("ping", {}, pending, session) /\ armed' = PingAgain
    <3>1. /\ pending' \ {"write"} = (pending \cup {}) \ {"write"}
          /\ aborted' \subseteq aborted \cup {"write"}
      BY <2>1, SendLifelines
    <3>2. Lifeline' \subseteq Lifeline /\ aborted' \subseteq {"write"}
      BY <1>0, <3>1 DEF Lifeline
    <3>3. /\ resolving' = resolving
          /\ armed' \subseteq armed \cup {"ping"} /\ due' \subseteq due
      BY <1>10, <2>1 DEF PingDue, PingAgain, Keepalive
    <3> QED
      BY <1>0, <3>2, <3>3, LifelineShrinks
  <2>2. CASE UNCHANGED <<armed, pending, aborted>>
    BY <1>0, <1>10, <2>2, LifelineShrinks DEF PingDue, Lifeline
  <2> QED
    BY <1>10, <2>1, <2>2 DEF PingDue
<1>11. CASE BackoffDue
  <2>1. resolving = 0 /\ Lifeline = {} /\ "backoff" \notin armed
    BY <1>0, <1>11 DEF BackoffDue, OneLifeline
  <2>2. CASE UNCHANGED linkVars
    BY <1>0, <1>11, <2>1, <2>2 DEF BackoffDue, linkVars, OneLifeline, Lifeline
  <2>3. CASE resolving' = resolving + 1 /\ aborted' = aborted \cup pending /\ pending' = {}
    <3>0. \A op \in pending : op = "write"
      BY <2>1 DEF Lifeline
    <3>1. Lifeline' = {} /\ aborted' \subseteq {"write"} /\ resolving' = 1
      <4>1. Lifeline' = {} /\ resolving' = 1
        BY <2>1, <2>3 DEF Lifeline
      <4>2. aborted' \subseteq {"write"}
        BY <1>0, <2>3, <3>0
      <4> QED BY <4>1, <4>2
    <3>2. "backoff" \notin armed' \cup due'
      BY <1>11, <2>1 DEF BackoffDue
    <3>3. \A op \in Lifeline' : FALSE
      BY <3>1
    <3>4. resolving' \in {0, 1} /\ ("backoff" \notin armed' /\ "backoff" \notin due')
      BY <3>1, <3>2
    <3> QED
      BY <3>1, <3>2, <3>3, <3>4, Zenon DEF OneLifeline
  <2> QED
    BY <1>11, <2>2, <2>3 DEF BackoffDue
<1>12. CASE AbortedDone
  <2>1. /\ WriteNext(pending, aborted \ {"write"}) /\ "write" \in aborted
        /\ UNCHANGED <<armed, due, resolving>>
    BY <1>0, <1>12 DEF AbortedDone, WriteFailed
  <2>2. /\ pending' \ {"write"} = pending \ {"write"}
        /\ aborted' \subseteq (aborted \ {"write"}) \cup {"write"}
    BY <2>1, WriteNextLifelines
  <2>3. Lifeline' \subseteq Lifeline /\ aborted' \subseteq {"write"}
    BY <1>0, <2>2 DEF Lifeline
  <2> QED
    BY <1>0, <2>1, <2>3, LifelineShrinks
<1>13. CASE Stop \/ StopHandler \/ UNCHANGED wsVars
  BY <1>0, <1>13 DEF OneLifeline, Lifeline, Stop, StopHandler, wsVars, linkVars, timerVars
<1> QED
  BY <1>1, <1>2, <1>3, <1>4, <1>5, <1>6, <1>7, <1>8, <1>9, <1>10, <1>11, <1>12, <1>13 DEF Next

-----------------------------------------------------------------------------
(* The write: at most one, and one as long as there is something to write   *)

LEMMA SendKeepsWrite ==
  ASSUME Collections, OneWrite, NEW frame \in Frames, NEW ops \in SUBSET Lifelines,
         NEW left \in SUBSET Operations, NEW sess, Send(frame, ops, left, sess),
         "write" \in left <=> "write" \in pending, ops \cap left = {}
  PROVE  OneWrite'
<1>1. queue \in Seq(Frames)
  BY DEF Collections
<1>2. /\ queue' # <<>> /\ writing' = TRUE
      /\ "write" \in pending' <=> "write" \in left \/ (~writing /\ sess \in Open)
      /\ aborted' = aborted \cup (IF ~writing /\ sess \notin Open THEN {"write"} ELSE {})
      /\ overlap' = (overlap \/ ops \cap left # {} \/ (~writing /\ sess \in Open /\ "write" \in left))
  BY <1>1, SendFacts
<1>3. "write" \in aborted' <=> "write" \in aborted \/ (~writing /\ sess \notin Open)
  BY <1>2
<1> QED
  BY <1>2, <1>3, Zenon DEF OneWrite

LEMMA WriteNextKeepsWrite ==
  ASSUME queue \in Seq(Frames), queue # <<>>, ~overlap,
         NEW left \in SUBSET Operations, NEW unrun, WriteNext(left, unrun),
         "write" \notin left, "write" \notin unrun
  PROVE  OneWrite'
<1>1. /\ writing' = (queue' # <<>>)
      /\ "write" \in pending' <=> "write" \in left \/ (writing' /\ session \in Open)
      /\ aborted' = unrun \cup (IF writing' /\ session \notin Open THEN {"write"} ELSE {})
      /\ overlap' = (overlap \/ (writing' /\ session \in Open /\ "write" \in left))
  BY WriteNextFacts
<1>2. "write" \in aborted' <=> writing' /\ session \notin Open
  BY <1>1
<1>3. "write" \in pending' \cup aborted' <=> "write" \in pending' \/ "write" \in aborted'
  OBVIOUS
<1> QED
  BY <1>1, <1>2, <1>3, Zenon DEF OneWrite

LEMMA WriteUntouched ==
  ASSUME OneWrite, queue' = queue, writing' = writing, aborted' = aborted,
         "write" \in pending' <=> "write" \in pending, ~overlap'
  PROVE  OneWrite'
<1>1. "write" \in pending' \cup aborted' <=> "write" \in pending \cup aborted
  OBVIOUS
<1> QED
  BY <1>1, Zenon DEF OneWrite

LEMMA OneWriteStep ==
  ASSUME LoginsAccepted, Healthy, [Next]_wsVars
  PROVE  OneWrite'
<1>0. /\ Collections /\ OneLifeline /\ OneWrite
      /\ pending \subseteq Operations
      /\ aborted \subseteq {"write"}
      /\ ~overlap /\ ("write" \in pending \cup aborted => queue # <<>>)
      /\ ~("write" \in pending /\ "write" \in aborted)
      /\ queue \in Seq(Frames)
  BY TypeParts DEF Healthy, OneLifeline, OneWrite, Collections
<1>1. CASE ResolveDone
  <2>1. "connect" \notin pending
    BY <1>0, <1>1 DEF ResolveDone, OneLifeline, Lifeline
  <2>2. /\ queue' = queue /\ writing' = writing /\ aborted' = aborted
        /\ "write" \in pending' <=> "write" \in pending
        /\ ~overlap'
    <3>1. \/ pending' = pending \cup {"connect"}
             /\ overlap' = (overlap \/ {"connect"} \cap pending # {})
          \/ pending' = pending /\ overlap' = overlap
      BY <1>1 DEF ResolveDone, Start
    <3>2. {"connect"} \cap pending = {}
      BY <2>1
    <3>3. ~overlap'
      BY <1>0, <3>1, <3>2, Zenon
    <3> QED
      BY <1>1, <3>1, <3>3 DEF ResolveDone, writeVars
  <2> QED
    BY <1>0, <2>2, WriteUntouched
<1>2. CASE ConnectDone
  <2>1. PICK op \in {"connect", "ssl"} :
          /\ op \in Lifeline
          /\ \/ Start({After[op]}, pending \ {op})
             \/ Start({}, pending \ {op})
    BY <1>2 DEF ConnectDone, After, Completes, Lifeline
  <2>2. After[op] \notin pending /\ After[op] # "write"
    BY <1>0, <2>1 DEF OneLifeline, Lifeline, After
  <2>3. queue' = queue /\ writing' = writing /\ aborted' = aborted
    BY <1>2 DEF ConnectDone, writeVars
  <2>4. ("write" \in pending' <=> "write" \in pending) /\ ~overlap'
    <3>1. \E ops \in {{After[op]}, {}} :
            /\ pending' = (pending \ {op}) \cup ops
            /\ overlap' = (overlap \/ ops \cap (pending \ {op}) # {})
      BY <2>1 DEF Start
    <3>2. \A ops \in {{After[op]}, {}} : ops \cap (pending \ {op}) = {} /\ "write" \notin ops
      BY <2>2
    <3>3. ~overlap'
      BY <1>0, <3>1, <3>2, Zenon
    <3> QED
      BY <2>1, <3>1, <3>2, <3>3 DEF Lifeline
  <2> QED
    BY <1>0, <2>3, <2>4, WriteUntouched
<1>3. CASE HandshakeDone
  <2>1. "read" \notin pending
    BY <1>0, <1>3 DEF HandshakeDone, Completes, OneLifeline, Lifeline
  <2>2. CASE Send(FirstFrame, {"read"}, pending \ {"handshake"}, "open")
    <3>1. /\ "write" \in pending \ {"handshake"} <=> "write" \in pending
          /\ {"read"} \cap (pending \ {"handshake"}) = {}
          /\ {"read"} \in SUBSET Lifelines
          /\ pending \ {"handshake"} \in SUBSET Operations
      BY <1>0, <2>1 DEF Lifelines
    <3> QED
      BY <1>0, <2>2, <3>1, FirstFrameType, SendKeepsWrite
  <2>3. CASE Start({}, pending \ {"handshake"}) /\ UNCHANGED <<aborted, writeVars>>
    BY <1>0, <2>3, WriteUntouched DEF Start, writeVars
  <2> QED
    BY <1>3, <2>2, <2>3 DEF HandshakeDone
<1>4. CASE WriteDone
  <2>1. /\ WriteNext(pending \ {"write"}, aborted) /\ "write" \in pending
        /\ "write" \notin aborted /\ queue # <<>>
        /\ pending \ {"write"} \in SUBSET Operations
    BY <1>0, <1>4 DEF WriteDone, Completes
  <2> QED
    BY <1>0, <2>1, WriteNextKeepsWrite
<1>5. CASE ReadAccepted \/ ReadOther
  <2>0. /\ "read" \in pending
        /\ "write" \in pending \ {"read"} <=> "write" \in pending
        /\ ReadAgain \cap (pending \ {"read"}) = {}
        /\ ReadAgain \in SUBSET Lifelines
        /\ pending \ {"read"} \in SUBSET Operations
    BY <1>0, <1>5 DEF ReadAccepted, ReadOther, Completes, ReadAgain, Lifelines
  <2>1. CASE \E frame \in {"subscribe", "pong"} : Send(frame, ReadAgain, pending \ {"read"}, session)
    <3>1. PICK frame \in {"subscribe", "pong"} :
            Send(frame, ReadAgain, pending \ {"read"}, session)
      BY <2>1
    <3>2. frame \in Frames
      BY DEF Frames
    <3> QED
      BY <1>0, <2>0, <3>1, <3>2, SendKeepsWrite
  <2>2. CASE Ignored
    BY <1>0, <2>0, <2>2, IgnoredFacts, WriteUntouched
  <2> QED
    BY <1>5, <2>1, <2>2 DEF ReadAccepted, ReadOther
<1>6. CASE ReadRefused
  BY <1>0, <1>6, RefusedFacts, IgnoredFacts, WriteUntouched DEF Completes
<1>8. CASE ReadLost
  BY <1>0, <1>8, WriteUntouched DEF ReadLost, Start, writeVars
<1>9. CASE \E t \in Timers : Expire(t)
  BY <1>0, <1>9, WriteUntouched DEF Expire, linkVars, writeVars
<1>10. CASE PingDue
  <2>1. CASE Send("ping", {}, pending, session)
    <3>1. "ping" \in Frames /\ {} \in SUBSET Lifelines /\ {} \cap pending = {}
      BY DEF Frames
    <3> QED
      BY <1>0, <2>1, <3>1, SendKeepsWrite
  <2>2. CASE UNCHANGED <<pending, aborted, writeVars, overlap>>
    BY <1>0, <2>2, WriteUntouched DEF writeVars
  <2> QED
    BY <1>10, <2>1, <2>2 DEF PingDue
<1>11. CASE BackoffDue
  <2>1. /\ queue' = queue /\ writing' = writing /\ ~overlap'
        /\ \/ pending' = pending /\ aborted' = aborted
           \/ pending' = {} /\ aborted' = aborted \cup pending
    BY <1>0, <1>11 DEF BackoffDue, writeVars, linkVars
  <2>2. /\ "write" \in pending' \cup aborted' <=> "write" \in pending \cup aborted
        /\ ~("write" \in pending' /\ "write" \in aborted')
    BY <1>0, <2>1
  <2> QED
    BY <1>0, <2>1, <2>2, Zenon DEF OneWrite
<1>12. CASE AbortedDone
  <2>1. /\ WriteNext(pending, aborted \ {"write"}) /\ "write" \notin pending
        /\ "write" \notin aborted \ {"write"} /\ queue # <<>>
    BY <1>0, <1>12 DEF AbortedDone, WriteFailed
  <2> QED
    BY <1>0, <2>1, WriteNextKeepsWrite
<1>13. CASE Stop \/ StopHandler \/ UNCHANGED wsVars
  BY <1>0, <1>13, WriteUntouched DEF Stop, StopHandler, wsVars, linkVars, writeVars
<1> QED
  BY <1>1, <1>2, <1>3, <1>4, <1>5, <1>6, <1>8, <1>9, <1>10, <1>11, <1>12, <1>13 DEF Next

-----------------------------------------------------------------------------
(* The socket: unused until it is connected, and then the only one          *)

LEMMA ReceivedFacts ==
  ASSUME NEW frame
  PROVE  /\ Received(frame) \in Open <=> session \in Open
         /\ session # "none" => Received(frame) # "none"
         /\ Received(frame) = "open" => session = "open" /\ frame \notin {"login", "subscribe"}
         /\ Received(frame) = "login sent" =>
              session = "login sent" \/ (session \in {"open", "in"} /\ frame = "login")
<1>1. DOMAIN Asked = {"login", "subscribe"}
  BY DEF Asked
<1>2. CASE frame \in {"login", "subscribe"} /\ session \in {"open", "in"}
  <2>1. Received(frame) = Asked[frame]
    BY <1>1, <1>2 DEF Received
  <2>2. Asked["login"] = "login sent" /\ Asked["subscribe"] = "subscribe sent"
    BY DEF Asked
  <2> QED
    BY <1>2, <2>1, <2>2 DEF Open
<1>3. CASE ~(frame \in {"login", "subscribe"} /\ session \in {"open", "in"})
  <2>1. Received(frame) = session
    BY <1>1, <1>3 DEF Received
  <2> QED
    BY <1>3, <2>1
<1> QED
  BY <1>2, <1>3

LEMMA SocketStep ==
  ASSUME LoginsAccepted, Healthy, [Next]_wsVars
  PROVE  SocketIsFresh'
<1>0. /\ Collections /\ OneLifeline /\ OneLifeline' /\ SocketIsFresh
      /\ pending \subseteq Operations /\ queue \in Seq(Frames)
      /\ aborted \subseteq {"write"}
      /\ "write" \in pending => "write" \notin aborted
  BY TypeParts, LifelineStep DEF Healthy, OneLifeline, OneWrite, Collections
<1>1. CASE ResolveDone
  <2>1. session = "none" /\ session' = "none" /\ "write" \notin pending
    BY <1>0, <1>1 DEF ResolveDone, OneLifeline, SocketIsFresh
  <2>2. "write" \notin pending'
    BY <1>1, <2>1 DEF ResolveDone, Start
  <2> QED
    BY <2>1, <2>2 DEF SocketIsFresh, Open
<1>2. CASE ConnectDone
  <2>1. session = "none" /\ session' = "none" /\ "write" \notin pending
    BY <1>0, <1>2 DEF ConnectDone, Completes, After, SocketIsFresh, Chain
  <2>2. "write" \notin pending'
    BY <1>2, <2>1 DEF ConnectDone, After, Start
  <2> QED
    BY <2>1, <2>2 DEF SocketIsFresh, Open
<1>3. CASE HandshakeDone
  <2>0. /\ session = "none" /\ aborted = {} /\ "write" \notin pending
        /\ Lifeline = {"handshake"} /\ resolving = 0 /\ resolving' = 0
    BY <1>0, <1>3 DEF HandshakeDone, Completes, SocketIsFresh, Chain, OneLifeline, Lifeline
  <2>1. CASE session' = "open" /\ Send(FirstFrame, {"read"}, pending \ {"handshake"}, "open")
    <3>1. /\ pending' \ {"write"} = ((pending \ {"handshake"}) \cup {"read"}) \ {"write"}
          /\ aborted' = {}
      BY <2>0, <2>1, SendLifelines DEF Send, Bounces, Open
    <3>2. pending' \cap Chain = {}
      BY <2>0, <3>1 DEF Lifeline, Chain
    <3> QED
      BY <2>0, <2>1, <3>1, <3>2 DEF SocketIsFresh
  <2>2. CASE session' = session /\ Start({}, pending \ {"handshake"})
    <3>1. "write" \notin pending' /\ session' = "none"
      BY <2>0, <2>2 DEF Start
    <3> QED
      BY <3>1 DEF SocketIsFresh, Open
  <2> QED
    BY <1>3, <2>1, <2>2 DEF HandshakeDone
<1>4. CASE WriteDone
  <2>1. /\ session # "none" /\ aborted = {} /\ resolving' = resolving
        /\ WriteNext(pending \ {"write"}, aborted)
        /\ session' = Received(Head(queue))
    BY <1>0, <1>4 DEF WriteDone, Completes, SocketIsFresh
  <2>2. session' # "none" /\ (session' \in Open <=> session \in Open)
    BY <2>1, ReceivedFacts
  <2>3. resolving # 1 /\ pending \cap Chain = {}
    BY <1>0, <2>1 DEF SocketIsFresh
  <2>4. pending' \cap Chain = {}
    <3>1. pending' \ {"write"} = (pending \ {"write"}) \ {"write"}
      BY <2>1, WriteNextLifelines
    <3> QED
      BY <2>3, <3>1 DEF Chain
  <2>5. session' \in Open => aborted' = {}
    BY <2>1, <2>2 DEF WriteNext, Bounces
  <2> QED
    BY <2>1, <2>2, <2>3, <2>4, <2>5 DEF SocketIsFresh
<1>5. CASE ReadAccepted \/ ReadRefused \/ ReadOther
  <2>0. /\ "read" \in pending /\ session \in Open /\ session' \in Open
        /\ aborted = {} /\ resolving' = resolving
        /\ \/ \E frame \in {"subscribe", "pong"} : Send(frame, ReadAgain, pending \ {"read"}, session)
           \/ Ignored
    BY <1>0, <1>5, RefusedFacts DEF ReadAccepted, ReadOther, Completes, Open, SocketIsFresh
  <2>1. session' # "none" /\ resolving # 1 /\ pending \cap Chain = {}
    BY <1>0, <2>0 DEF SocketIsFresh, Open
  <2>2. pending' \ {"write"} \subseteq pending /\ aborted' = {}
    <3>1. CASE Ignored
      BY <1>0, <2>0, <3>1, IgnoredFacts
    <3>2. CASE \E frame \in {"subscribe", "pong"} : Send(frame, ReadAgain, pending \ {"read"}, session)
      <4>1. /\ pending' \ {"write"} = ((pending \ {"read"}) \cup ReadAgain) \ {"write"}
            /\ aborted' = aborted \cup Bounces(WriteNow, session)
        BY <3>2, SendLifelines DEF Send
      <4> QED
        BY <2>0, <4>1 DEF ReadAgain, Bounces
    <3> QED
      BY <2>0, <3>1, <3>2
  <2>3. pending' \cap Chain = {}
    BY <2>1, <2>2 DEF Chain
  <2> QED
    BY <2>0, <2>1, <2>2, <2>3 DEF SocketIsFresh
<1>6. CASE ReadLost
  <2>1. Lifeline = {"read"} /\ resolving = 0
    BY <1>0, <1>6 DEF ReadLost, Completes, OneLifeline, Lifeline
  <2>2. pending' = pending \ {"read"} /\ session' = "closed" /\ resolving' = 0
    BY <1>6, <2>1 DEF ReadLost, Start
  <2>3. pending' \cap Chain = {}
    BY <2>1, <2>2 DEF Lifeline, Chain
  <2> QED
    BY <2>2, <2>3 DEF SocketIsFresh, Open
<1>7. CASE PingDue
  <2>1. session' = session /\ resolving' = resolving
    BY <1>7 DEF PingDue
  <2>2. CASE UNCHANGED <<pending, aborted>>
    BY <1>0, <2>1, <2>2 DEF SocketIsFresh
  <2>3. CASE Send("ping", {}, pending, session)
    <3>1. /\ pending' \ {"write"} = (pending \cup {}) \ {"write"}
          /\ aborted' = aborted \cup Bounces(WriteNow, session)
          /\ pending' = pending \cup ({} \cup Writes(WriteNow, session))
      BY <2>3, SendLifelines DEF Send, Start
    <3>2. session \in Open => aborted' = {}
      BY <1>0, <3>1 DEF Bounces, SocketIsFresh
    <3>3. session = "none" => "write" \notin pending'
      BY <1>0, <3>1 DEF Writes, SocketIsFresh, Open
    <3>4. pending' \cap Chain = pending \cap Chain
      BY <3>1 DEF Chain
    <3> QED
      BY <1>0, <2>1, <3>2, <3>3, <3>4 DEF SocketIsFresh
  <2> QED
    BY <1>7, <2>2, <2>3 DEF PingDue
<1>8. CASE BackoffDue
  <2>1. CASE UNCHANGED <<linkVars, session>>
    BY <1>0, <2>1 DEF SocketIsFresh, linkVars
  <2>2. CASE session' = "none" /\ pending' = {}
    BY <2>2 DEF SocketIsFresh, Open
  <2> QED
    BY <1>8, <2>1, <2>2 DEF BackoffDue
<1>9. CASE AbortedDone
  <2>1. /\ WriteNext(pending, aborted \ {"write"})
        /\ session' = session /\ resolving' = resolving /\ session \notin Open
    <3>1. PICK fate \in aborted : fate = "write" => WriteFailed(pending, aborted \ {fate})
      BY <1>9 DEF AbortedDone
    <3>2. fate = "write"
      BY <1>0
    <3>3. session \notin Open
      BY <1>0 DEF SocketIsFresh
    <3> QED BY <1>9, <3>1, <3>2, <3>3 DEF AbortedDone, WriteFailed
  <2>2. pending' = pending
    <3>1. Writes(writing', session) = {}
      BY <2>1 DEF Writes
    <3> QED BY <2>1, <3>1 DEF WriteNext, Start
  <2>3. SocketIsFresh /\ session' \notin Open
    BY <1>0, <2>1
  <2> QED
    BY <1>0, <2>1, <2>2, <2>3 DEF SocketIsFresh
<1>10. CASE (\E t \in Timers : Expire(t)) \/ Stop \/ UNCHANGED wsVars
  BY <1>0, <1>10 DEF Expire, Stop, wsVars, linkVars, SocketIsFresh
<1>11. CASE StopHandler
  BY <1>0, <1>11 DEF StopHandler, linkVars, SocketIsFresh, Open
<1> QED
  BY <1>1, <1>2, <1>3, <1>4, <1>5, <1>6, <1>7, <1>8, <1>9, <1>10, <1>11 DEF Next

-----------------------------------------------------------------------------
(* The first frame of a connection *)

(* A keepalive or a pong goes to the end of the queue. *)
LEMMA ReplyKeepsOrder ==
  ASSUME LoginFirst, queue \in Seq(Frames), NEW frame \in Frames, frame # "login",
         queue' = Append(queue, frame),
         client' = client, session' = session, Len(queue) < MaxQueue, MaxQueue \in Nat
  PROVE  LoginFirst'
<1>1. /\ queue' \in Seq(Frames) /\ Len(queue') = Len(queue) + 1
      /\ \A i \in 1..Len(queue) : queue'[i] = queue[i]
      /\ queue'[Len(queue) + 1] = frame
  BY AppendProperties
<1>2. ASSUME session' = "open" PROVE queue' # <<>> /\ Head(queue') = FirstFrame'
  <2>1. queue # <<>> /\ Head(queue) = FirstFrame
    BY <1>2 DEF LoginFirst, FirstThingsFirst
  <2>2. Head(queue') = queue'[1] /\ Head(queue) = queue[1] /\ Len(queue) >= 1
    BY <1>1, <2>1, EmptySeq, HeadTailProperties, LenProperties
  <2>3. FirstFrame' = FirstFrame
    BY DEF FirstFrame
  <2> QED
    BY <1>1, <2>1, <2>2, <2>3, LenProperties
<1>3. ASSUME session' \in Open, NEW i \in 1..Len(queue'), queue'[i] = "login"
      PROVE  session' = "open" /\ i = 1
  <2>1. i \in 1..Len(queue)
    BY <1>1, <1>3, LenProperties
  <2> QED
    BY <1>1, <1>3, <2>1 DEF LoginFirst
<1>4. session' \in {"open", "login sent"} => Len(queue') <= MaxQueue
  <2>1. Len(queue) \in Nat
    BY LenProperties
  <2>2. Len(queue') = Len(queue) + 1
    BY <1>1
  <2>3. Len(queue) + 1 <= MaxQueue
    BY <2>1
  <2> QED
    BY <2>2, <2>3
<1> QED
  BY <1>2, <1>3, <1>4 DEF LoginFirst, FirstThingsFirst

LEMMA ClosedIsOrdered ==
  ASSUME session' \notin Open
  PROVE  LoginFirst'
BY DEF LoginFirst, FirstThingsFirst, Open

LEMMA LoginFirstStep ==
  ASSUME LoginsAccepted, Healthy, [Next]_wsVars
  PROVE  LoginFirst'
<1>0. /\ Collections /\ OneLifeline /\ OneWrite /\ SocketIsFresh /\ LoginFirst
      /\ queue \in Seq(Frames) /\ Len(queue) \in Nat
      /\ MaxQueue \in Nat /\ MaxQueue >= 1
  BY TypeParts, LenProperties, WsConnectionAssumption
     DEF Healthy, Collections, WsConnectionAssumption
<1>1. CASE ResolveDone \/ ConnectDone
  <2>1. session' = "none"
    <3>1. CASE ResolveDone
      BY <1>0, <3>1 DEF ResolveDone, SocketIsFresh, OneLifeline
    <3>2. CASE ConnectDone
      BY <1>0, <3>2 DEF ConnectDone, Completes, After, Chain, SocketIsFresh
    <3> QED
      BY <1>1, <3>1, <3>2
  <2> QED
    BY <2>1, ClosedIsOrdered DEF Open
<1>2. CASE HandshakeDone
  <2>0. session = "none" /\ aborted = {} /\ client' = client
    BY <1>0, <1>2 DEF HandshakeDone, Completes, Chain, SocketIsFresh
  <2>1. CASE session' = "open" /\ Send(FirstFrame, {"read"}, pending \ {"handshake"}, "open")
    <3>1. queue = <<>>
      BY <1>0, <2>0 DEF SocketIsFresh, OneWrite
    <3>2. queue' = <<FirstFrame>>
      BY <2>1, <3>1 DEF Send
    <3>3. Len(queue') = 1 /\ queue'[1] = FirstFrame /\ Head(queue') = FirstFrame
      BY <3>2
    <3>4. FirstFrame' = FirstFrame
      BY <2>0 DEF FirstFrame
    <3>5. queue' # <<>>
      BY <3>2
    <3>6. \A i \in 1..Len(queue') : i = 1
      BY <3>3
    <3>7. FirstThingsFirst'
      BY <3>3, <3>4, <3>5 DEF FirstThingsFirst
    <3>8. Len(queue') <= MaxQueue
      BY <1>0, <3>3
    <3> QED
      BY <2>1, <3>6, <3>7, <3>8 DEF LoginFirst
  <2>2. CASE session' = session
    BY <2>0, <2>2, ClosedIsOrdered DEF Open
  <2> QED
    BY <1>2, <2>1, <2>2 DEF HandshakeDone
<1>3. CASE WriteDone
  <2>1. /\ WriteNext(pending \ {"write"}, aborted) /\ "write" \in pending
        /\ session' = Received(Head(queue)) /\ client' = client
    BY <1>3 DEF WriteDone, Completes
  <2>2. queue # <<>>
    BY <1>0, <2>1 DEF OneWrite
  <2>3. /\ queue' = Tail(queue) /\ Len(queue') = Len(queue) - 1 /\ queue' \in Seq(Frames)
        /\ \A i \in 1..Len(queue') : queue'[i] = queue[i + 1]
    BY <1>0, <2>1, <2>2, HeadTailProperties DEF WriteNext
  <2>4. session' # "open"
    <3>1. session = "open" => Head(queue) \in {"login", "subscribe"}
      BY <1>0 DEF LoginFirst, FirstThingsFirst, FirstFrame
    <3> QED
      BY <2>1, <3>1, ReceivedFacts
  <2>5. session' \in Open => session \in Open
    BY <2>1, ReceivedFacts
  <2>6. ASSUME session' \in Open, NEW i \in 1..Len(queue') PROVE queue'[i] # "login"
    <3>1. i + 1 \in 1..Len(queue) /\ i + 1 # 1 /\ queue'[i] = queue[i + 1]
      BY <1>0, <2>3, <2>6
    <3> QED
      BY <1>0, <2>5, <2>6, <3>1 DEF LoginFirst
  <2>7. session' \in {"open", "login sent"} => Len(queue') <= MaxQueue
    <3>1. session = "in" => Head(queue) # "login"
      <4>1. 1 \in 1..Len(queue) /\ Head(queue) = queue[1]
        <5>1. Len(queue) # 0 /\ Head(queue) = queue[1]
          BY <1>0, <2>2, EmptySeq, HeadTailProperties
        <5> QED
          BY <1>0, <5>1
      <4> QED
        BY <1>0, <4>1 DEF LoginFirst, Open
    <3>2. session' = "login sent" => session \in {"open", "login sent"}
      BY <2>1, <3>1, ReceivedFacts
    <3>3. session' = "login sent" => Len(queue) <= MaxQueue
      BY <1>0, <3>2 DEF LoginFirst
    <3>4. Len(queue) <= MaxQueue => Len(queue') <= MaxQueue
      BY <1>0, <2>3
    <3> QED
      BY <2>4, <3>3, <3>4
  <2> QED
    BY <2>4, <2>6, <2>7 DEF LoginFirst, FirstThingsFirst
<1>4. CASE ReadAccepted
  <2>1. CASE /\ session = "login sent" /\ session' = "in"
             /\ Send("subscribe", ReadAgain, pending \ {"read"}, session)
    <3>1. /\ Len(queue') = Len(queue) + 1
          /\ \A i \in 1..Len(queue) : queue'[i] = queue[i]
          /\ queue'[Len(queue) + 1] = "subscribe"
      <4>1. "subscribe" \in Frames /\ queue' = Append(queue, "subscribe")
        BY <2>1 DEF Send, Frames
      <4> QED
        BY <1>0, <4>1, AppendProperties
    <3>2. \A i \in 1..Len(queue) : queue[i] # "login"
      BY <1>0, <2>1 DEF LoginFirst, Open
    <3>3. \A i \in 1..Len(queue') : queue'[i] # "login"
      BY <1>0, <3>1, <3>2
    <3> QED
      BY <2>1, <3>3 DEF LoginFirst, FirstThingsFirst
  <2>2. CASE session = "subscribe sent" /\ session' = "subscribed" /\ Ignored
    <3>1. queue' = queue
      BY <2>2 DEF Ignored, writeVars
    <3> QED
      BY <1>0, <2>2, <3>1 DEF LoginFirst, FirstThingsFirst, Open
  <2> QED
    BY <1>4, <2>1, <2>2 DEF ReadAccepted
<1>5. CASE ReadRefused
  <2>1. queue' = queue /\ session = "subscribe sent" /\ session' = "refused"
    BY <1>5, RefusedFacts DEF Ignored, writeVars
  <2> QED
    BY <1>0, <2>1 DEF LoginFirst, FirstThingsFirst, Open
<1>6. CASE ReadOther \/ PingDue
  <2>1. session' = session /\ client' = client
    BY <1>6 DEF ReadOther, PingDue
  <2>2. CASE queue' = queue
    <3>1. FirstFrame' = FirstFrame
      BY <2>1 DEF FirstFrame
    <3> QED
      BY <1>0, <2>1, <2>2, <3>1 DEF LoginFirst, FirstThingsFirst
  <2>3. CASE /\ Len(queue) < MaxQueue
             /\ \E frame \in {"ping", "pong"} : queue' = Append(queue, frame)
    <3>1. PICK frame \in {"ping", "pong"} : queue' = Append(queue, frame)
      BY <2>3
    <3>2. frame \in Frames /\ frame # "login"
      BY DEF Frames
    <3> QED
      BY <1>0, <2>1, <2>3, <3>1, <3>2, ReplyKeepsOrder
  <2> QED
    BY <1>6, <2>2, <2>3 DEF ReadOther, PingDue, Send, Ignored, writeVars
<1>7. CASE ReadLost
  BY <1>7, ClosedIsOrdered DEF ReadLost, Open
<1>8. CASE BackoffDue
  <2>1. CASE session' = "none"
    BY <2>1, ClosedIsOrdered DEF Open
  <2>2. CASE session' = session
    <3>1. queue' = queue /\ FirstFrame' = FirstFrame
      BY <1>8 DEF BackoffDue, writeVars, FirstFrame
    <3> QED
      BY <1>0, <2>2, <3>1 DEF LoginFirst, FirstThingsFirst
  <2> QED
    BY <1>8, <2>1, <2>2 DEF BackoffDue
<1>9. CASE AbortedDone
  <2>1. session' = session /\ session \notin Open
    BY <1>0, <1>9 DEF AbortedDone, SocketIsFresh
  <2>2. session' \notin Open
    BY <2>1
  <2> QED
    BY <2>2, ClosedIsOrdered
<1>10. CASE (\E t \in Timers : Expire(t)) \/ Stop \/ UNCHANGED wsVars
  <2>1. queue' = queue /\ session' = session /\ FirstFrame' = FirstFrame
    BY <1>10 DEF Expire, Stop, wsVars, writeVars, FirstFrame
  <2> QED
    BY <1>0, <2>1 DEF LoginFirst, FirstThingsFirst
<1>11. CASE StopHandler
  <2>1. session' \notin Open
    BY <1>11 DEF StopHandler, Open
  <2> QED
    BY <2>1, ClosedIsOrdered
<1> QED
  BY <1>1, <1>2, <1>3, <1>4, <1>5, <1>6, <1>7, <1>8, <1>9, <1>10, <1>11 DEF Next

-----------------------------------------------------------------------------
(* The keepalive and the types *)

LEMMA KeepaliveStep ==
  ASSUME LoginsAccepted, Healthy, [Next]_wsVars
  PROVE  KeepaliveRuns'
<1>0. /\ OneLifeline /\ SocketIsFresh /\ KeepaliveRuns
      /\ aborted \subseteq {"write"}
  BY DEF Healthy, OneLifeline
<1>1. CASE ResolveDone \/ ConnectDone
  <2>1. session' = "none"
    <3>1. CASE ResolveDone
      BY <1>0, <3>1 DEF ResolveDone, SocketIsFresh, OneLifeline
    <3>2. CASE ConnectDone
      BY <1>0, <3>2 DEF ConnectDone, Completes, After, Chain, SocketIsFresh
    <3> QED
      BY <1>1, <3>1, <3>2
  <2> QED
    BY <2>1 DEF KeepaliveRuns, Open
<1>2. CASE HandshakeDone
  <2>0. session = "none" /\ stopping' = stopping
    BY <1>0, <1>2 DEF HandshakeDone, Completes, Chain, SocketIsFresh
  <2>1. CASE armed' = Keepalive
    BY <2>0, <2>1 DEF KeepaliveRuns, Keepalive, Stopping
  <2>2. CASE session' = session
    BY <2>0, <2>2 DEF KeepaliveRuns, Open
  <2> QED
    BY <1>2, <2>1, <2>2 DEF HandshakeDone
<1>3. CASE WriteDone
  <2>1. UNCHANGED <<armed, due, stopping>> /\ (session' \in Open => session \in Open)
    BY <1>3, ReceivedFacts DEF WriteDone, timerVars
  <2> QED
    BY <1>0, <2>1 DEF KeepaliveRuns, Stopping
<1>4. CASE ReadAccepted \/ ReadRefused \/ ReadOther
  <2>1. UNCHANGED <<armed, due, stopping>> /\ session \in Open
    BY <1>4, RefusedFacts DEF ReadAccepted, ReadOther, timerVars, Open
  <2> QED
    BY <1>0, <2>1 DEF KeepaliveRuns, Stopping
<1>5. CASE ReadLost
  BY <1>5 DEF ReadLost, KeepaliveRuns, Open
<1>6. CASE \E t \in Timers : Expire(t)
  BY <1>0, <1>6 DEF Expire, KeepaliveRuns, Stopping
<1>7. CASE PingDue
  <2>0. session' = session /\ stopping' = stopping
    BY <1>7 DEF PingDue
  <2>1. CASE Stopping
    BY <2>0, <2>1 DEF KeepaliveRuns, Stopping
  <2>2. CASE ~Stopping
    BY <1>7, <2>0, <2>2 DEF PingDue, PingAgain, Keepalive, KeepaliveRuns, Stopping
  <2> QED
    BY <2>1, <2>2
<1>8. CASE BackoffDue
  <2>1. CASE Stopping
    BY <1>8, <2>1 DEF BackoffDue, KeepaliveRuns, Stopping
  <2>2. CASE ~Stopping
    BY <1>8, <2>2 DEF BackoffDue, KeepaliveRuns, Open
  <2> QED
    BY <2>1, <2>2
<1>9. CASE AbortedDone
  <2>1. session' = session /\ session \notin Open
    BY <1>0, <1>9 DEF AbortedDone, SocketIsFresh
  <2> QED
    BY <2>1 DEF KeepaliveRuns
<1>10. CASE Stop \/ StopHandler
  BY <1>10 DEF Stop, StopHandler, KeepaliveRuns, Stopping
<1>11. CASE UNCHANGED wsVars
  BY <1>0, <1>11 DEF wsVars, linkVars, timerVars, KeepaliveRuns, Stopping
<1> QED
  BY <1>1, <1>2, <1>3, <1>4, <1>5, <1>6, <1>7, <1>8, <1>9, <1>10, <1>11 DEF Next

LEMMA AttemptsStep ==
  ASSUME LoginsAccepted, Healthy, [Next]_wsVars
  PROVE  AttemptsLeft' /\ attempt' \in 0..(MaxAttempts + 1) /\ fatal' \in BOOLEAN
<1>0. /\ TypeOK /\ AttemptsLeft /\ MaxAttempts \in Nat
      /\ attempt \in 0..(MaxAttempts + 1) /\ fatal \in BOOLEAN
      /\ aborted \subseteq {"write"}
  BY TypeParts, WsConnectionAssumption
     DEF Healthy, OneLifeline, Numbers, Flags, WsConnectionAssumption
<1>1. CASE ~fatal /\ ScheduleReconnect
  BY <1>0, <1>1, ReconnectFacts
<1>2. CASE UNCHANGED <<attempt, fatal>>
  BY <1>0, <1>2 DEF AttemptsLeft
<1>3. CASE attempt' = 0 /\ fatal' = fatal
  BY <1>0, <1>3 DEF AttemptsLeft
<1>4. CASE ReadRefused
  <2>1. fatal' \in BOOLEAN /\ attempt' = attempt /\ ~fatal
    BY <1>4, RefusedFacts DEF Completes
  <2> QED
    BY <1>0, <2>1 DEF AttemptsLeft
<1>5. CASE ResolveDone
  BY <1>1, <1>2, <1>5 DEF ResolveDone
<1>6. CASE ConnectDone
  BY <1>1, <1>2, <1>6 DEF ConnectDone, Completes
<1>7. CASE HandshakeDone
  BY <1>1, <1>3, <1>7 DEF HandshakeDone, Completes
<1>8. CASE ReadLost
  BY <1>1, <1>8 DEF ReadLost, Completes
<1>9. CASE AbortedDone
  BY <1>0, <1>2, <1>9 DEF AbortedDone
<1>10. CASE WriteDone \/ ReadAccepted \/ ReadOther \/ PingDue \/ BackoffDue
  BY <1>2, <1>10 DEF WriteDone, ReadAccepted, ReadOther, PingDue, BackoffDue
<1>11. CASE (\E t \in Timers : Expire(t)) \/ Stop \/ StopHandler \/ UNCHANGED wsVars
  BY <1>2, <1>11 DEF Expire, Stop, StopHandler, wsVars
<1> QED
  BY <1>4, <1>5, <1>6, <1>7, <1>8, <1>9, <1>10, <1>11 DEF Next

LEMMA HistoryStep ==
  ASSUME LoginsAccepted, Healthy, [Next]_wsVars
  PROVE  drops' \in 0..MaxDrops /\ refused' \in 0..(MaxAttempts + 1)
<1>0. /\ drops \in 0..MaxDrops /\ refused \in 0..(MaxAttempts + 1)
      /\ MaxAttempts \in Nat /\ MaxDrops \in Nat
  BY TypeParts, WsConnectionAssumption DEF Healthy, Numbers, WsConnectionAssumption
<1>1. /\ drops' = drops \/ (drops < MaxDrops /\ drops' = drops + 1)
      /\ refused' = refused \/ refused' = 0
  <2>1. CASE ResolveDone \/ ConnectDone \/ HandshakeDone \/ WriteDone
    BY <2>1 DEF ResolveDone, ConnectDone, HandshakeDone, WriteDone
  <2>2. CASE ReadAccepted \/ ReadOther \/ ReadLost
    BY <2>2 DEF ReadAccepted, ReadOther, ReadLost
  <2>3. CASE ReadRefused
    BY <2>3, RefusedFacts
  <2>4. CASE PingDue \/ BackoffDue \/ AbortedDone
    BY <2>4 DEF PingDue, BackoffDue, AbortedDone
  <2>5. CASE (\E t \in Timers : Expire(t)) \/ Stop \/ StopHandler \/ UNCHANGED wsVars
    BY <2>5 DEF Expire, Stop, StopHandler, wsVars
  <2> QED
    BY <2>1, <2>2, <2>3, <2>4, <2>5 DEF Next
<1> QED
  BY <1>0, <1>1

LEMMA FlagsStep ==
  ASSUME LoginsAccepted, Healthy, [Next]_wsVars
  PROVE  /\ client' \in Clients /\ session' \in Sessions
         /\ stopping' \in {"no", "called", "done"} /\ loggedIn' \in BOOLEAN
<1>0. /\ client \in Clients /\ session \in Sessions
      /\ stopping \in {"no", "called", "done"} /\ loggedIn \in BOOLEAN
  BY TypeParts DEF Healthy, Flags
<1>1. client' = client
  BY DEF Next, ResolveDone, ConnectDone, HandshakeDone, WriteDone, ReadAccepted, ReadRefused,
         ReadOther, ReadLost, Expire, PingDue, BackoffDue, AbortedDone, Stop, StopHandler, wsVars
<1>2. stopping' \in {stopping, "called", "done"}
  BY DEF Next, ResolveDone, ConnectDone, HandshakeDone, WriteDone, ReadAccepted, ReadRefused,
         ReadOther, ReadLost, Expire, PingDue, BackoffDue, AbortedDone, Stop, StopHandler, wsVars
<1>3. loggedIn' \in {loggedIn, TRUE, FALSE}
  BY DEF Next, ResolveDone, ConnectDone, HandshakeDone, WriteDone, ReadAccepted, ReadRefused,
         ReadOther, ReadLost, Expire, PingDue, BackoffDue, AbortedDone, Stop, StopHandler, wsVars
<1>4. session' \in Sessions
  <2>1. CASE WriteDone
    <3>1. session' \in {session, "login sent", "subscribe sent"}
      <4>1. session' = Received(Head(queue))
        BY <2>1 DEF WriteDone
      <4>2. Head(queue) \in {"login", "subscribe"} => Asked[Head(queue)] \in {"login sent", "subscribe sent"}
        <5>1. Asked["login"] = "login sent" /\ Asked["subscribe"] = "subscribe sent"
          BY DEF Asked
        <5> QED BY <5>1
      <4>3. DOMAIN Asked = {"login", "subscribe"}
        BY DEF Asked
      <4> QED
        BY <4>1, <4>2, <4>3 DEF Received
    <3> QED
      BY <1>0, <3>1 DEF Sessions, Open
  <2>2. CASE ~WriteDone
    <3>1. session' \in {session, "open", "in", "subscribed", "refused", "closed", "none"}
      BY <2>2 DEF Next, ResolveDone, ConnectDone, HandshakeDone, ReadAccepted, ReadRefused,
             ReadOther, ReadLost, Expire, PingDue, BackoffDue, AbortedDone, Stop, StopHandler, wsVars
    <3> QED
      BY <1>0, <3>1 DEF Sessions, Open
  <2> QED
    BY <2>1, <2>2
<1>5. stopping' \in {"no", "called", "done"} /\ loggedIn' \in BOOLEAN
  BY <1>0, <1>2, <1>3
<1> QED
  BY <1>0, <1>1, <1>4, <1>5

LEMMA TimersStep ==
  ASSUME LoginsAccepted, Healthy, [Next]_wsVars
  PROVE  armed' \subseteq Timers /\ due' \subseteq Timers
<1>0. /\ armed \subseteq Timers /\ due \subseteq Timers
      /\ TypeOK /\ AttemptsLeft /\ aborted \subseteq {"write"}
  BY TypeParts DEF Healthy, Collections, OneLifeline
<1>1. CASE ResolveDone \/ ConnectDone \/ HandshakeDone \/ ReadLost
  <2>1. due' = due /\ ~fatal
    BY <1>1 DEF ResolveDone, ConnectDone, HandshakeDone, ReadLost, Completes
  <2>2. armed' \in {armed, Keepalive} \/ ScheduleReconnect
    BY <1>1 DEF ResolveDone, ConnectDone, HandshakeDone, ReadLost
  <2>3. armed' \subseteq Timers
    BY <1>0, <2>1, <2>2, ReconnectFacts DEF Keepalive, Timers
  <2> QED
    BY <1>0, <2>1, <2>3
<1>2. CASE WriteDone \/ ReadAccepted \/ ReadOther \/ ReadRefused \/ AbortedDone
  <2>1. armed' = armed /\ due' = due
    BY <1>0, <1>2, RefusedFacts DEF WriteDone, ReadAccepted, ReadOther, AbortedDone, timerVars
  <2> QED
    BY <1>0, <2>1
<1>3. CASE \E t \in Timers : Expire(t)
  BY <1>0, <1>3 DEF Expire
<1>4. CASE PingDue
  <2>1. armed' \in {armed, Keepalive} /\ due' \subseteq due
    BY <1>4 DEF PingDue, PingAgain
  <2> QED
    BY <1>0, <2>1 DEF Keepalive, Timers
<1>5. CASE BackoffDue \/ Stop \/ StopHandler \/ UNCHANGED wsVars
  BY <1>0, <1>5 DEF BackoffDue, Stop, StopHandler, wsVars, timerVars
<1> QED
  BY <1>1, <1>2, <1>3, <1>4, <1>5 DEF Next

LEMMA PendingStep ==
  ASSUME LoginsAccepted, Healthy, [Next]_wsVars
  PROVE  pending' \subseteq Operations
<1>0. pending \subseteq Operations /\ aborted \subseteq {"write"}
  BY TypeParts DEF Healthy, Collections, OneLifeline
<1>1. CASE pending' \subseteq pending \cup Operations
  BY <1>0, <1>1
<1>2. CASE ResolveDone
  BY <1>1, <1>2 DEF ResolveDone, Start, Operations
<1>3. CASE ConnectDone
  BY <1>1, <1>3 DEF ConnectDone, After, Start, Operations
<1>4. CASE HandshakeDone
  BY <1>1, <1>4 DEF HandshakeDone, Send, Start, Writes, Operations
<1>5. CASE WriteDone \/ AbortedDone
  BY <1>0, <1>1, <1>5 DEF WriteDone, AbortedDone, WriteFailed, WriteNext, Start, Writes, Operations
<1>6. CASE ReadAccepted \/ ReadOther \/ ReadRefused
  <2>1. \/ \E frame \in Frames : Send(frame, ReadAgain, pending \ {"read"}, session)
        \/ Ignored
    BY <1>6, RefusedFacts DEF ReadAccepted, ReadOther, Frames
  <2> QED
    BY <1>1, <2>1 DEF Ignored, ReadAgain, Send, Start, Writes, Operations
<1>7. CASE ReadLost
  BY <1>1, <1>7 DEF ReadLost, Start
<1>8. CASE PingDue
  BY <1>1, <1>8 DEF PingDue, Send, Start, Writes, Operations
<1>9. CASE BackoffDue
  BY <1>1, <1>9 DEF BackoffDue, linkVars
<1>10. CASE (\E t \in Timers : Expire(t)) \/ Stop \/ StopHandler \/ UNCHANGED wsVars
  BY <1>1, <1>10 DEF Expire, Stop, StopHandler, wsVars, linkVars
<1> QED
  BY <1>2, <1>3, <1>4, <1>5, <1>6, <1>7, <1>8, <1>9, <1>10 DEF Next

LEMMA QueueStep ==
  ASSUME LoginsAccepted, Healthy, [Next]_wsVars
  PROVE  queue' \in Seq(Frames) /\ Len(queue') <= MaxQueue + 1
<1>0. /\ Collections /\ OneWrite /\ SocketIsFresh /\ LoginFirst
      /\ queue \in Seq(Frames) /\ Len(queue) \in Nat /\ Len(queue) <= MaxQueue + 1
      /\ MaxQueue \in Nat /\ MaxQueue >= 1 /\ aborted \subseteq {"write"}
  BY TypeParts, LenProperties, WsConnectionAssumption
     DEF Healthy, Collections, OneLifeline, WsConnectionAssumption
<1>1. CASE queue' = queue
  BY <1>0, <1>1
<1>2. CASE Len(queue) <= MaxQueue /\ \E frame \in Frames : queue' = Append(queue, frame)
  <2>1. PICK frame \in Frames : queue' = Append(queue, frame)
    BY <1>2
  <2>2. queue' \in Seq(Frames) /\ Len(queue') = Len(queue) + 1
    BY <1>0, <2>1, AppendProperties
  <2> QED
    BY <1>0, <1>2, <2>2
<1>3. CASE queue # <<>> /\ queue' = Tail(queue)
  <2>1. queue' \in Seq(Frames) /\ Len(queue') = Len(queue) - 1
    BY <1>0, <1>3, HeadTailProperties
  <2> QED
    BY <1>0, <2>1
<1>4. CASE HandshakeDone
  <2>1. session = "none" /\ aborted = {}
    BY <1>0, <1>4 DEF HandshakeDone, Completes, SocketIsFresh, Chain
  <2>2. queue = <<>>
    BY <1>0, <2>1 DEF SocketIsFresh, OneWrite
  <2>3. Len(queue) <= MaxQueue
    BY <1>0, <2>2
  <2> QED
    BY <1>1, <1>2, <1>4, <2>3, FirstFrameType DEF HandshakeDone, Send, writeVars
<1>5. CASE WriteDone \/ AbortedDone
  <2>1. "write" \in pending \cup aborted /\ queue' = Tail(queue)
    BY <1>0, <1>5 DEF WriteDone, AbortedDone, Completes, WriteFailed, WriteNext
  <2> QED
    BY <1>0, <1>3, <2>1 DEF OneWrite
<1>6. CASE ReadAccepted
  <2>1. CASE session = "login sent" /\ queue' = Append(queue, "subscribe")
    BY <1>0, <1>2, <2>1 DEF LoginFirst, Frames
  <2> QED
    BY <1>1, <1>6, <2>1 DEF ReadAccepted, Send, Ignored, writeVars
<1>7. CASE ReadOther \/ PingDue
  <2>1. CASE Len(queue) < MaxQueue /\ \E frame \in {"ping", "pong"} : queue' = Append(queue, frame)
    BY <1>0, <1>2, <2>1 DEF Frames
  <2> QED
    BY <1>1, <1>7, <2>1 DEF ReadOther, PingDue, Send, Ignored, writeVars
<1>8. CASE ReadRefused
  BY <1>1, <1>8, RefusedFacts DEF Ignored, writeVars
<1>9. CASE ResolveDone \/ ConnectDone \/ ReadLost \/ BackoffDue
  BY <1>1, <1>9 DEF ResolveDone, ConnectDone, ReadLost, BackoffDue, writeVars
<1>10. CASE (\E t \in Timers : Expire(t)) \/ Stop \/ StopHandler \/ UNCHANGED wsVars
  BY <1>1, <1>10 DEF Expire, Stop, StopHandler, wsVars, writeVars
<1> QED
  BY <1>4, <1>5, <1>6, <1>7, <1>8, <1>9, <1>10 DEF Next

LEMMA WritingStep ==
  ASSUME LoginsAccepted, Healthy, [Next]_wsVars
  PROVE  writing' \in BOOLEAN
<1>0. writing \in BOOLEAN
  BY TypeParts DEF Healthy, Flags
<1>1. CASE writing' = writing
  BY <1>0, <1>1
<1>2. CASE writing' = TRUE \/ writing' = (queue' # <<>>)
  BY <1>2
<1>3. CASE ResolveDone \/ ConnectDone \/ HandshakeDone \/ WriteDone
  BY <1>1, <1>2, <1>3
     DEF ResolveDone, ConnectDone, HandshakeDone, WriteDone, Send, WriteNext, writeVars
<1>4. CASE ReadAccepted \/ ReadOther \/ ReadLost \/ PingDue
  BY <1>1, <1>2, <1>4 DEF ReadAccepted, ReadOther, ReadLost, PingDue, Ignored, Send, writeVars
<1>5. CASE ReadRefused
  BY <1>1, <1>5, RefusedFacts DEF Ignored, writeVars
<1>6. CASE BackoffDue \/ AbortedDone
  BY <1>1, <1>2, <1>6 DEF BackoffDue, AbortedDone, WriteFailed, WriteNext, writeVars
<1>7. CASE (\E t \in Timers : Expire(t)) \/ Stop \/ StopHandler \/ UNCHANGED wsVars
  BY <1>1, <1>7 DEF Expire, Stop, StopHandler, wsVars, writeVars
<1> QED
  BY <1>3, <1>4, <1>5, <1>6, <1>7 DEF Next

LEMMA OverlapStep ==
  ASSUME LoginsAccepted, Healthy, [Next]_wsVars
  PROVE  overlap' \in BOOLEAN
<1>0. overlap \in BOOLEAN
  BY TypeParts DEF Healthy, Flags
<1>1. CASE overlap' = overlap
  BY <1>0, <1>1
<1>2. CASE \E ops, left : Start(ops, left)
  BY <1>2 DEF Start
<1>3. CASE ResolveDone \/ ConnectDone \/ HandshakeDone \/ WriteDone
  BY <1>1, <1>2, <1>3
     DEF ResolveDone, ConnectDone, HandshakeDone, WriteDone, Send, WriteNext
<1>4. CASE ReadAccepted \/ ReadOther \/ ReadLost \/ PingDue
  BY <1>1, <1>2, <1>4 DEF ReadAccepted, ReadOther, ReadLost, PingDue, Ignored, Send
<1>5. CASE ReadRefused
  BY <1>2, <1>5, RefusedFacts DEF Ignored
<1>6. CASE BackoffDue \/ AbortedDone
  BY <1>1, <1>2, <1>6 DEF BackoffDue, AbortedDone, WriteFailed, WriteNext
<1>7. CASE (\E t \in Timers : Expire(t)) \/ Stop \/ StopHandler \/ UNCHANGED wsVars
  BY <1>1, <1>7 DEF Expire, Stop, StopHandler, wsVars
<1> QED
  BY <1>3, <1>4, <1>5, <1>6, <1>7 DEF Next

LEMMA TypeStep ==
  ASSUME LoginsAccepted, Healthy, [Next]_wsVars
  PROVE  TypeOK'
<1>1. OneLifeline' /\ OneWrite'
  BY LifelineStep, OneWriteStep
<1>2. Numbers'
  <2>1. resolving' \in 0..MaxResolving
    BY <1>1 DEF OneLifeline, MaxResolving
  <2> QED
    BY <2>1, AttemptsStep, HistoryStep DEF Numbers
<1>3. Collections'
  <2>1. aborted' \subseteq Operations
    BY <1>1 DEF OneLifeline, Operations
  <2> QED
    BY <2>1, TimersStep, PendingStep, QueueStep DEF Collections
<1>4. Flags'
  <2>1. overlap' \in BOOLEAN
    BY OverlapStep
  <2>2. writing' \in BOOLEAN
    BY WritingStep
  <2> QED
    BY <2>1, <2>2, AttemptsStep, FlagsStep, Zenon DEF Flags
<1> QED
  BY <1>2, <1>3, <1>4, ZenonT(30) DEF TypeOK, Numbers, Collections, Flags

-----------------------------------------------------------------------------
(* The theorems *)

LEMMA HealthyInv ==
  ASSUME LoginsAccepted
  PROVE  Spec => []Healthy
<1>1. Init => Healthy
  BY InitHealthy
<1>2. Healthy /\ [Next]_wsVars => Healthy'
  BY LifelineStep, OneWriteStep, SocketStep, LoginFirstStep, KeepaliveStep, AttemptsStep, TypeStep
     DEF Healthy
<1> QED
  BY <1>1, <1>2, PTL DEF Spec

(* The variables have their types; in particular the attempt counter never  *)
(* runs past the bound at which schedule_reconnect gives up, and the write  *)
(* queue never holds more than the frames the handlers are allowed to add.  *)
THEOREM ConnectionTypeCorrect ==
  ASSUME LoginsAccepted
  PROVE  Spec => []TypeOK
<1>1. Healthy => TypeOK
  BY DEF Healthy
<1> QED
  BY <1>1, HealthyInv, PTL

(* No operation is started on a socket that has one of its kind pending,    *)
(* and at most one attempt to connect is under way, whatever is lost, timed *)
(* out or aborted (async_read, async_write and schedule_reconnect of both   *)
(* clients).                                                                *)
THEOREM OneOfEachKind ==
  ASSUME LoginsAccepted
  PROVE  Spec => []OneAtATime
<1>1. ASSUME Healthy PROVE OneAtATime
  <2>1. ~overlap /\ OneLifeline
    BY <1>1 DEF Healthy, OneWrite
  <2>2. CASE pending \cap {"connect", "ssl", "handshake"} = {}
    <3>1. Cardinality(pending \cap {"connect", "ssl", "handshake"}) = 0
      BY <2>2, FS_EmptySet
    <3> QED
      BY <2>1, <3>1 DEF OneAtATime, OneLifeline
  <2>3. ASSUME NEW op \in pending \cap {"connect", "ssl", "handshake"}
        PROVE  OneAtATime
    <3>1. op \in Lifeline
      BY DEF Lifeline
    <3>2. Lifeline = {op} /\ resolving = 0
      BY <2>1, <3>1 DEF OneLifeline
    <3>3. pending \cap {"connect", "ssl", "handshake"} = {op}
      BY <3>2 DEF Lifeline
    <3>4. Cardinality({op}) = 1
      BY FS_Singleton
    <3> QED
      BY <2>1, <3>2, <3>3, <3>4 DEF OneAtATime
  <2> QED
    BY <2>2, <2>3
<1> QED
  BY <1>1, HealthyInv, PTL

(* The login, on the public stream the subscription, is the first frame a   *)
(* server receives: on_ws_handshake queues it behind nothing of an earlier  *)
(* connection.                                                              *)
THEOREM LoginComesFirst ==
  ASSUME LoginsAccepted
  PROVE  Spec => []FirstThingsFirst
<1>1. Healthy => FirstThingsFirst
  BY DEF Healthy, LoginFirst
<1> QED
  BY <1>1, HealthyInv, PTL

(* A connection that is up and not being stopped has its keepalive timer    *)
(* waiting or its handler about to run, although schedule_reconnect cancels *)
(* it on every disconnect.                                                  *)
THEOREM KeepaliveNeverStops ==
  ASSUME LoginsAccepted
  PROVE  Spec => []KeepaliveRuns
<1>1. Healthy => KeepaliveRuns
  BY DEF Healthy
<1> QED
  BY <1>1, HealthyInv, PTL

-----------------------------------------------------------------------------
(* A connection is never stranded *)

(* Something is under way that ends, and by whose end the stream goes on or *)
(* comes back.                                                              *)
Underway ==
  resolving > 0 \/ pending \cap Lifelines # {} \/ "backoff" \in armed \cup due

NeverStranded == fatal \/ Stopping \/ Underway

Resolutions == resolving \in Nat

LEMMA ScheduleArms ==
  ASSUME ScheduleReconnect, ~Stopping, ~fatal'
  PROVE  "backoff" \in armed'
  BY DEF ScheduleReconnect

(* Nothing follows the end of the io_context, and a stop is not taken back. *)
LEMMA StillGoing ==
  ASSUME [Next]_wsVars, ~fatal', ~Stopping'
  PROVE  ~fatal /\ ~Stopping
<1>1. CASE UNCHANGED wsVars
  BY <1>1 DEF wsVars, Stopping
<1>2. CASE Stop \/ StopHandler
  BY <1>2 DEF Stop, StopHandler, Stopping
<1>3. CASE ResolveDone \/ ConnectDone \/ HandshakeDone \/ WriteDone
  BY <1>3 DEF ResolveDone, ConnectDone, HandshakeDone, WriteDone, Completes, Stopping
<1>4. CASE ReadAccepted \/ ReadRefused \/ ReadOther \/ ReadLost
  <2>1. ~fatal
    BY <1>4, Zenon DEF ReadAccepted, ReadRefused, ReadOther, ReadLost, Completes
  <2>2. stopping' = stopping
    BY <1>4, Zenon DEF ReadAccepted, ReadRefused, ReadOther, ReadLost
  <2> QED BY <2>1, <2>2 DEF Stopping
<1>5. CASE (\E t \in Timers : Expire(t)) \/ PingDue \/ BackoffDue \/ AbortedDone
  BY <1>5 DEF Expire, PingDue, BackoffDue, AbortedDone, Stopping
<1> QED BY <1>1, <1>2, <1>3, <1>4, <1>5 DEF Next

LEMMA StrandedStep ==
  ASSUME Resolutions, NeverStranded, [Next]_wsVars
  PROVE  Resolutions' /\ NeverStranded'
<1>1. Resolutions'
  <2>1. CASE ResolveDone
    BY <2>1 DEF ResolveDone, Resolutions
  <2>2. CASE BackoffDue
    BY <2>2 DEF BackoffDue, linkVars, Resolutions
  <2>3. CASE ReadAccepted \/ ReadRefused \/ ReadOther \/ ReadLost
    <3>1. resolving' = resolving
      BY <2>3, Zenon DEF ReadAccepted, ReadRefused, ReadOther, ReadLost
    <3> QED BY <3>1 DEF Resolutions
  <2>4. CASE ConnectDone \/ HandshakeDone \/ WriteDone \/ PingDue \/ AbortedDone
    BY <2>4 DEF ConnectDone, HandshakeDone, WriteDone, PingDue, AbortedDone, Resolutions
  <2>5. CASE (\E t \in Timers : Expire(t)) \/ Stop \/ StopHandler \/ UNCHANGED wsVars
    BY <2>5 DEF Expire, Stop, StopHandler, linkVars, wsVars, Resolutions
  <2> QED BY <2>1, <2>2, <2>3, <2>4, <2>5 DEF Next
<1> SUFFICES ASSUME ~fatal', ~Stopping' PROVE Underway'
  BY <1>1 DEF NeverStranded
<1>2. ~fatal /\ ~Stopping /\ Underway
  BY StillGoing DEF NeverStranded
<1>3. ReadAgain = {"read"}
  BY <1>2 DEF ReadAgain
(* A handler that starts the next operation of the chain, or the read. *)
<1>4. ASSUME NEW ops, NEW left, NEW op \in Lifelines, op \in ops, Start(ops, left)
      PROVE  Underway'
  BY <1>4 DEF Start, Underway
<1>5. ASSUME NEW frame, NEW left, NEW sess, Send(frame, {"read"}, left, sess)
      PROVE  Underway'
  <2>1. Start({"read"} \cup Writes(WriteNow, sess), left)
    BY <1>5 DEF Send
  <2> QED BY <1>4, <2>1 DEF Lifelines
(* A handler that schedules a reconnect. *)
<1>6. ASSUME ScheduleReconnect PROVE Underway'
  BY <1>2, <1>6, ScheduleArms DEF Underway
(* A handler that only writes. *)
<1>7. ASSUME pending \ {"write"} \subseteq pending', armed \subseteq armed',
             due \ {"ping"} \subseteq due', resolving' = resolving
      PROVE  Underway'
  <2>1. "write" \notin Lifelines
    BY DEF Lifelines, Chain
  <2> QED BY <1>2, <1>7, <2>1 DEF Underway
<1>8. CASE ResolveDone
  <2>1. Start({"connect"}, pending) \/ ScheduleReconnect
    BY <1>8 DEF ResolveDone
  <2> QED BY <1>4, <1>6, <2>1 DEF Lifelines, Chain
<1>9. CASE ConnectDone
  <2>1. ScheduleReconnect \/ \E op \in DOMAIN After : Start({After[op]}, pending \ {op})
    BY <1>9 DEF ConnectDone
  <2>2. \A op \in DOMAIN After : After[op] \in Lifelines
    BY DEF After, Lifelines, Chain
  <2> QED BY <1>4, <1>6, <2>1, <2>2
<1>10. CASE HandshakeDone
  <2>1. ScheduleReconnect \/ Send(FirstFrame, {"read"}, pending \ {"handshake"}, "open")
    BY <1>10 DEF HandshakeDone
  <2> QED BY <1>5, <1>6, <2>1
<1>11. CASE WriteDone
  <2>1. UNCHANGED <<armed, due, resolving>> /\ pending \ {"write"} \subseteq pending'
    BY <1>11 DEF WriteDone, WriteNext, Start, timerVars
  <2> QED BY <1>7, <2>1
<1>12. CASE ReadAccepted \/ ReadRefused \/ ReadOther
  <2>1. \/ Ignored
        \/ Send("subscribe", ReadAgain, pending \ {"read"}, session)
        \/ Send("pong", ReadAgain, pending \ {"read"}, session)
    BY <1>12, Zenon DEF ReadAccepted, ReadRefused, ReadOther
  <2>2. Ignored => Start({"read"}, pending \ {"read"})
    BY <1>3 DEF Ignored
  <2> QED BY <1>3, <1>4, <1>5, <2>1, <2>2 DEF Lifelines
<1>13. CASE ReadLost
  BY <1>6, <1>13 DEF ReadLost
<1>14. CASE \E t \in Timers : Expire(t)
  <2>1. UNCHANGED <<pending, resolving>> /\ armed \cup due \subseteq armed' \cup due'
    BY <1>14 DEF Expire, linkVars
  <2> QED BY <1>2, <2>1 DEF Underway
<1>15. CASE PingDue
  <2>1. armed \subseteq armed' /\ due' = due \ {"ping"} /\ resolving' = resolving
    BY <1>15 DEF PingDue, PingAgain, Keepalive
  <2>2. pending \subseteq pending'
    BY <1>15 DEF PingDue, Send, Start
  <2> QED BY <1>7, <2>1, <2>2
<1>16. CASE BackoffDue
  BY <1>2, <1>16 DEF BackoffDue, Underway, Resolutions
<1>17. CASE AbortedDone
  <2>1. CASE ScheduleReconnect
    BY <1>6, <2>1
  <2>2. CASE ~ScheduleReconnect
    <3>1. PICK op \in aborted : WriteFailed(pending, aborted \ {op}) /\ UNCHANGED armed
      BY <1>17, <2>2 DEF AbortedDone
    <3>2. pending \subseteq pending' /\ UNCHANGED <<due, resolving>>
      BY <1>17, <3>1 DEF AbortedDone, WriteFailed, WriteNext, Start
    <3> QED BY <1>7, <3>1, <3>2
  <2> QED BY <2>1, <2>2
<1>18. CASE Stop \/ StopHandler
  BY <1>18 DEF Stop, StopHandler, Stopping
<1>19. CASE UNCHANGED wsVars
  BY <1>2, <1>19 DEF wsVars, linkVars, timerVars, Underway
<1> QED
  BY <1>8, <1>9, <1>10, <1>11, <1>12, <1>13, <1>14, <1>15, <1>16, <1>17, <1>18, <1>19 DEF Next

(* Until it is stopped or has given up, a stream always has a name          *)
(* resolution, an operation of the connect chain, the read or a backoff     *)
(* under way, refused logins or not: no handler returns without having      *)
(* started what brings the stream back (on_read, schedule_reconnect and     *)
(* the connect handlers of both clients).                                   *)
THEOREM StreamIsNeverStranded == Spec => []NeverStranded
<1>1. Init => Resolutions /\ NeverStranded
  BY DEF Init, Resolutions, NeverStranded, Underway
<1>2. Resolutions /\ NeverStranded /\ [Next]_wsVars => Resolutions' /\ NeverStranded'
  BY StrandedStep
<1> QED BY <1>1, <1>2, PTL DEF Spec

=============================================================================
