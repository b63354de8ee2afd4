---------------------------- MODULE WsConnection ----------------------------
(***************************************************************************)
(* The WebSocket connections of the engine: OkxWsConnection, the public    *)
(* market data stream (src/market_data/okx_ws_client.cpp), and             *)
(* OkxPrivateWsConnection, the account's stream, which logs in before it   *)
(* subscribes (src/market_data/okx_private_ws_client.cpp).  They share     *)
(* their design: asynchronous operations whose completion handlers run one *)
(* at a time on a strand, a queue of outgoing frames, a keepalive timer, a *)
(* backoff timer and a bounded number of attempts to reconnect.            *)
(*                                                                         *)
(* A reconnect replaces ws_, which aborts what is pending on the old       *)
(* socket: those handlers still run, with an error, before anything        *)
(* started later completes.  A timer that has expired can no longer be     *)
(* cancelled.  The length of a backoff and the content of the channels are *)
(* left out: handlers of data frames change nothing here.                  *)
(***************************************************************************)
EXTENDS Naturals, Sequences, FiniteSets

CONSTANTS
  Clients,     (* the streams of an instance, of {"public", "private"}      *)
  MaxAttempts, (* reconnect.max_attempts                                    *)
  Refusable,   (* requests, of {"login", "subscribe"}, the exchange may refuse *)
  MaxDrops,    (* bound: established connections lost                       *)
  MaxQueue     (* bound: frames waiting to be written                       *)

ASSUME WsConnectionAssumption ==
  /\ Clients \subseteq {"public", "private"} /\ Clients # {}
  /\ MaxAttempts \in Nat /\ MaxDrops \in Nat /\ MaxQueue \in Nat \ {0}
  /\ Refusable \subseteq {"login", "subscribe"}

VARIABLES
  client,    (* which of the two streams this is                          *)
  resolving, (* name resolutions pending                                  *)
  pending,   (* operations pending on ws_                                 *)
  aborted,   (* operations of a replaced ws_, or on a closed one, whose   *)
             (* handlers have yet to run                                  *)
  armed,     (* timers waiting                                            *)
  due,       (* timers expired, their handlers yet to run                 *)
  queue,     (* write_queue_                                              *)
  writing,   (* writing_                                                  *)
  attempt,   (* attempt_                                                  *)
  loggedIn,  (* logged_in_                                                *)
  session,   (* the server's view of the socket ws_                       *)
  stopping,  (* stopping_, and the handler stop() posts                   *)
  fatal,     (* on_fatal_ has been called: the breaker has tripped and    *)
             (* the io_context has stopped                                *)
  drops,     (* established connections lost so far                       *)
  overlap,   (* history: an operation was started on a socket that had    *)
             (* one of its kind pending                                   *)
  refused    (* history: logins refused since the last one that succeeded *)

linkVars == <<resolving, pending, aborted>>
timerVars == <<armed, due>>
writeVars == <<queue, writing>>
wsVars == <<client, linkVars, timerVars, writeVars, attempt, loggedIn, session, stopping,
            fatal, drops, overlap, refused>>

Operations == {"connect", "ssl", "handshake", "read", "write"}
Timers == {"backoff", "ping"}
Frames == {"login", "subscribe", "ping", "pong"}
(* Sessions of a connected socket: nothing received yet, a login or a       *)
(* subscription received and not answered, logged in, subscribed, refused.  *)
Open == {"open", "login sent", "in", "subscribe sent", "subscribed", "refused"}
Sessions == Open \cup {"none", "closed"}

Init ==
  /\ client \in Clients
  /\ resolving = 1 /\ pending = {} /\ aborted = {}
  /\ armed = {} /\ due = {}
  /\ queue = <<>> /\ writing = FALSE
  /\ attempt = 0 /\ loggedIn = FALSE
  /\ session = "none"
  /\ stopping = "no" /\ fatal = FALSE
  /\ drops = 0 /\ overlap = FALSE /\ refused = 0

Stopping == stopping # "no"

(* Operations ops are started on ws_, where those in left are pending. *)
Start(ops, left) ==
  /\ pending' = left \cup ops
  /\ overlap' = (overlap \/ ops \cap left # {})

(* What completes on the network does so after every aborted handler. *)
Completes(op) == ~fatal /\ aborted = {} /\ op \in pending

-----------------------------------------------------------------------------
(* schedule_reconnect *)

NotCounted == attempt
Counted == attempt + 1

ExhaustedLate(n) == n > MaxAttempts + 1
Exhausted(n) == n > MaxAttempts

ScheduleReconnect ==
  IF Stopping THEN UNCHANGED <<armed, attempt, fatal>>
  ELSE /\ attempt' = Counted
       /\ fatal' = Exhausted(attempt')
       /\ armed' = (armed \ {"ping"}) \cup (IF fatal' THEN {} ELSE {"backoff"})

-----------------------------------------------------------------------------
(* The write queue.  A write on a socket that is not connected fails at     *)
(* once.                                                                    *)

WriteAtOnce == TRUE
WriteNow == ~writing

Writes(more, sess) == IF more /\ sess \in Open THEN {"write"} ELSE {}
Bounces(more, sess) == IF more /\ sess \notin Open THEN {"write"} ELSE {}

(* enqueue_write by a handler that also starts ops. *)
Send(frame, ops, left, sess) ==
  /\ queue' = Append(queue, frame)
  /\ writing' = TRUE
  /\ Start(ops \cup Writes(WriteNow, sess), left)
  /\ aborted' = aborted \cup Bounces(WriteNow, sess)

(* The handler of a write: the frame is dropped from the queue whether it   *)
(* was sent or not, and the next one is written.                            *)
WriteNext(left, unrun) ==
  /\ queue' = Tail(queue)
  /\ writing' = (queue' # <<>>)
  /\ Start(Writes(writing', session), left)
  /\ aborted' = unrun \cup Bounces(writing', session)

(* What the server makes of the frame it receives. *)
Asked == [login |-> "login sent", subscribe |-> "subscribe sent"]

Received(frame) ==
  IF frame \in DOMAIN Asked /\ session \in {"open", "in"} THEN Asked[frame] ELSE session

KeepUnsent(left, unrun) ==
  /\ writing' = FALSE
  /\ Start({}, left)
  /\ aborted' = unrun
  /\ UNCHANGED queue
WriteFailed(left, unrun) == WriteNext(left, unrun)

WriteDone ==
  /\ Completes("write")
  /\ session' = Received(Head(queue))
  /\ WriteNext(pending \ {"write"}, aborted)
  /\ UNCHANGED <<client, resolving, timerVars, attempt, loggedIn, stopping, fatal, drops,
                 refused>>

-----------------------------------------------------------------------------
(* Connecting: on_resolve, on_connect, on_ssl_handshake, on_ws_handshake.   *)
(* None of them looks at stopping_.                                         *)

ResolveDone ==
  /\ ~fatal /\ aborted = {} /\ resolving > 0
  /\ resolving' = resolving - 1
  /\ \/ Start({"connect"}, pending) /\ UNCHANGED <<armed, attempt, fatal>>
     \/ ScheduleReconnect /\ UNCHANGED <<pending, overlap>>
  /\ UNCHANGED <<client, aborted, due, writeVars, loggedIn, session, stopping, drops, refused>>

After == [connect |-> "ssl", ssl |-> "handshake"]

ConnectDone ==
  /\ \E op \in DOMAIN After :
       /\ Completes(op)
       /\ \/ Start({After[op]}, pending \ {op}) /\ UNCHANGED <<armed, attempt, fatal>>
          \/ ScheduleReconnect /\ Start({}, pending \ {op})
  /\ UNCHANGED <<client, resolving, aborted, due, writeVars, loggedIn, session, stopping,
                 drops, refused>>

(* arm_ping_timer *)
Keepalive == IF Stopping THEN armed ELSE armed \cup {"ping"}

FirstFrame == IF client = "private" THEN "login" ELSE "subscribe"

HandshakeDone ==
  /\ Completes("handshake")
  /\ \/ /\ attempt' = 0
        /\ loggedIn' = FALSE
        /\ session' = "open"
        /\ Send(FirstFrame, {"read"}, pending \ {"handshake"}, "open")
        /\ armed' = Keepalive
        /\ UNCHANGED fatal
     \/ /\ ScheduleReconnect
        /\ Start({}, pending \ {"handshake"})
        /\ UNCHANGED <<aborted, writeVars, loggedIn, session>>
  /\ UNCHANGED <<client, resolving, due, stopping, drops, refused>>

-----------------------------------------------------------------------------
(* on_read *)

ReadForever == {"read"}
ReadAgain == IF Stopping THEN {} ELSE {"read"}

(* A data frame, an acknowledgement or one that does not parse. *)
Ignored == Start(ReadAgain, pending \ {"read"}) /\ UNCHANGED <<writeVars, aborted>>

(* The server accepts what it was asked. *)
ReadAccepted ==
  /\ Completes("read")
  /\ \/ /\ session = "login sent"
        /\ session' = "in" /\ loggedIn' = TRUE /\ refused' = 0
        /\ Send("subscribe", ReadAgain, pending \ {"read"}, session)
     \/ /\ session = "subscribe sent"
        /\ session' = "subscribed"
        /\ Ignored
        /\ UNCHANGED <<loggedIn, refused>>
  /\ UNCHANGED <<client, resolving, timerVars, attempt, stopping, fatal, drops>>

(* It refuses: a refused login schedules a reconnect while the read goes    *)
(* on; a refused subscription is fatal to the public stream and only logged *)
(* by the private one.                                                      *)
ReadRefused ==
  /\ Completes("read")
  /\ \E asked \in Refusable :
       /\ session = Asked[asked]
       /\ IF asked = "login"
          THEN /\ refused' = IF refused > MaxAttempts THEN refused ELSE refused + 1
               /\ ScheduleReconnect
          ELSE fatal' = (client = "public") /\ UNCHANGED <<armed, attempt, refused>>
  /\ session' = "refused"
  /\ Ignored
  /\ UNCHANGED <<client, resolving, due, loggedIn, stopping, drops>>

(* The server's own "ping", or any other frame. *)
ReadOther ==
  /\ Completes("read") /\ session \in Open
  /\ \/ Len(queue) < MaxQueue /\ Send("pong", ReadAgain, pending \ {"read"}, session)
     \/ Ignored
  /\ UNCHANGED <<client, resolving, timerVars, attempt, loggedIn, session, stopping, fatal,
                 drops, refused>>

(* The connection is lost; the server may close one it has refused. *)
ReadLost ==
  /\ Completes("read")
  /\ \/ session \in {"closed", "refused"} /\ UNCHANGED drops
     \/ session \in Open \ {"refused"} /\ drops < MaxDrops /\ drops' = drops + 1
  /\ session' = "closed"
  /\ ScheduleReconnect
  /\ Start({}, pending \ {"read"})
  /\ UNCHANGED <<client, resolving, aborted, due, writeVars, loggedIn, stopping, refused>>

-----------------------------------------------------------------------------
(* Timers.  Handlers that are ready run before a timer expires: they take   *)
(* microseconds, the timers half a second and more.                         *)

Expire(t) ==
  /\ ~fatal /\ t \in armed /\ aborted = {}
  /\ armed' = armed \ {t}
  /\ due' = due \cup {t}
  /\ UNCHANGED <<client, linkVars, writeVars, attempt, loggedIn, session, stopping, fatal,
                 drops, overlap, refused>>

PingOnce == armed
PingAgain == Keepalive

PingDue ==
  /\ ~fatal /\ "ping" \in due
  /\ due' = due \ {"ping"}
  /\ \/ Stopping /\ UNCHANGED <<armed, pending, aborted, writeVars, overlap>>
     \/ /\ ~Stopping /\ Len(queue) < MaxQueue
        /\ Send("ping", {}, pending, session)
        /\ armed' = PingAgain
  /\ UNCHANGED <<client, resolving, attempt, loggedIn, session, stopping, fatal, drops, refused>>

(* reset_and_reconnect: a new ws_; what the old one had pending is aborted. *)
(* The name resolution of an earlier attempt would go on.                   *)
MaxResolving == 2

BackoffDue ==
  /\ ~fatal /\ "backoff" \in due
  /\ due' = due \ {"backoff"}
  /\ \/ Stopping /\ UNCHANGED <<linkVars, session>>
     \/ /\ ~Stopping /\ resolving < MaxResolving
        /\ resolving' = resolving + 1
        /\ aborted' = aborted \cup pending
        /\ pending' = {}
        /\ session' = "none"
  /\ UNCHANGED <<client, armed, writeVars, attempt, loggedIn, stopping, fatal, drops, overlap,
                 refused>>

(* The handler of an aborted operation runs, with an error. *)
AbortedDone ==
  /\ ~fatal
  /\ \E op \in aborted :
       IF op = "write"
       THEN /\ WriteFailed(pending, aborted \ {op})
            /\ UNCHANGED <<armed, attempt, fatal>>
       ELSE /\ ScheduleReconnect
            /\ aborted' = aborted \ {op}
            /\ UNCHANGED <<pending, writeVars, overlap>>
  /\ UNCHANGED <<client, resolving, due, loggedIn, session, stopping, drops, refused>>

-----------------------------------------------------------------------------
(* stop(), then the handler it posts *)

Stop ==
  /\ ~fatal /\ stopping = "no"
  /\ stopping' = "called"
  /\ UNCHANGED <<client, linkVars, timerVars, writeVars, attempt, loggedIn, session, fatal,
                 drops, overlap, refused>>

StopHandler ==
  /\ ~fatal /\ stopping = "called"
  /\ stopping' = "done"
  /\ armed' = {}
  /\ session' = IF session \in Open THEN "closed" ELSE session
  /\ UNCHANGED <<client, linkVars, due, writeVars, attempt, loggedIn, fatal, drops, overlap,
                 refused>>

-----------------------------------------------------------------------------

Next ==
  \/ ResolveDone \/ ConnectDone \/ HandshakeDone
  \/ WriteDone \/ ReadAccepted \/ ReadRefused \/ ReadOther \/ ReadLost
  \/ (\E t \in Timers : Expire(t)) \/ PingDue \/ BackoffDue \/ AbortedDone
  \/ Stop \/ StopHandler

Spec == Init /\ [][Next]_wsVars

(* The io_context runs every handler that is ready; an operation on the     *)
(* network ends, in success or failure, and a backoff expires, however many *)
(* keepalive frames, one every 25 s, come between; the server answers a     *)
(* login and a subscription.                                                *)
ReadClosed == session = "closed" /\ ReadLost
Fairness ==
  /\ SF_wsVars(ResolveDone) /\ SF_wsVars(ConnectDone) /\ SF_wsVars(HandshakeDone)
  /\ SF_wsVars(WriteDone) /\ SF_wsVars(ReadAccepted) /\ SF_wsVars(ReadClosed)
  /\ SF_wsVars(Expire("backoff")) /\ WF_wsVars(PingDue) /\ WF_wsVars(BackoffDue)
  /\ WF_wsVars(AbortedDone) /\ WF_wsVars(StopHandler)

FairSpec == Spec /\ Fairness

-----------------------------------------------------------------------------
(* Properties *)

(* The type of every variable. *)
TypeOK ==
  /\ client \in Clients
  /\ resolving \in 0..MaxResolving
  /\ pending \subseteq Operations /\ aborted \subseteq Operations
  /\ armed \subseteq Timers /\ due \subseteq Timers
  /\ queue \in Seq(Frames) /\ Len(queue) <= MaxQueue + 1
  /\ writing \in BOOLEAN /\ loggedIn \in BOOLEAN
  /\ attempt \in 0..(MaxAttempts + 1)
  /\ session \in Sessions
  /\ stopping \in {"no", "called", "done"}
  /\ fatal \in BOOLEAN /\ overlap \in BOOLEAN
  /\ drops \in 0..MaxDrops /\ refused \in 0..(MaxAttempts + 1)

(* While the exchange refuses no login, no operation is ever started on a    *)
(* socket that has one of its kind pending (Beast allows one read and one   *)
(* write at a time), through keepalives, pongs, lost connections and        *)
(* reconnects, and at most one attempt to connect is under way.             *)
OneAtATime ==
  /\ ~overlap
  /\ resolving + Cardinality(pending \cap {"connect", "ssl", "handshake"}) <= 1

(* The first frame a server receives on a new connection is the login (the  *)
(* subscription of the public stream): nothing queued for an earlier        *)
(* connection survives into it.                                             *)
FirstThingsFirst ==
  session = "open" => queue # <<>> /\ Head(queue) = FirstFrame

(* As long as a connection is up and not being stopped its keepalive runs,  *)
(* although every disconnect cancels the timer.                             *)
KeepaliveRuns == session \in Open /\ ~Stopping => "ping" \in armed \cup due

(* An interrupted stream is subscribed again, or the breaker trips; the     *)
(* private stream whose subscription is refused stays up without data.      *)
Recovers == session # "subscribed" ~> session \in {"subscribed", "refused"} \/ fatal \/ Stopping

(* After stop() the connection runs out of work, whatever it was doing, so  *)
(* that io_context::run returns and main goes on to its shutdown.           *)
NoWork == resolving = 0 /\ pending = {} /\ aborted = {} /\ armed = {} /\ due = {}
StopDrains == Stopping ~> fatal \/ []NoWork

(* okx_private_ws_client.cpp, handle_login_failure: attempt_ and            *)
(* max_attempts cover the exhaustion of logins too: more refusals in a row  *)
(* than attempts allowed trip the breaker.                                  *)
RefusalsExhaust == refused > MaxAttempts => fatal

=============================================================================
