---------------------------- MODULE CryptoStream ----------------------------
(***************************************************************************)
(* AlpacaCryptoMarketSource (alpaca-crypto.server.ts): the BTC/USD bar      *)
(* stream, its reconnects, and the callbacks of sockets it has replaced.    *)
(*                                                                         *)
(* A generation number is only ever compared with the current one, so the   *)
(* model keeps who holds the current one: a socket's callbacks, the pending *)
(* reconnect, or nobody.  A closed socket whose messages are used up gives  *)
(* its slot back.  A payload is decoded (websocketPayloadToText) between    *)
(* Receive and Decoded.                                                    *)
(***************************************************************************)
EXTENDS Naturals, Sequences, FiniteSets

CONSTANTS
  Slots,     \* sockets that exist at once
  Budget,    \* CRYPTO_MAX_RECONNECT_ATTEMPTS
  MaxQueue,  \* MAX_QUEUED_BARS
  MaxInbox   \* bound: messages of a socket waiting to be decoded

Nobody == "nobody"
Backoff == "backoff"

ASSUME StreamBounds ==
  /\ Cardinality(Slots) >= 2 /\ {Nobody, Backoff} \cap Slots = {}
  /\ {Budget, MaxQueue, MaxInbox} \subseteq Nat /\ MaxQueue > 0

VARIABLES
  src,       \* the source object
  sock,      \* slot -> the socket in it, its listeners' local variables and its undecoded messages
  consumer   \* the loop of bars(): "none", "run", "wait" (for wake), "given" (a bar yielded), "done"

vars == <<src, sock, consumer>>

NoSocket == [phase |-> "NONE", active |-> FALSE, auth |-> FALSE, sub |-> FALSE, inbox |-> << >>]

Init ==
  /\ src = [state |-> "DISCONNECTED", ack |-> FALSE, gen |-> Nobody, attempt |-> 0, running |-> FALSE, closed |-> FALSE,
            failed |-> FALSE, socket |-> Nobody, timer |-> Nobody, queue |-> 0]
  /\ sock = [s \in Slots |-> NoSocket]
  /\ consumer = "none"

\* Mutant: nobody calls signal().
Unsignalled == consumer
\* signal()
Woken == IF consumer = "wait" THEN "run" ELSE consumer
Shut(socks, s) == IF s \in Slots /\ socks[s].phase = "OPEN" THEN [socks EXCEPT ![s].phase = "CLOSING"] ELSE socks

Stale(s) == ~sock[s].active \/ ~src.running \/ src.closed \/ src.gen # s

----------------------------------------------------------------------------
\* Mutant: the handshake has no timer.
ConnectingUntimed(x, s) == [x EXCEPT !.state = "CONNECTING", !.gen = s, !.socket = s]
Connecting(x, s) == [x EXCEPT !.state = "CONNECTING", !.gen = s, !.socket = s, !.timer = s]

\* Mutant: a terminal failure leaves the generation to the reconnect that is under way.
FailedInPlace(x) ==
  [x EXCEPT !.state = "FAILED", !.ack = FALSE, !.queue = 0, !.failed = TRUE, !.socket = Nobody, !.timer = Nobody]
\* failTerminal(), for the holder of the current generation.
FailTerminal(x) ==
  IF x.closed \/ x.failed THEN x
  ELSE [x EXCEPT !.state = "FAILED", !.ack = FALSE, !.queue = 0, !.failed = TRUE, !.gen = Nobody,
                 !.socket = Nobody, !.timer = Nobody]

\* connect(): createSocket() may throw.
Connect(x) ==
  \/ \E s \in Slots :
       /\ sock[s].phase = "NONE"
       /\ src' = Connecting(x, s)
       /\ sock' = [sock EXCEPT ![s] = [NoSocket EXCEPT !.phase = "OPEN", !.active = TRUE]]
  \/ src' = FailTerminal(x) /\ sock' = Shut(sock, x.socket)

\* scheduleReconnect(): bars of the lost connection that nobody took are dropped.
ScheduleReconnect(x) ==
  IF x.attempt >= Budget THEN FailTerminal(x)
  ELSE [x EXCEPT !.state = "RECONNECTING", !.ack = FALSE, !.queue = 0, !.gen = Backoff, !.attempt = @ + 1]

\* close()
ClosedSource(x) ==
  [x EXCEPT !.ack = FALSE, !.queue = 0, !.closed = TRUE, !.running = FALSE, !.gen = Nobody, !.socket = Nobody,
            !.timer = Nobody, !.state = IF x.failed THEN "FAILED" ELSE "CLOSED"]

----------------------------------------------------------------------------
\* bars(), which the worker calls once and never after close().
Bars ==
  /\ consumer = "none" /\ ~src.closed
  /\ Connect([src EXCEPT !.running = TRUE])
  /\ consumer' = "run"

\* One turn of its loop; the finally block closes the source.
Loop ==
  /\ consumer = "run"
  /\ \/ /\ src.failed \/ src.closed
        /\ src' = ClosedSource(src) /\ sock' = Shut(sock, src.socket) /\ consumer' = "done"
     \/ /\ ~src.failed /\ ~src.closed
        /\ src' = [src EXCEPT !.queue = IF @ > 0 THEN @ - 1 ELSE 0]
        /\ consumer' = IF src.queue > 0 THEN "given" ELSE "wait"
        /\ UNCHANGED sock
\* The worker has processed the bar it was given and asks for the next.
AskNext == consumer = "given" /\ consumer' = "run" /\ UNCHANGED <<src, sock>>

Close ==
  /\ src.running \/ src.state # "CLOSED"
  /\ src' = ClosedSource(src) /\ sock' = Shut(sock, src.socket) /\ consumer' = Woken

----------------------------------------------------------------------------
\* transportFailure(): of the error and close events and of the handshake timer.
TransportFailure(s, socks) ==
  IF Stale(s) THEN sock' = socks /\ UNCHANGED <<src, consumer>>
  ELSE /\ src' = ScheduleReconnect([src EXCEPT !.timer = Nobody])
       /\ sock' = Shut([socks EXCEPT ![s].active = FALSE], s)
       /\ consumer' = Woken

ErrorEvent(s) == sock[s].phase = "OPEN" /\ TransportFailure(s, sock)
CloseEvent(s) ==
  sock[s].phase \in {"OPEN", "CLOSING"} /\ TransportFailure(s, [sock EXCEPT ![s].phase = "CLOSED"])
HandshakeTimeout(s) == src.timer = s /\ TransportFailure(s, sock)
\* Nothing refers to the socket any more.
Forgotten(s) ==
  /\ sock[s].phase = "CLOSED" /\ sock[s].inbox = << >> /\ src.socket # s /\ src.gen # s
  /\ sock' = [sock EXCEPT ![s] = NoSocket] /\ UNCHANGED <<src, consumer>>

\* Mutant: the next socket is opened when the delay is over.
ClosedOrNot(s) == TRUE
PhysicallyClosed(s) == s = Nobody \/ sock[s].phase = "CLOSED"

\* The delay is over and the old socket has closed.
Reconnect ==
  /\ src.gen = Backoff /\ src.running /\ ~src.closed
  /\ PhysicallyClosed(src.socket)
  /\ Connect(src)
  /\ consumer' = Woken
\* The old socket took longer than the handshake timeout to close.
CloseDeadline ==
  /\ src.gen = Backoff /\ ~PhysicallyClosed(src.socket)
  /\ src' = FailTerminal(src) /\ sock' = Shut(sock, src.socket) /\ consumer' = Woken

----------------------------------------------------------------------------
\* What the provider sends.  closedBarFromAlpacaCrypto() makes of a bar a completed BTC bar, nothing
\* ("other": another symbol or channel, or a minute still running by the local clock), or an error.
Messages == {"connected", "authenticated", "subscription", "bar", "other", "error"}

Receive(s, m) ==
  /\ sock[s].phase = "OPEN" /\ ~Stale(s) /\ Len(sock[s].inbox) < MaxInbox
  /\ sock' = [sock EXCEPT ![s].inbox = Append(@, m)]
  /\ UNCHANGED <<src, consumer>>

\* Mutant: only the socket's own flag is looked at after the decoding.
OnlyFlagged(s) == ~sock[s].active
StaleAfterDecoding(s) == Stale(s)

\* Mutant: the consumer's queue grows with what arrives.
RefusedUnbounded(s, m) ==
  m = "error" \/ (m = "authenticated" /\ ~sock[s].auth) \/ (m = "subscription" /\ ~sock[s].sub) \/ (m = "bar" /\ ~src.ack)
\* A message the protocol refuses: an error, one out of order, a malformed bar, a full queue.
Refused(s, m) ==
  \/ m = "error"
  \/ m = "authenticated" /\ ~sock[s].auth
  \/ m = "subscription" /\ ~sock[s].sub
  \/ m = "bar" /\ (~src.ack \/ src.queue >= MaxQueue)

Decoded(s) ==
  /\ sock[s].inbox # << >>
  /\ LET m == Head(sock[s].inbox)
         rest == [sock EXCEPT ![s].inbox = Tail(@)]
     IN IF StaleAfterDecoding(s) THEN sock' = rest /\ UNCHANGED <<src, consumer>>
        ELSE /\ consumer' = Woken
             /\ \/ Refused(s, m) /\ src' = FailTerminal(src) /\ sock' = Shut(rest, src.socket)
                \/ /\ ~Refused(s, m) /\ m = "connected"
                   /\ src' = IF sock[s].auth THEN src ELSE [src EXCEPT !.state = "AUTHENTICATING"]
                   /\ sock' = [rest EXCEPT ![s].auth = TRUE]
                \/ /\ ~Refused(s, m) /\ m = "authenticated"
                   /\ src' = IF sock[s].sub THEN src ELSE [src EXCEPT !.state = "SUBSCRIBING"]
                   /\ sock' = [rest EXCEPT ![s].sub = TRUE]
                \/ /\ ~Refused(s, m) /\ m = "subscription"
                   /\ src' = [src EXCEPT !.state = "SUBSCRIBED", !.ack = TRUE, !.timer = Nobody] /\ sock' = rest
                \/ /\ ~Refused(s, m) /\ m = "bar"
                   /\ src' = [src EXCEPT !.queue = @ + 1, !.attempt = 0] /\ sock' = rest
                \/ m = "other" /\ sock' = rest /\ UNCHANGED src

----------------------------------------------------------------------------
Next ==
  \/ Bars \/ Loop \/ AskNext \/ Close \/ Reconnect \/ CloseDeadline
  \/ \E s \in Slots :
       \/ ErrorEvent(s) \/ CloseEvent(s) \/ HandshakeTimeout(s) \/ Forgotten(s) \/ Decoded(s)
       \/ \E m \in Messages : Receive(s, m)

\* Timers fire, decoding ends, and the loop runs when it is woken.
Fairness ==
  /\ WF_vars(Loop) /\ WF_vars(Reconnect \/ CloseDeadline)
  /\ \A s \in Slots : WF_vars(HandshakeTimeout(s)) /\ WF_vars(Decoded(s)) /\ WF_vars(Forgotten(s))

Spec == Init /\ [][Next]_vars
FairSpec == Spec /\ Fairness

----------------------------------------------------------------------------
TypeOK ==
  /\ src.state \in {"DISCONNECTED", "CONNECTING", "AUTHENTICATING", "SUBSCRIBING", "SUBSCRIBED", "RECONNECTING", "CLOSED", "FAILED"}
  /\ src.gen \in Slots \cup {Backoff, Nobody} /\ {src.socket, src.timer} \subseteq Slots \cup {Nobody}
  /\ src.attempt \in 0..Budget /\ src.queue \in 0..MaxQueue
  /\ consumer \in {"none", "run", "wait", "given", "done"}

\* connect(): physical sockets do not overlap, however slowly close() completes.
NoOverlap == Cardinality({s \in Slots : sock[s].phase \in {"OPEN", "CLOSING"}}) <= 1

\* Late messages, errors and close events of a replaced socket do not touch its successor: an
\* acknowledgement, and every bar in the queue, is of the socket that is in use and was subscribed.
AcknowledgedIsCurrent ==
  src.ack => src.gen \in Slots /\ sock[src.gen].active /\ sock[src.gen].sub /\ src.socket = src.gen

\* Late callbacks of a replaced socket touch nothing, and sockets do not overlap.
SourceInv == TypeOK /\ NoOverlap /\ AcknowledgedIsCurrent

\* The source implements the feed the workers are modelled with: failing and closing are final, and bars
\* of a lost connection are not handed out after it.
Feed == INSTANCE MarketFeed WITH
  feed <- CASE src.state = "DISCONNECTED" -> "IDLE" [] src.state = "SUBSCRIBED" -> "UP"
            [] src.state \in {"FAILED", "CLOSED"} -> src.state [] OTHER -> "CONNECTING",
  handed <- src.queue
FeedSpec == Feed!Spec

\* A handshake or a reconnect does not hang: the source is subscribed again, or it fails, or it is closed.
Settles == src.state \in {"CONNECTING", "AUTHENTICATING", "SUBSCRIBING", "RECONNECTING"}
             ~> src.state \in {"SUBSCRIBED", "FAILED", "CLOSED"}
\* The consumer waiting for a bar learns of the failure or of the close.
ConsumerLearns == src.failed \/ src.closed ~> consumer \notin {"run", "wait"}
=============================================================================
