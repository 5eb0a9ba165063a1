------------------------ MODULE CryptoStream_proofs ------------------------
(* Proofs about CryptoStream: sockets do not overlap, an acknowledgement is  *)
(* of the socket in use, and the source implements MarketFeed.              *)
EXTENDS CryptoStream, FiniteSetTheorems, SequenceTheorems, TLAPS

----------------------------------------------------------------------------
(* The inductive invariant.                                                 *)

States == {"DISCONNECTED", "CONNECTING", "AUTHENTICATING", "SUBSCRIBING", "SUBSCRIBED", "RECONNECTING", "CLOSED", "FAILED"}
Talking == {"CONNECTING", "AUTHENTICATING", "SUBSCRIBING", "SUBSCRIBED"}
Sources ==
  [state : States, ack : BOOLEAN, gen : Slots \cup {Backoff, Nobody}, attempt : 0..Budget, running : BOOLEAN,
   closed : BOOLEAN, failed : BOOLEAN, socket : Slots \cup {Nobody}, timer : Slots \cup {Nobody}, queue : 0..MaxQueue]
Sockets ==
  [phase : {"NONE", "OPEN", "CLOSING", "CLOSED"}, active : BOOLEAN, auth : BOOLEAN, sub : BOOLEAN, inbox : Seq(Messages)]
Consumers == {"none", "run", "wait", "given", "done"}

\* The source: its state says who holds its generation and whether it is over, only an acknowledged
\* subscription is SUBSCRIBED and only a subscribed source has bars in its queue.
SourceOK(x) ==
  /\ x \in Sources
  /\ x.gen = Backoff => x.state = "RECONNECTING"
  /\ x.gen \in Slots => x.socket = x.gen /\ x.state \in Talking
  /\ x.gen = Nobody => x.state \in {"DISCONNECTED", "FAILED", "CLOSED"}
  /\ x.failed <=> x.state = "FAILED"
  /\ x.closed => x.state \in {"CLOSED", "FAILED"}
  /\ x.state = "CLOSED" => x.closed
  /\ x.state = "SUBSCRIBED" <=> x.ack
  /\ x.queue > 0 => x.ack

\* A socket that is not closed yet.
Live(s) == sock[s].phase \in {"OPEN", "CLOSING"}
Alone == \A s, t \in Slots : Live(s) /\ Live(t) => s = t
\* While somebody holds the generation, a socket that is not closed is the source's.
OfSource == src.gen # Nobody => \A s \in Slots : Live(s) => s = src.socket
Subscribed == src.ack => sock[src.gen].active /\ sock[src.gen].sub
\* Subscriptions are asked for by sockets that are authenticated.
InOrder == \A s \in Slots : sock[s].sub => sock[s].auth
\* Before bars() there is no socket.
Unread ==
  consumer = "none" =>
    /\ src.gen = Nobody /\ \A s \in Slots : ~Live(s)
    /\ ~src.closed => src.state = "DISCONNECTED"

SocketsOK == Alone /\ OfSource /\ Subscribed /\ InOrder /\ Unread
StreamInv == SourceOK(src) /\ sock \in [Slots -> Sockets] /\ consumer \in Consumers /\ SocketsOK

\* What the feed shows of a source, and a step of the feed.
Shown(x) ==
  CASE x.state = "DISCONNECTED" -> "IDLE" [] x.state = "SUBSCRIBED" -> "UP"
    [] x.state \in {"FAILED", "CLOSED"} -> x.state [] OTHER -> "CONNECTING"
FeedMoves(x, y) ==
  \/ <<Shown(x), Shown(y)>> \in Feed!Moves /\ y.queue = 0
  \/ Shown(x) = "UP" /\ Shown(y) = "UP" /\ y.queue \in {x.queue - 1, x.queue + 1}
  \/ Shown(x) = Shown(y) /\ x.queue = y.queue

----------------------------------------------------------------------------
(* The source.                                                              *)

(* Nobody and Backoff are no sockets. *)
LEMMA Holders == Nobody \notin Slots /\ Backoff \notin Slots /\ Nobody # Backoff
BY StreamBounds DEF Nobody, Backoff

(* failTerminal() ends the source and takes the generation away. *)
LEMMA FailTerminalParts ==
  ASSUME NEW x, SourceOK(x), x.gen # Nobody \/ x.state = "DISCONNECTED"
  PROVE  /\ SourceOK(FailTerminal(x)) /\ FailTerminal(x).gen = Nobody /\ ~FailTerminal(x).ack
         /\ FeedMoves(x, FailTerminal(x))
<1> DEFINE y == FailTerminal(x)
<1>1. ~x.closed /\ ~x.failed
  BY Holders DEF SourceOK, Sources, Talking
<1>2. y = [x EXCEPT !.state = "FAILED", !.ack = FALSE, !.queue = 0, !.failed = TRUE, !.gen = Nobody,
                    !.socket = Nobody, !.timer = Nobody]
  BY <1>1 DEF FailTerminal
<1> HIDE DEF y
<1>3. x \in Sources /\ 0 \in 0..MaxQueue
  BY StreamBounds DEF SourceOK
<1>3a. y \in Sources
  BY <1>2, <1>3 DEF Sources, States
<1>3b. y.state = "FAILED" /\ ~y.ack /\ y.queue = 0 /\ y.failed /\ y.gen = Nobody /\ y.closed = x.closed
  BY <1>2, <1>3 DEF Sources
<1>4. SourceOK(y)
  BY <1>1, <1>3a, <1>3b, Holders DEF SourceOK
<1>5. Shown(x) \in {"IDLE", "UP", "CONNECTING"} /\ Shown(y) = "FAILED"
  BY <1>1, <1>3b DEF Shown, SourceOK, Sources, States
<1>6. FeedMoves(x, y)
  BY <1>3b, <1>5 DEF FeedMoves, Feed!Moves
<1> QED
  BY <1>3b, <1>4, <1>6 DEF y

(* close() ends it as well, and keeps a failure. *)
LEMMA ClosedSourceParts ==
  ASSUME NEW x, SourceOK(x)
  PROVE  /\ SourceOK(ClosedSource(x)) /\ ClosedSource(x).gen = Nobody /\ ~ClosedSource(x).ack /\ ClosedSource(x).closed
         /\ FeedMoves(x, ClosedSource(x))
<1> DEFINE y == ClosedSource(x)
<1>2. y = [x EXCEPT !.ack = FALSE, !.queue = 0, !.closed = TRUE, !.running = FALSE, !.gen = Nobody, !.socket = Nobody,
                    !.timer = Nobody, !.state = IF x.failed THEN "FAILED" ELSE "CLOSED"]
  BY DEF ClosedSource
<1> HIDE DEF y
<1>3. x \in Sources /\ 0 \in 0..MaxQueue
  BY StreamBounds DEF SourceOK
<1>3a. y \in Sources
  BY <1>2, <1>3 DEF Sources, States
<1>3b. /\ y.state = (IF x.failed THEN "FAILED" ELSE "CLOSED") /\ ~y.ack /\ y.queue = 0 /\ y.failed = x.failed
       /\ y.gen = Nobody /\ y.closed
  BY <1>2, <1>3 DEF Sources
<1>4. SourceOK(y)
  BY <1>3a, <1>3b, Holders DEF SourceOK
<1>5. /\ Shown(y) = IF x.failed THEN "FAILED" ELSE "CLOSED"
      /\ x.failed => Shown(x) = "FAILED" /\ x.queue = 0
      /\ ~x.failed => Shown(x) \in {"IDLE", "UP", "CONNECTING"} \/ (Shown(x) = "CLOSED" /\ x.queue = 0)
  BY <1>3b DEF Shown, SourceOK, Sources, States
<1>6. FeedMoves(x, y)
  BY <1>3b, <1>5 DEF FeedMoves, Feed!Moves
<1> QED
  BY <1>3b, <1>4, <1>6 DEF y

(* scheduleReconnect() hands the generation to the reconnect, or fails. *)
LEMMA ScheduleReconnectParts ==
  ASSUME NEW x, SourceOK(x), x.gen \in Slots
  PROVE  /\ SourceOK(ScheduleReconnect(x)) /\ ~ScheduleReconnect(x).ack
         /\ ScheduleReconnect(x).gen # Nobody => ScheduleReconnect(x).socket = x.socket
         /\ FeedMoves(x, ScheduleReconnect(x))
<1> DEFINE y == ScheduleReconnect(x)
<1>1. CASE x.attempt >= Budget
  BY <1>1, FailTerminalParts, Holders DEF ScheduleReconnect
<1>2. CASE ~(x.attempt >= Budget)
  <2>1. y = [x EXCEPT !.state = "RECONNECTING", !.ack = FALSE, !.queue = 0, !.gen = Backoff, !.attempt = @ + 1]
    BY <1>2 DEF ScheduleReconnect
  <2> HIDE DEF y
  <2>2. x.attempt \in 0..Budget /\ x.attempt + 1 \in 0..Budget
    BY <1>2, StreamBounds DEF SourceOK, Sources
  <2>3a. x \in Sources /\ 0 \in 0..MaxQueue
    BY StreamBounds DEF SourceOK
  <2>3b. y \in Sources
    BY <2>1, <2>2, <2>3a DEF Sources, States
  <2>3. /\ y.state = "RECONNECTING" /\ ~y.ack /\ y.queue = 0 /\ y.failed = x.failed /\ y.gen = Backoff
        /\ y.closed = x.closed /\ y.socket = x.socket
    BY <2>1, <2>3a DEF Sources
  <2>4. SourceOK(y)
    BY <2>3, <2>3b, Holders DEF SourceOK, Talking
  <2>5. Shown(y) = "CONNECTING" /\ (Shown(x) = "UP" \/ (Shown(x) = "CONNECTING" /\ x.queue = 0))
    BY <2>3 DEF Shown, SourceOK, Sources, Talking
  <2>6. FeedMoves(x, y)
    BY <2>3, <2>5 DEF FeedMoves, Feed!Moves
  <2> QED
    BY <2>3, <2>4, <2>6 DEF y
<1> QED
  BY <1>1, <1>2

----------------------------------------------------------------------------
(* The sockets.                                                             *)

\* Sockets l for sockets k: none became live, and none subscribed or was authenticated.
Calmer(k, l) ==
  /\ l \in [Slots -> Sockets]
  /\ \A t \in Slots : /\ l[t].phase \in {"OPEN", "CLOSING"} => k[t].phase \in {"OPEN", "CLOSING"}
                      /\ l[t].sub = k[t].sub /\ l[t].auth = k[t].auth

(* close() of a socket only starts its closing. *)
LEMMA ShutParts ==
  ASSUME NEW k \in [Slots -> Sockets], NEW s
  PROVE  Calmer(k, Shut(k, s)) /\ \A t \in Slots : Shut(k, s)[t].active = k[t].active
<1>1. CASE ~(s \in Slots /\ k[s].phase = "OPEN")
  <2>1. Shut(k, s) = k
    BY <1>1 DEF Shut
  <2> QED
    BY <2>1 DEF Calmer
<1>2. CASE s \in Slots /\ k[s].phase = "OPEN"
  <2> DEFINE e == [k[s] EXCEPT !.phase = "CLOSING"]
  <2>1. Shut(k, s) = [k EXCEPT ![s] = e]
    BY <1>2 DEF Shut
  <2>2. k[s] \in Sockets
    BY <1>2
  <2>3. e \in Sockets /\ e.sub = k[s].sub /\ e.auth = k[s].auth /\ e.active = k[s].active
    BY <2>2 DEF Sockets
  <2> HIDE DEF e
  <2>4. \A t \in Slots : Shut(k, s)[t] = IF t = s THEN e ELSE k[t]
    BY <2>1, <1>2
  <2>5. Shut(k, s) \in [Slots -> Sockets]
    BY <2>1, <2>3, <1>2
  <2> QED
    BY <1>2, <2>3, <2>4, <2>5 DEF Calmer
<1> QED
  BY <1>1, <1>2

(* A step that opens no socket and keeps the socket of whoever holds the generation keeps the invariant *)
(* when the source it leaves is one and an acknowledgement is of its holder.                            *)
LEMMA StepKeeps ==
  ASSUME StreamInv, SourceOK(src'), sock' \in [Slots -> Sockets], consumer' \in Consumers,
         \A s \in Slots : sock'[s].phase \in {"OPEN", "CLOSING"} => sock[s].phase \in {"OPEN", "CLOSING"},
         \A s \in Slots : sock'[s].sub => sock'[s].auth,
         src'.gen # Nobody => src.gen # Nobody /\ src'.socket = src.socket,
         src'.ack => sock'[src'.gen].active /\ sock'[src'.gen].sub,
         consumer' = "none" => consumer = "none" /\ src'.gen = Nobody /\ (~src'.closed => src'.state = "DISCONNECTED")
  PROVE  StreamInv'
<1>1. Alone'
  BY DEF StreamInv, SocketsOK, Alone, Live
<1>2. OfSource'
  BY DEF StreamInv, SocketsOK, OfSource, Live
<1>3. Subscribed' /\ InOrder'
  BY DEF Subscribed, InOrder
<1>4. Unread'
  BY DEF StreamInv, SocketsOK, Unread, Live
<1>5. SourceOK(src)'
  BY DEF SourceOK
<1> QED
  BY <1>1, <1>2, <1>3, <1>4, <1>5 DEF StreamInv, SocketsOK

(* The same, of a step after which nobody holds the generation. *)
LEMMA EndKeeps ==
  ASSUME StreamInv, SourceOK(src'), ~src'.ack, src'.gen = Nobody, Calmer(sock, sock'), consumer' \in Consumers,
         consumer' = "none" => consumer = "none" /\ src'.closed
  PROVE  StreamInv'
<1>1. sock' \in [Slots -> Sockets]
  BY DEF Calmer
<1>2. \A s \in Slots : sock'[s].phase \in {"OPEN", "CLOSING"} => sock[s].phase \in {"OPEN", "CLOSING"}
  BY DEF Calmer
<1>3. \A s \in Slots : sock'[s].sub => sock'[s].auth
  BY DEF Calmer, StreamInv, SocketsOK, InOrder
<1> QED
  BY <1>1, <1>2, <1>3, StepKeeps

(* connect() of a source whose sockets have all closed. *)
LEMMA ConnectKeeps ==
  ASSUME StreamInv, NEW x, SourceOK(x), x.state \in {"DISCONNECTED", "RECONNECTING"}, ~x.closed,
         \A s \in Slots : ~Live(s), Connect(x), consumer' \in Consumers, consumer' # "none"
  PROVE  StreamInv' /\ FeedMoves(x, src')
<1>0. /\ sock \in [Slots -> Sockets] /\ InOrder
      /\ x \in Sources /\ ~x.ack /\ x.queue = 0 /\ ~x.failed /\ (x.gen # Nobody \/ x.state = "DISCONNECTED")
  BY DEF StreamInv, SocketsOK, SourceOK, Sources
<1>1. ASSUME NEW s \in Slots, sock[s].phase = "NONE", src' = Connecting(x, s),
             sock' = [sock EXCEPT ![s] = [NoSocket EXCEPT !.phase = "OPEN", !.active = TRUE]]
      PROVE  StreamInv' /\ FeedMoves(x, src')
  <2> DEFINE e == [NoSocket EXCEPT !.phase = "OPEN", !.active = TRUE]
  <2>1. src' = [x EXCEPT !.state = "CONNECTING", !.gen = s, !.socket = s, !.timer = s]
    BY <1>1 DEF Connecting
  <2>2. src' \in Sources
    BY <2>1, <1>0, <1>1 DEF Sources, States
  <2>3. /\ src'.state = "CONNECTING" /\ src'.gen = s /\ src'.socket = s /\ ~src'.ack /\ src'.queue = 0 /\ ~src'.failed
        /\ ~src'.closed
    BY <2>1, <1>0 DEF Sources
  <2>4. SourceOK(src')
    BY <2>2, <2>3, <1>1, Holders DEF SourceOK, Talking
  <2>5. e \in Sockets /\ e.sub = FALSE
    <3>1. << >> \in Seq(Messages)
      OBVIOUS
    <3> QED
      BY <3>1 DEF Sockets, NoSocket
  <2>6. sock' = [sock EXCEPT ![s] = e]
    BY <1>1
  <2> HIDE DEF e
  <2>7. sock' \in [Slots -> Sockets] /\ \A t \in Slots : sock'[t] = IF t = s THEN e ELSE sock[t]
    BY <2>5, <2>6, <1>0, <1>1
  <2>8. Alone' /\ OfSource'
    BY <2>3, <2>7, <1>1 DEF Alone, OfSource, Live
  <2>9. InOrder'
    BY <2>5, <2>7, <1>0 DEF InOrder
  <2>10. Subscribed' /\ Unread'
    BY <2>3 DEF Subscribed, Unread
  <2>11. SourceOK(src)'
    BY <2>4 DEF SourceOK
  <2>12. Shown(x) \in {"IDLE", "CONNECTING"} /\ Shown(src') = "CONNECTING"
    BY <2>3 DEF Shown
  <2>13. FeedMoves(x, src')
    BY <2>3, <2>12, <1>0 DEF FeedMoves, Feed!Moves
  <2> QED
    BY <2>7, <2>8, <2>9, <2>10, <2>11, <2>13 DEF StreamInv, SocketsOK
<1>2. CASE src' = FailTerminal(x) /\ sock' = Shut(sock, x.socket)
  BY <1>0, <1>2, FailTerminalParts, ShutParts, EndKeeps
<1> QED
  BY <1>1, <1>2 DEF Connect

----------------------------------------------------------------------------
(* The actions.  Each keeps the invariant and is a step of the feed.        *)

\* What every step does.
Carries == StreamInv' /\ FeedMoves(src, src')

(* signal() wakes the consumer, and leaves a consumer that does not exist alone. *)
LEMMA WokenParts ==
  ASSUME consumer \in Consumers
  PROVE  Woken \in Consumers /\ (Woken = "none" => consumer = "none")
BY DEF Woken, Consumers

(* The source is not touched. *)
LEMMA SameSource ==
  ASSUME UNCHANGED src
  PROVE  FeedMoves(src, src')
BY DEF FeedMoves

(* A change of sockets that keeps their flags and opens none keeps the invariant. *)
LEMMA SocketStepKeeps ==
  ASSUME StreamInv, UNCHANGED src, consumer' = consumer, Calmer(sock, sock'),
         src.ack => sock'[src.gen].active
  PROVE  Carries
<1>1. SourceOK(src') /\ consumer' \in Consumers /\ sock' \in [Slots -> Sockets]
  BY DEF StreamInv, Calmer
<1>2. src.ack => src.gen \in Slots
  BY DEF StreamInv, SourceOK, Sources
<1>3. src'.ack => sock'[src'.gen].active /\ sock'[src'.gen].sub
  BY <1>2 DEF StreamInv, SocketsOK, Subscribed, Calmer
<1>4. \A s \in Slots : sock'[s].sub => sock'[s].auth
  BY DEF StreamInv, SocketsOK, InOrder, Calmer
<1>5. consumer' = "none" => consumer = "none" /\ src'.gen = Nobody /\ (~src'.closed => src'.state = "DISCONNECTED")
  BY DEF StreamInv, SocketsOK, Unread
<1>6. \A s \in Slots : sock'[s].phase \in {"OPEN", "CLOSING"} => sock[s].phase \in {"OPEN", "CLOSING"}
  BY DEF Calmer
<1>7. StreamInv'
  BY <1>1, <1>3, <1>4, <1>5, <1>6, StepKeeps
<1> QED
  BY <1>7, SameSource DEF Carries

(* bars() opens the first socket. *)
LEMMA BarsCarries == StreamInv /\ Bars => Carries
<1> SUFFICES ASSUME StreamInv, Bars PROVE Carries
  OBVIOUS
<1> DEFINE x == [src EXCEPT !.running = TRUE]
<1>1. SourceOK(src) /\ consumer = "none" /\ ~src.closed /\ Connect(x) /\ consumer' = "run"
  BY DEF Bars, StreamInv
<1>2. src.state = "DISCONNECTED" /\ \A s \in Slots : ~Live(s)
  BY <1>1 DEF StreamInv, SocketsOK, Unread
<1>3. src \in Sources
  BY <1>1 DEF SourceOK
<1>4. /\ x \in Sources /\ x.state = src.state /\ x.ack = src.ack /\ x.gen = src.gen /\ x.socket = src.socket
      /\ x.closed = src.closed /\ x.failed = src.failed /\ x.queue = src.queue
  BY <1>3 DEF Sources
<1> HIDE DEF x
<1>5. SourceOK(x)
  BY <1>1, <1>4 DEF SourceOK
<1>6. StreamInv' /\ FeedMoves(x, src')
  BY <1>1, <1>2, <1>4, <1>5, ConnectKeeps DEF Consumers
<1>7. Shown(x) = Shown(src)
  BY <1>4 DEF Shown
<1> QED
  BY <1>4, <1>6, <1>7 DEF Carries, FeedMoves

(* A turn of the loop ends the source or takes a bar. *)
LEMMA LoopCarries == StreamInv /\ Loop => Carries
<1> SUFFICES ASSUME StreamInv, Loop PROVE Carries
  OBVIOUS
<1>0. SourceOK(src) /\ src \in Sources /\ sock \in [Slots -> Sockets] /\ consumer = "run"
  BY DEF Loop, StreamInv, SourceOK
<1>1. CASE src' = ClosedSource(src) /\ sock' = Shut(sock, src.socket) /\ consumer' = "done"
  <2>1. StreamInv'
    BY <1>0, <1>1, ClosedSourceParts, ShutParts, EndKeeps DEF Consumers
  <2> QED
    BY <1>0, <1>1, <2>1, ClosedSourceParts DEF Carries
<1>2. CASE /\ src' = [src EXCEPT !.queue = IF @ > 0 THEN @ - 1 ELSE 0]
           /\ consumer' = IF src.queue > 0 THEN "given" ELSE "wait"
           /\ UNCHANGED sock
  <2> DEFINE q == IF src.queue > 0 THEN src.queue - 1 ELSE 0
  <2>1. src.queue \in 0..MaxQueue /\ q \in 0..MaxQueue
    BY <1>0, StreamBounds DEF Sources
  <2>2. src' = [src EXCEPT !.queue = q]
    BY <1>2
  <2>2a. q > 0 => src.queue > 0
    BY <2>1
  <2>2b. src.queue > 0 => q = src.queue - 1
    OBVIOUS
  <2>2c. src.queue = 0 => q = 0
    BY <2>1
  <2> HIDE DEF q
  <2>3. /\ src' \in Sources /\ src'.queue = q /\ src'.state = src.state /\ src'.ack = src.ack /\ src'.gen = src.gen
        /\ src'.socket = src.socket /\ src'.closed = src.closed /\ src'.failed = src.failed
    BY <1>0, <2>1, <2>2 DEF Sources
  <2>4. SourceOK(src')
    BY <1>0, <2>3, <2>2a DEF SourceOK
  <2>5. consumer' \in Consumers /\ consumer' # "none"
    BY <1>2 DEF Consumers
  <2>6. StreamInv'
    BY <1>2, <2>3, <2>4, <2>5, StepKeeps DEF StreamInv, SocketsOK, InOrder, Subscribed
  <2>7. Shown(src') = Shown(src) /\ (src.queue > 0 => Shown(src) = "UP")
    BY <1>0, <2>3 DEF Shown, SourceOK
  <2>8. src.queue > 0 \/ src.queue = 0
    BY <2>1
  <2> QED
    BY <2>2b, <2>2c, <2>3, <2>6, <2>7, <2>8 DEF Carries, FeedMoves
<1> QED
  BY <1>1, <1>2 DEF Loop

(* The worker asks for the next bar. *)
LEMMA AskNextCarries == StreamInv /\ AskNext => Carries
<1> SUFFICES ASSUME StreamInv, AskNext PROVE Carries
  OBVIOUS
<1>1. UNCHANGED src /\ UNCHANGED sock /\ consumer' = "run" /\ consumer = "given" /\ SourceOK(src')
  BY DEF AskNext, StreamInv
<1>2. StreamInv'
  BY <1>1, StepKeeps DEF StreamInv, SocketsOK, InOrder, Subscribed, Consumers
<1> QED
  BY <1>1, <1>2, SameSource DEF Carries

(* close() may be called at any time. *)
LEMMA CloseCarries == StreamInv /\ Close => Carries
<1> SUFFICES ASSUME StreamInv, Close PROVE Carries
  OBVIOUS
<1>1. SourceOK(src) /\ sock \in [Slots -> Sockets] /\ consumer \in Consumers
  BY DEF StreamInv
<1>2. src' = ClosedSource(src) /\ sock' = Shut(sock, src.socket) /\ consumer' = Woken
  BY DEF Close
<1>3. StreamInv'
  BY <1>1, <1>2, ClosedSourceParts, ShutParts, WokenParts, EndKeeps
<1> QED
  BY <1>1, <1>2, <1>3, ClosedSourceParts DEF Carries

(* The reconnect finds its predecessor closed. *)
LEMMA ReconnectCarries == StreamInv /\ Reconnect => Carries
<1> SUFFICES ASSUME StreamInv, Reconnect PROVE Carries
  OBVIOUS
<1>1. /\ SourceOK(src) /\ src.gen = Backoff /\ ~src.closed /\ PhysicallyClosed(src.socket) /\ Connect(src) /\ consumer' = Woken
      /\ consumer \in Consumers
  BY DEF Reconnect, StreamInv
<1>2. src.state = "RECONNECTING" /\ src.gen # Nobody
  BY <1>1, Holders DEF SourceOK
<1>3. \A s \in Slots : ~Live(s)
  BY <1>1, <1>2, Holders DEF StreamInv, SocketsOK, OfSource, PhysicallyClosed, Live
<1>4. consumer' \in Consumers /\ consumer' # "none"
  BY <1>1, <1>2, WokenParts DEF StreamInv, SocketsOK, Unread
<1> QED
  BY <1>1, <1>2, <1>3, <1>4, ConnectKeeps DEF Carries

(* A predecessor that does not close in time ends the source. *)
LEMMA CloseDeadlineCarries == StreamInv /\ CloseDeadline => Carries
<1> SUFFICES ASSUME StreamInv, CloseDeadline PROVE Carries
  OBVIOUS
<1>1. /\ SourceOK(src) /\ src.gen # Nobody /\ src' = FailTerminal(src) /\ sock' = Shut(sock, src.socket) /\ consumer' = Woken
      /\ consumer \in Consumers /\ sock \in [Slots -> Sockets]
  BY Holders DEF CloseDeadline, StreamInv
<1>2. consumer # "none"
  BY <1>1 DEF StreamInv, SocketsOK, Unread
<1>3. StreamInv'
  BY <1>1, <1>2, FailTerminalParts, ShutParts, WokenParts, EndKeeps
<1> QED
  BY <1>1, <1>3, FailTerminalParts DEF Carries

(* A failure of the transport: a stale one only counts for the socket, any other hands the generation to *)
(* the reconnect.                                                                                       *)
LEMMA TransportFailureCarries ==
  ASSUME StreamInv, NEW s \in Slots, NEW socks, Calmer(sock, socks), \A t \in Slots : socks[t].active = sock[t].active,
         TransportFailure(s, socks)
  PROVE  Carries
<1>0. /\ SourceOK(src) /\ src \in Sources /\ sock \in [Slots -> Sockets] /\ consumer \in Consumers
      /\ socks \in [Slots -> Sockets]
  BY DEF StreamInv, SourceOK, Calmer
<1>1. CASE Stale(s)
  <2>1. UNCHANGED src /\ consumer' = consumer /\ sock' = socks
    BY <1>1 DEF TransportFailure
  <2>2. src.ack => src.gen \in Slots
    BY <1>0 DEF SourceOK, Sources
  <2> QED
    BY <2>1, <2>2, SocketStepKeeps DEF StreamInv, SocketsOK, Subscribed
<1>2. CASE ~Stale(s)
  <2> DEFINE x == [src EXCEPT !.timer = Nobody]
             e == [socks[s] EXCEPT !.active = FALSE]
             k == [socks EXCEPT ![s] = e]
  <2>1. src.gen = s /\ src' = ScheduleReconnect(x) /\ consumer' = Woken
    BY <1>2 DEF TransportFailure, Stale
  <2>2. sock' = Shut(k, s)
    BY <1>2 DEF TransportFailure
  <2>3. /\ x \in Sources /\ x.state = src.state /\ x.ack = src.ack /\ x.gen = src.gen /\ x.socket = src.socket
        /\ x.closed = src.closed /\ x.failed = src.failed /\ x.queue = src.queue
    BY <1>0 DEF Sources
  <2> HIDE DEF x
  <2>4. SourceOK(x)
    BY <1>0, <2>3 DEF SourceOK
  <2>5. socks[s] \in Sockets
    BY <1>0
  <2>6. e \in Sockets /\ e.phase = socks[s].phase /\ e.sub = socks[s].sub /\ e.auth = socks[s].auth
    BY <2>5 DEF Sockets
  <2> HIDE DEF e
  <2>7. k \in [Slots -> Sockets] /\ \A t \in Slots : k[t] = IF t = s THEN e ELSE socks[t]
    BY <1>0, <2>6
  <2> HIDE DEF k
  <2>8. Calmer(k, sock')
    BY <2>2, <2>7, ShutParts
  <2>9. Calmer(sock, sock')
    BY <2>6, <2>7, <2>8 DEF Calmer
  <2>10. SourceOK(src') /\ ~src'.ack /\ (src'.gen # Nobody => src'.socket = src.socket) /\ FeedMoves(x, src')
    BY <2>1, <2>3, <2>4, ScheduleReconnectParts
  <2>11. src.gen # Nobody
    BY <2>1, Holders
  <2>12. consumer' \in Consumers /\ consumer' # "none"
    BY <1>0, <2>1, <2>11, WokenParts DEF StreamInv, SocketsOK, Unread
  <2>13. /\ \A t \in Slots : sock'[t].phase \in {"OPEN", "CLOSING"} => sock[t].phase \in {"OPEN", "CLOSING"}
         /\ \A t \in Slots : sock'[t].sub => sock'[t].auth
         /\ sock' \in [Slots -> Sockets]
    BY <2>9 DEF Calmer, StreamInv, SocketsOK, InOrder
  <2>14. StreamInv'
    BY <2>10, <2>11, <2>12, <2>13, StepKeeps
  <2>15. Shown(x) = Shown(src)
    BY <2>3 DEF Shown
  <2> QED
    BY <2>3, <2>10, <2>14, <2>15 DEF Carries, FeedMoves
<1> QED
  BY <1>1, <1>2

(* The error event, the handshake timer and the close event. *)
LEMMA FailureEventsCarry ==
  ASSUME StreamInv, NEW s \in Slots, ErrorEvent(s) \/ CloseEvent(s) \/ HandshakeTimeout(s)
  PROVE  Carries
<1>0. sock \in [Slots -> Sockets]
  BY DEF StreamInv
<1>1. CASE ErrorEvent(s) \/ HandshakeTimeout(s)
  <2>1. TransportFailure(s, sock) /\ Calmer(sock, sock)
    BY <1>0, <1>1 DEF ErrorEvent, HandshakeTimeout, Calmer
  <2> QED
    BY <2>1, TransportFailureCarries
<1>2. CASE CloseEvent(s)
  <2> DEFINE e == [sock[s] EXCEPT !.phase = "CLOSED"]
             k == [sock EXCEPT ![s] = e]
  <2>1. sock[s] \in Sockets
    BY <1>0
  <2>2. /\ e \in Sockets /\ e.phase = "CLOSED" /\ e.sub = sock[s].sub /\ e.auth = sock[s].auth
        /\ e.active = sock[s].active
    BY <2>1 DEF Sockets
  <2>3. TransportFailure(s, k)
    BY <1>2 DEF CloseEvent
  <2> HIDE DEF e
  <2>4. k \in [Slots -> Sockets] /\ \A t \in Slots : k[t] = IF t = s THEN e ELSE sock[t]
    BY <1>0, <2>2
  <2> HIDE DEF k
  <2>5. Calmer(sock, k) /\ \A t \in Slots : k[t].active = sock[t].active
    BY <2>2, <2>4 DEF Calmer
  <2> QED
    BY <2>3, <2>5, TransportFailureCarries
<1> QED
  BY <1>1, <1>2

(* A closed socket nobody refers to gives its slot back. *)
LEMMA ForgottenCarries == ASSUME StreamInv, NEW s \in Slots, Forgotten(s) PROVE Carries
<1>0. /\ sock \in [Slots -> Sockets] /\ SourceOK(src) /\ InOrder /\ Subscribed
      /\ src.gen # s /\ sock' = [sock EXCEPT ![s] = NoSocket] /\ UNCHANGED src /\ consumer' = consumer
  BY DEF Forgotten, StreamInv, SocketsOK
<1>1. NoSocket \in Sockets /\ NoSocket.phase = "NONE" /\ ~NoSocket.sub
  <2>1. << >> \in Seq(Messages)
    OBVIOUS
  <2> QED
    BY <2>1 DEF NoSocket, Sockets
<1>2. sock' \in [Slots -> Sockets] /\ \A t \in Slots : sock'[t] = IF t = s THEN NoSocket ELSE sock[t]
  BY <1>0, <1>1
<1>3. /\ \A t \in Slots : sock'[t].phase \in {"OPEN", "CLOSING"} => sock[t].phase \in {"OPEN", "CLOSING"}
      /\ \A t \in Slots : sock'[t].sub => sock'[t].auth
  BY <1>0, <1>1, <1>2 DEF InOrder
<1>4. src.ack => src.gen \in Slots
  BY <1>0 DEF SourceOK, Sources
<1>5. src'.ack => sock'[src'.gen].active /\ sock'[src'.gen].sub
  BY <1>0, <1>2, <1>4 DEF Subscribed
<1>6. SourceOK(src') /\ consumer' \in Consumers
  BY <1>0 DEF StreamInv
<1>7. consumer' = "none" => consumer = "none" /\ src'.gen = Nobody /\ (~src'.closed => src'.state = "DISCONNECTED")
  BY <1>0 DEF StreamInv, SocketsOK, Unread
<1>8. StreamInv'
  BY <1>0, <1>2, <1>3, <1>5, <1>6, <1>7, StepKeeps
<1> QED
  BY <1>0, <1>8, SameSource DEF Carries

(* A change of a socket's inbox. *)
LEMMA InboxParts ==
  ASSUME sock \in [Slots -> Sockets], NEW s \in Slots, NEW box \in Seq(Messages), NEW k, k = [sock EXCEPT ![s].inbox = box]
  PROVE  Calmer(sock, k) /\ \A t \in Slots : k[t].active = sock[t].active
<1> DEFINE e == [sock[s] EXCEPT !.inbox = box]
<1>1. sock[s] \in Sockets
  OBVIOUS
<1>2. /\ e \in Sockets /\ e.phase = sock[s].phase /\ e.sub = sock[s].sub /\ e.auth = sock[s].auth
      /\ e.active = sock[s].active
  BY <1>1 DEF Sockets
<1>3. k = [sock EXCEPT ![s] = e]
  OBVIOUS
<1> HIDE DEF e
<1>4. k \in [Slots -> Sockets] /\ \A t \in Slots : k[t] = IF t = s THEN e ELSE sock[t]
  BY <1>2, <1>3
<1> QED
  BY <1>2, <1>4 DEF Calmer

(* A message arrives. *)
LEMMA ReceiveCarries == ASSUME StreamInv, NEW s \in Slots, NEW m \in Messages, Receive(s, m) PROVE Carries
<1> DEFINE box == Append(sock[s].inbox, m)
<1>1. sock \in [Slots -> Sockets] /\ sock[s] \in Sockets /\ UNCHANGED src /\ consumer' = consumer
  BY DEF StreamInv, Receive
<1>2. box \in Seq(Messages)
  BY <1>1, AppendProperties DEF Sockets
<1>3. sock' = [sock EXCEPT ![s].inbox = box]
  BY DEF Receive
<1> HIDE DEF box
<1>4. Calmer(sock, sock') /\ \A t \in Slots : sock'[t].active = sock[t].active
  BY <1>1, <1>2, <1>3, InboxParts
<1>5. src.ack => src.gen \in Slots
  BY DEF StreamInv, SourceOK, Sources
<1> QED
  BY <1>1, <1>4, <1>5, SocketStepKeeps DEF StreamInv, SocketsOK, Subscribed

(* A message of the socket in use that is not refused: what the source becomes. *)
LEMMA DecodedSource ==
  ASSUME StreamInv, NEW s \in Slots, ~Stale(s), SourceOK(src'), src'.gen = src.gen, src'.socket = src.socket,
         sock' \in [Slots -> Sockets], consumer' = Woken,
         \A t \in Slots : sock'[t].phase = sock[t].phase /\ sock'[t].active = sock[t].active,
         \A t \in Slots : sock'[t].sub => sock'[t].auth,
         src'.ack => sock'[s].sub
  PROVE  StreamInv'
<1>1. src.gen = s /\ sock[s].active
  BY DEF Stale
<1>2. src.gen # Nobody
  BY <1>1, Holders
<1>3. consumer' \in Consumers /\ consumer' # "none"
  BY <1>2, WokenParts DEF StreamInv, SocketsOK, Unread
<1> QED
  BY <1>1, <1>2, <1>3, StepKeeps

(* The payload of a message has been decoded. *)
LEMMA DecodedCarries == ASSUME StreamInv, NEW s \in Slots, Decoded(s) PROVE Carries
<1> DEFINE m == Head(sock[s].inbox)
           box == Tail(sock[s].inbox)
           rest == [sock EXCEPT ![s].inbox = box]
<1>0. /\ SourceOK(src) /\ src \in Sources /\ sock \in [Slots -> Sockets] /\ sock[s] \in Sockets /\ consumer \in Consumers
      /\ InOrder /\ Subscribed
  BY DEF StreamInv, SocketsOK, SourceOK
<1>1. box \in Seq(Messages)
  BY <1>0, HeadTailProperties DEF Decoded, Sockets
<1>1a. rest = [sock EXCEPT ![s].inbox = box]
  OBVIOUS
<1>2b. \A t \in Slots : rest[t].phase = sock[t].phase
  BY <1>0
<1>3. \/ Stale(s) /\ sock' = rest /\ UNCHANGED <<src, consumer>>
      \/ /\ ~Stale(s) /\ consumer' = Woken
         /\ \/ src' = FailTerminal(src) /\ sock' = Shut(rest, src.socket)
            \/ /\ src' = IF sock[s].auth THEN src ELSE [src EXCEPT !.state = "AUTHENTICATING"]
               /\ sock' = [rest EXCEPT ![s].auth = TRUE]
            \/ /\ ~Refused(s, "authenticated")
               /\ src' = IF sock[s].sub THEN src ELSE [src EXCEPT !.state = "SUBSCRIBING"]
               /\ sock' = [rest EXCEPT ![s].sub = TRUE]
            \/ /\ ~Refused(s, "subscription")
               /\ src' = [src EXCEPT !.state = "SUBSCRIBED", !.ack = TRUE, !.timer = Nobody] /\ sock' = rest
            \/ /\ ~Refused(s, "bar")
               /\ src' = [src EXCEPT !.queue = @ + 1, !.attempt = 0] /\ sock' = rest
            \/ sock' = rest /\ UNCHANGED src
  BY DEF Decoded, StaleAfterDecoding
<1> HIDE DEF m, box, rest
<1>2. Calmer(sock, rest) /\ \A t \in Slots : rest[t].active = sock[t].active
  BY <1>0, <1>1, <1>1a, InboxParts
<1>2a. rest \in [Slots -> Sockets]
  BY <1>2 DEF Calmer
<1>4. CASE Stale(s) /\ sock' = rest /\ UNCHANGED <<src, consumer>>
  <2>1. src.ack => src.gen \in Slots
    BY <1>0 DEF SourceOK, Sources
  <2> QED
    BY <1>0, <1>2, <1>4, <2>1, SocketStepKeeps DEF Subscribed
<1>5. ASSUME ~Stale(s), consumer' = Woken PROVE src.gen = s /\ src.gen # Nobody /\ src.state \in Talking /\ ~src.closed
  BY <1>0, <1>5, Holders DEF SourceOK, Stale
<1>5a. src.ack /\ src.gen = s => sock[s].sub /\ sock[s].auth
  BY <1>0 DEF Subscribed, InOrder
<1>5b. \A t \in Slots : rest[t].sub => rest[t].auth
  BY <1>0, <1>2 DEF InOrder, Calmer
<1>5c. rest[s].sub = sock[s].sub /\ rest[s].auth = sock[s].auth
  BY <1>2 DEF Calmer
<1>6. ASSUME ~Stale(s), consumer' = Woken, src' = FailTerminal(src) /\ sock' = Shut(rest, src.socket)
      PROVE  Carries
  <2>1. Calmer(sock, sock')
    <3>1. Calmer(rest, sock')
      BY <1>2a, <1>6, ShutParts
    <3> QED
      BY <1>2, <3>1 DEF Calmer
  <2>2. consumer' \in Consumers /\ consumer' # "none"
    BY <1>0, <1>5, <1>6, WokenParts DEF StreamInv, SocketsOK, Unread
  <2> QED
    BY <1>0, <1>5, <1>6, <2>1, <2>2, FailTerminalParts, EndKeeps DEF Carries
<1>7. ASSUME ~Stale(s), consumer' = Woken,
             src' = IF sock[s].auth THEN src ELSE [src EXCEPT !.state = "AUTHENTICATING"],
             sock' = [rest EXCEPT ![s].auth = TRUE]
      PROVE  Carries
  <2> DEFINE e == [rest[s] EXCEPT !.auth = TRUE]
  <2>1. rest[s] \in Sockets
    BY <1>2a
  <2>2. e \in Sockets /\ e.phase = rest[s].phase /\ e.active = rest[s].active /\ e.sub = rest[s].sub /\ e.auth
    BY <2>1 DEF Sockets
  <2>3. sock' = [rest EXCEPT ![s] = e]
    BY <1>7
  <2> HIDE DEF e
  <2>4. sock' \in [Slots -> Sockets] /\ \A t \in Slots : sock'[t] = IF t = s THEN e ELSE rest[t]
    BY <1>2a, <2>2, <2>3
  <2>5. /\ \A t \in Slots : sock'[t].phase = sock[t].phase /\ sock'[t].active = sock[t].active
        /\ \A t \in Slots : sock'[t].sub => sock'[t].auth
        /\ sock'[s].sub = sock[s].sub
    BY <1>2, <1>2b, <1>5b, <1>5c, <2>2, <2>4
  <2>6. CASE sock[s].auth
    <3>1. UNCHANGED src
      BY <1>7, <2>6
    <3>2. StreamInv'
      BY <1>0, <1>5, <1>5a, <1>7, <2>4, <2>5, <3>1, DecodedSource
    <3> QED
      BY <3>1, <3>2, SameSource DEF Carries
  <2>7. CASE ~sock[s].auth
    <3>1. src' = [src EXCEPT !.state = "AUTHENTICATING"]
      BY <1>7, <2>7
    <3>2. ~src.ack
      BY <1>5, <1>5a, <1>7, <2>7
    <3>3. src' \in Sources
      BY <1>0, <3>1 DEF Sources, States
    <3>4. /\ src'.state = "AUTHENTICATING" /\ src'.ack = src.ack /\ src'.gen = src.gen /\ src'.socket = src.socket
          /\ src'.closed = src.closed /\ src'.failed = src.failed /\ src'.queue = src.queue
      BY <1>0, <3>1 DEF Sources
    <3>5. SourceOK(src')
      BY <1>0, <1>5, <1>7, <3>2, <3>3, <3>4, Holders DEF SourceOK, Talking
    <3>6. StreamInv'
      BY <1>7, <2>4, <2>5, <3>2, <3>4, <3>5, DecodedSource
    <3>7. Shown(src) = "CONNECTING" /\ Shown(src') = "CONNECTING"
      BY <1>0, <1>5, <1>7, <3>2, <3>4 DEF Shown, Talking, SourceOK
    <3> QED
      BY <3>4, <3>6, <3>7 DEF Carries, FeedMoves
  <2> QED
    BY <2>6, <2>7
<1>8. ASSUME ~Stale(s), consumer' = Woken, ~Refused(s, "authenticated"),
             src' = IF sock[s].sub THEN src ELSE [src EXCEPT !.state = "SUBSCRIBING"],
             sock' = [rest EXCEPT ![s].sub = TRUE]
      PROVE  Carries
  <2> DEFINE e == [rest[s] EXCEPT !.sub = TRUE]
  <2>0. sock[s].auth
    BY <1>8 DEF Refused
  <2>1. rest[s] \in Sockets
    BY <1>2a
  <2>2. e \in Sockets /\ e.phase = rest[s].phase /\ e.active = rest[s].active /\ e.auth = rest[s].auth /\ e.sub
    BY <2>1 DEF Sockets
  <2>3. sock' = [rest EXCEPT ![s] = e]
    BY <1>8
  <2> HIDE DEF e
  <2>4. sock' \in [Slots -> Sockets] /\ \A t \in Slots : sock'[t] = IF t = s THEN e ELSE rest[t]
    BY <1>2a, <2>2, <2>3
  <2>5. /\ \A t \in Slots : sock'[t].phase = sock[t].phase /\ sock'[t].active = sock[t].active
        /\ \A t \in Slots : sock'[t].sub => sock'[t].auth
        /\ sock'[s].sub
    BY <1>2, <1>2b, <1>5b, <1>5c, <2>0, <2>2, <2>4
  <2>6. CASE sock[s].sub
    <3>1. UNCHANGED src
      BY <1>8, <2>6
    <3>2. StreamInv'
      BY <1>0, <1>8, <2>4, <2>5, <3>1, DecodedSource
    <3> QED
      BY <3>1, <3>2, SameSource DEF Carries
  <2>7. CASE ~sock[s].sub
    <3>1. src' = [src EXCEPT !.state = "SUBSCRIBING"]
      BY <1>8, <2>7
    <3>2. ~src.ack
      BY <1>5, <1>5a, <1>8, <2>7
    <3>3. src' \in Sources
      BY <1>0, <3>1 DEF Sources, States
    <3>4. /\ src'.state = "SUBSCRIBING" /\ src'.ack = src.ack /\ src'.gen = src.gen /\ src'.socket = src.socket
          /\ src'.closed = src.closed /\ src'.failed = src.failed /\ src'.queue = src.queue
      BY <1>0, <3>1 DEF Sources
    <3>5. SourceOK(src')
      BY <1>0, <1>5, <1>8, <3>2, <3>3, <3>4, Holders DEF SourceOK, Talking
    <3>6. StreamInv'
      BY <1>8, <2>4, <2>5, <3>2, <3>4, <3>5, DecodedSource
    <3>7. Shown(src) = "CONNECTING" /\ Shown(src') = "CONNECTING"
      BY <1>0, <1>5, <1>8, <3>2, <3>4 DEF Shown, Talking, SourceOK
    <3> QED
      BY <3>4, <3>6, <3>7 DEF Carries, FeedMoves
  <2> QED
    BY <2>6, <2>7
<1>9. ASSUME ~Stale(s), consumer' = Woken, ~Refused(s, "subscription"),
             src' = [src EXCEPT !.state = "SUBSCRIBED", !.ack = TRUE, !.timer = Nobody], sock' = rest
      PROVE  Carries
  <2>1. sock[s].sub
    BY <1>9 DEF Refused
  <2>2. src' \in Sources
    BY <1>0, <1>9 DEF Sources, States
  <2>3. /\ src'.state = "SUBSCRIBED" /\ src'.ack /\ src'.gen = src.gen /\ src'.socket = src.socket
        /\ src'.closed = src.closed /\ src'.failed = src.failed /\ src'.queue = src.queue
    BY <1>0, <1>9 DEF Sources
  <2>4. SourceOK(src')
    BY <1>0, <1>5, <1>9, <2>2, <2>3, Holders DEF SourceOK, Talking
  <2>5. StreamInv'
    BY <1>2, <1>2a, <1>2b, <1>5b, <1>5c, <1>9, <2>1, <2>3, <2>4, DecodedSource
  <2>6. Shown(src') = "UP" /\ (Shown(src) = "UP" \/ (Shown(src) = "CONNECTING" /\ src.queue = 0))
    BY <1>0, <1>5, <1>9, <2>3 DEF Shown, Talking, SourceOK, Sources
  <2> QED
    BY <2>3, <2>5, <2>6 DEF Carries, FeedMoves, Feed!Moves
<1>10. ASSUME ~Stale(s), consumer' = Woken, ~Refused(s, "bar"),
              src' = [src EXCEPT !.queue = @ + 1, !.attempt = 0], sock' = rest
       PROVE  Carries
  <2>1. src.ack /\ src.queue + 1 \in 0..MaxQueue /\ 0 \in 0..Budget
    BY <1>0, <1>10, StreamBounds DEF Refused, Sources
  <2> DEFINE q == src.queue + 1
  <2>1a. src' = [src EXCEPT !.queue = q, !.attempt = 0]
    BY <1>10
  <2>1b. q \in 0..MaxQueue
    BY <2>1
  <2>2. src' \in Sources
    BY <1>0, <2>1, <2>1a, <2>1b DEF Sources, States
  <2>3. /\ src'.state = src.state /\ src'.ack = src.ack /\ src'.gen = src.gen /\ src'.socket = src.socket
        /\ src'.closed = src.closed /\ src'.failed = src.failed /\ src'.queue = q
    BY <1>0, <2>1a DEF Sources
  <2>4. SourceOK(src')
    BY <1>0, <2>1, <2>2, <2>3 DEF SourceOK
  <2>5. StreamInv'
    BY <1>2, <1>2a, <1>2b, <1>5, <1>5a, <1>5b, <1>5c, <1>10, <2>1, <2>3, <2>4, DecodedSource
  <2>6. Shown(src') = "UP" /\ Shown(src) = "UP"
    BY <1>0, <2>1, <2>3 DEF Shown, SourceOK
  <2> QED
    BY <2>3, <2>5, <2>6 DEF Carries, FeedMoves
<1>11. ASSUME ~Stale(s), consumer' = Woken, sock' = rest, UNCHANGED src PROVE Carries
  <2>1. StreamInv'
    BY <1>0, <1>2, <1>2a, <1>2b, <1>5, <1>5a, <1>5b, <1>5c, <1>11, DecodedSource
  <2> QED
    BY <1>11, <2>1, SameSource DEF Carries
<1> QED
  BY <1>3, <1>4, <1>6, <1>7, <1>8, <1>9, <1>10, <1>11

----------------------------------------------------------------------------
(* The theorems.                                                            *)

(* Every step of the source keeps the invariant, and is a step of the feed or leaves it as it is. *)
LEMMA StepCarries == StreamInv /\ [Next]_vars => Carries
<1> SUFFICES ASSUME StreamInv, [Next]_vars PROVE Carries
  OBVIOUS
<1>1. CASE UNCHANGED vars
  <2>1. UNCHANGED src /\ UNCHANGED sock /\ consumer' = consumer /\ Calmer(sock, sock)
    BY <1>1 DEF vars, Calmer, StreamInv
  <2>2. src.ack => src.gen \in Slots
    BY DEF StreamInv, SourceOK, Sources
  <2> QED
    BY <2>1, <2>2, SocketStepKeeps DEF StreamInv, SocketsOK, Subscribed
<1>2. CASE Bars \/ Loop \/ AskNext \/ Close \/ Reconnect \/ CloseDeadline
  BY <1>2, BarsCarries, LoopCarries, AskNextCarries, CloseCarries, ReconnectCarries, CloseDeadlineCarries
<1>3. ASSUME NEW s \in Slots, ErrorEvent(s) \/ CloseEvent(s) \/ HandshakeTimeout(s) PROVE Carries
  BY <1>3, FailureEventsCarry
<1>4. ASSUME NEW s \in Slots, Forgotten(s) \/ Decoded(s) \/ \E m \in Messages : Receive(s, m) PROVE Carries
  BY <1>4, ForgottenCarries, DecodedCarries, ReceiveCarries
<1> QED
  BY <1>1, <1>2, <1>3, <1>4 DEF Next

(* A new source has no socket and nothing in its queue. *)
LEMMA InitIsClean == Init => StreamInv /\ Shown(src) = "IDLE" /\ src.queue = 0
<1> SUFFICES ASSUME Init PROVE StreamInv /\ Shown(src) = "IDLE" /\ src.queue = 0
  OBVIOUS
<1>1. 0 \in 0..MaxQueue /\ 0 \in 0..Budget /\ << >> \in Seq(Messages)
  BY StreamBounds
<1>2. src \in Sources
  BY <1>1 DEF Init, Sources, States
<1>3. /\ src.state = "DISCONNECTED" /\ src.gen = Nobody /\ ~src.ack /\ src.queue = 0 /\ ~src.failed /\ ~src.closed
  BY DEF Init
<1>4. SourceOK(src)
  BY <1>2, <1>3, Holders DEF SourceOK
<1>5. NoSocket \in Sockets /\ NoSocket.phase = "NONE" /\ ~NoSocket.sub
  BY <1>1 DEF NoSocket, Sockets
<1>6. sock \in [Slots -> Sockets] /\ \A s \in Slots : sock[s] = NoSocket
  BY <1>5 DEF Init
<1>7. SocketsOK
  BY <1>3, <1>5, <1>6 DEF SocketsOK, Alone, OfSource, Subscribed, InOrder, Unread, Live
<1>8. consumer \in Consumers
  BY DEF Init, Consumers
<1> QED
  BY <1>3, <1>4, <1>6, <1>7, <1>8 DEF StreamInv, Shown

(* However sockets fail, time out, close late and are replaced, the source, its sockets and its consumer *)
(* stay consistent.                                                                                      *)
THEOREM StreamInvariance == Spec => []StreamInv
<1>1. StreamInv /\ [Next]_vars => StreamInv'
  BY StepCarries DEF Carries
<1> QED
  BY <1>1, InitIsClean, PTL DEF Spec

(* The values the source, its sockets and its consumer take. *)
THEOREM StreamTypes == Spec => []TypeOK
<1>1. StreamInv => TypeOK
  BY DEF StreamInv, SourceOK, Sources, States, Consumers, TypeOK
<1> QED
  BY <1>1, StreamInvariance, PTL

(* connect() waits for the socket it replaces: two never exist at once, however slowly close() completes. *)
THEOREM SocketsDoNotOverlap == Spec => []NoOverlap
<1>1. StreamInv => NoOverlap
  <2> SUFFICES ASSUME StreamInv PROVE NoOverlap
    OBVIOUS
  <2> DEFINE L == {s \in Slots : sock[s].phase \in {"OPEN", "CLOSING"}}
  <2>1. \A s, t \in L : s = t
    BY DEF StreamInv, SocketsOK, Alone, Live
  <2>2. CASE L = {}
    BY <2>2, FS_EmptySet DEF NoOverlap
  <2>3. CASE L # {}
    <3>1. PICK s \in L : TRUE
      BY <2>3
    <3>2. L = {s}
      BY <2>1, <3>1
    <3>3. Cardinality(L) = 1
      BY <3>2, FS_Singleton
    <3> QED
      BY <3>3 DEF NoOverlap
  <2> QED
    BY <2>2, <2>3
<1> QED
  BY <1>1, StreamInvariance, PTL

(* An acknowledged subscription is of the socket in use: no late message, error, timer or close event of a *)
(* socket that was replaced acknowledges, or lets stand, a subscription of another.                        *)
THEOREM SubscriptionIsCurrent == Spec => []AcknowledgedIsCurrent
<1>1. StreamInv => AcknowledgedIsCurrent
  BY DEF StreamInv, SourceOK, Sources, SocketsOK, Subscribed, AcknowledgedIsCurrent
<1> QED
  BY <1>1, StreamInvariance, PTL

(* The source implements the feed the workers are modelled with: bars are handed out only while it is up, a *)
(* connection takes its bars along, and failing or closing is final.                                        *)
THEOREM SourceIsFeed == Spec => FeedSpec
<1>1. Init => Feed!Init
  BY InitIsClean DEF Feed!Init, Shown
<1>2. StreamInv /\ [Next]_vars => [Feed!Move \/ Feed!Bar]_<<Shown(src), src.queue>>
  <2> SUFFICES ASSUME StreamInv, FeedMoves(src, src') PROVE [Feed!Move \/ Feed!Bar]_<<Shown(src), src.queue>>
    BY StepCarries DEF Carries
  <2>1. Shown(src)' = Shown(src')
    BY DEF Shown
  <2> QED
    BY <2>1 DEF FeedMoves, Feed!Move, Feed!Bar, Shown
<1> QED
  BY <1>1, <1>2, StreamInvariance, PTL DEF Spec, FeedSpec, Feed!Spec, Shown

(* The safety of the source in one: its values, its one socket and its current subscription. *)
THEOREM SourceSafety == Spec => []SourceInv
BY StreamTypes, SocketsDoNotOverlap, SubscriptionIsCurrent, PTL DEF SourceInv
=============================================================================
