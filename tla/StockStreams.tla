---------------------------- MODULE StockStreams ----------------------------
(***************************************************************************)
(* The two sockets of the stock worker (alpaca.server.ts): the bars of      *)
(* AlpacaMarketSource.bars(), a generator that its caller drains, and the   *)
(* order updates of AlpacaPaperTradeUpdates.connect(), which calls back.    *)
(* Alpaca and the local relay are external.                                *)
(*                                                                         *)
(* A frame is one message; a listener puts its frame in a chain of          *)
(* promises (messageQueue), because the text of a Blob arrives later.       *)
(***************************************************************************)
EXTENDS Naturals, Sequences

CONSTANTS
  MaxBars,    \* bound: bars, and order updates, that the server sends
  MaxInbox    \* bound: frames of a socket that wait to be decoded

VARIABLES
  market,  \* the data socket: its server's view, messageQueue, queue, failure and what bars() yielded
  reader,  \* bars(): "new" (next() not called yet), "runs", "asleep" (wake is set), "given" (a bar yielded),
           \* "thrown" or "left"
  trade    \* the order socket: its server's view, the listeners' variables and what the callbacks were told

vars == <<market, reader, trade>>

Init ==
  /\ market = [relay |-> FALSE, phase |-> "none", inbox |-> << >>, sent |-> 0,
               queue |-> << >>, failure |-> FALSE, took |-> << >>]
  /\ reader = "new"
  /\ trade = [phase |-> "dialled", inbox |-> << >>, sent |-> 0, subscribed |-> FALSE, authorized |-> FALSE,
              listenSent |-> FALSE, ready |-> FALSE, failed |-> FALSE, seen |-> << >>]

Closed == "closed"
Open(s) == s.phase \notin {"none", "dialled", Closed}
Got(s, frame) == [s EXCEPT !.inbox = Append(@, frame)]
Room(s) == Len(s.inbox) < MaxInbox

----------------------------------------------------------------------------
(* The market data server, and the relay.                                   *)

\* The handshake of Alpaca: "connected", and an answer to "auth".
MarketGreets ==
  /\ Room(market) /\ ~market.relay
  /\ \/ market.phase = "open" /\ market' = Got([market EXCEPT !.phase = "greeted"], [is |-> "connected", n |-> 0])
     \/ market.phase = "auth" /\ market' = Got([market EXCEPT !.phase = "authed"], [is |-> "authenticated", n |-> 0])
  /\ UNCHANGED <<reader, trade>>

\* A bar of this symbol.
MarketBar ==
  /\ market.phase = "subscribed" /\ Room(market) /\ market.sent < MaxBars
  /\ market' = Got([market EXCEPT !.sent = @ + 1], [is |-> "bar", n |-> market.sent + 1])
  /\ UNCHANGED <<reader, trade>>

\* An error of Alpaca (402, 406), the notice of a relay that lost its own source, or text that is no JSON.
MarketTrouble ==
  /\ Open(market) /\ Room(market)
  /\ market' = Got(market, [is |-> "trouble", n |-> 0])
  /\ UNCHANGED <<reader, trade>>

----------------------------------------------------------------------------
(* AlpacaMarketSource.bars()                                                *)

\* Mutant: the wake-up is forgotten.
Unsignalled == reader
\* signal()
Signal == IF reader = "asleep" THEN "runs" ELSE reader

\* The first next() of the caller runs the body as far as the loop; localFeedUrl says whether it dials the relay.
Iterates ==
  /\ reader = "new"
  /\ \E relay \in BOOLEAN : market' = [market EXCEPT !.relay = relay, !.phase = "dialled"]
  /\ reader' = "runs"
  /\ UNCHANGED trade

\* The open listener: a relay needs no credentials.
MarketOpens ==
  /\ market.phase = "dialled"
  /\ market' = [market EXCEPT !.phase = IF market.relay THEN "subscribed" ELSE "open"]
  /\ UNCHANGED <<reader, trade>>

\* The close listener; an error event is followed by a close and says the same.
MarketCloses ==
  /\ market.phase \notin {"none", Closed}
  /\ market' = [market EXCEPT !.phase = Closed, !.failure = TRUE]
  /\ reader' = Signal
  /\ UNCHANGED trade

\* send() on a socket that is no longer open is discarded.
Step(s, from, to) == IF s.phase = from THEN [s EXCEPT !.phase = to] ELSE s

\* One frame; a bar whose minute has not elapsed by this machine's clock is dropped (closedBarFromAlpaca()).
Understood(m, frame, elapsed) ==
  CASE frame.is = "connected" -> Step(m, "greeted", "auth")
    [] frame.is = "authenticated" -> Step(m, "authed", "subscribed")
    [] frame.is = "bar" -> IF elapsed THEN [m EXCEPT !.queue = Append(@, frame.n)] ELSE m
    [] OTHER -> [m EXCEPT !.failure = TRUE]

Without(s, i) == SubSeq(s, 1, i - 1) \o SubSeq(s, i + 1, Len(s))
\* Mutant: a listener decodes its frame by itself.
Unchained(s) == 1..Len(s.inbox)
\* messageQueue: the frames are decoded one after the other.
Chain(s) == {1} \cap 1..Len(s.inbox)

MarketDecoded ==
  \E i \in Chain(market), elapsed \in BOOLEAN :
    /\ elapsed \/ market.inbox[i].is = "bar"
    /\ market' = [Understood(market, market.inbox[i], elapsed) EXCEPT !.inbox = Without(market.inbox, i)]
    /\ reader' = Signal
    /\ UNCHANGED trade

\* The loop of the generator: a failure goes before the bars that are queued.
Reads ==
  /\ reader = "runs"
  /\ \/ market.failure /\ reader' = "thrown" /\ market' = [market EXCEPT !.phase = Closed]
     \/ /\ ~market.failure /\ market.queue # << >>
        /\ reader' = "given"
        /\ market' = [market EXCEPT !.queue = Tail(@), !.took = Append(@, Head(market.queue))]
     \/ ~market.failure /\ market.queue = << >> /\ reader' = "asleep" /\ UNCHANGED market
  /\ UNCHANGED trade

\* The caller is done with the bar: it asks for the next, or leaves the loop.
AsksAgain == reader = "given" /\ reader' = "runs" /\ UNCHANGED <<market, trade>>
Leaves ==
  /\ reader = "given"
  /\ reader' = "left" /\ market' = [market EXCEPT !.phase = Closed]
  /\ UNCHANGED trade

----------------------------------------------------------------------------
(* The trade update server: it answers "auth" and "listen", and sends the   *)
(* updates of orders once it has a subscription.                            *)

TradeSays(frame, t) == Room(trade) /\ trade' = Got(t, frame) /\ UNCHANGED <<market, reader>>

TradeAuthorizes ==
  /\ trade.phase = "auth"
  /\ \E is \in {"authorized", "unauthorized"} : TradeSays([is |-> is, n |-> 0], [trade EXCEPT !.phase = is])
\* The answer names the streams that it granted.
TradeAcknowledges ==
  /\ trade.phase = "listen"
  /\ \E granted \in BOOLEAN :
       TradeSays([is |-> IF granted THEN "listening" ELSE "refused", n |-> 0],
                 [trade EXCEPT !.phase = "answered", !.subscribed = @ \/ granted])
\* The subscription may be live before its acknowledgement is sent.
TradeSubscribes ==
  /\ trade.phase = "listen" /\ ~trade.subscribed
  /\ trade' = [trade EXCEPT !.subscribed = TRUE]
  /\ UNCHANGED <<market, reader>>
TradeReports ==
  /\ trade.subscribed /\ Open(trade) /\ trade.sent < MaxBars
  /\ TradeSays([is |-> "update", n |-> trade.sent + 1], [trade EXCEPT !.sent = @ + 1])
TradeGarbles == Open(trade) /\ TradeSays([is |-> "garbled", n |-> 0], trade)

----------------------------------------------------------------------------
(* AlpacaPaperTradeUpdates.connect()                                        *)

\* The open listener sends "auth".
TradeOpens ==
  /\ trade.phase = "dialled" /\ trade' = [trade EXCEPT !.phase = "auth"]
  /\ UNCHANGED <<market, reader>>

\* The close and error listeners; the worker's disconnect() closes too.
TradeCloses ==
  /\ trade.phase # Closed
  /\ trade' = [trade EXCEPT !.phase = Closed, !.failed = TRUE]
  /\ UNCHANGED <<market, reader>>

\* Mutants: any answer to "listen" is an acknowledgement; an update that is too early is ignored.
AckedBy(frame) == frame.is \in {"listening", "refused"}
Early(t) == t
\* The data of a "listening" message includes trade_updates.
Acknowledges(frame) == frame.is = "listening"
TooEarly(t) == [t EXCEPT !.failed = TRUE]

Handled(t, frame) ==
  CASE frame.is = "authorized" -> Step([t EXCEPT !.authorized = TRUE, !.listenSent = TRUE], "authorized", "listen")
    [] frame.is \in {"listening", "refused"} ->
         IF t.authorized /\ t.listenSent /\ Acknowledges(frame) THEN [t EXCEPT !.ready = TRUE]
         ELSE [t EXCEPT !.failed = TRUE]
    [] frame.is = "update" -> IF t.ready THEN [t EXCEPT !.seen = Append(@, frame.n)] ELSE TooEarly(t)
    [] OTHER -> [t EXCEPT !.failed = TRUE]

TradeDecoded ==
  \E i \in Chain(trade) :
    /\ trade' = [Handled(trade, trade.inbox[i]) EXCEPT !.inbox = Without(trade.inbox, i)]
    /\ UNCHANGED <<market, reader>>

----------------------------------------------------------------------------
MarketNext == Iterates \/ MarketGreets \/ MarketBar \/ MarketTrouble \/ MarketOpens \/ MarketCloses \/ MarketDecoded
              \/ Reads \/ AsksAgain \/ Leaves
TradeNext == TradeAuthorizes \/ TradeAcknowledges \/ TradeSubscribes \/ TradeReports \/ TradeGarbles
             \/ TradeOpens \/ TradeCloses \/ TradeDecoded
Next == MarketNext \/ TradeNext

Spec == Init /\ [][Next]_vars

\* The loop of the generator runs once it is woken; servers, the network and the caller promise nothing.
Fairness == WF_vars(Reads)
FairSpec == Spec /\ Fairness

----------------------------------------------------------------------------
(* Properties                                                               *)

\* The caller gets the bars in the order of the stream, none twice, whatever their decoding takes.
BarsInOrder == \A i, j \in DOMAIN market.took : i < j => market.took[i] < market.took[j]

\* An order update is not lost in silence: each one the server sent was passed on in its place, or is still to be
\* decoded, in its turn, unless onError was called (from then on the worker reconciles with the broker).
Waits(n) == \E i \in DOMAIN trade.inbox : trade.inbox[i].n = n
PassedOn == \A n \in DOMAIN trade.seen : trade.seen[n] = n /\ n <= trade.sent
InTurn ==
  \A i \in DOMAIN trade.inbox : trade.inbox[i].n > 0 =>
    /\ Len(trade.seen) < trade.inbox[i].n /\ trade.inbox[i].n <= trade.sent
    /\ \A j \in 1..(i - 1) : trade.inbox[j].n < trade.inbox[i].n
NoSilentLoss ==
  trade.failed \/ (PassedOn /\ InTurn /\ \A n \in 1..trade.sent : n \in DOMAIN trade.seen \/ Waits(n))

\* onReady, which lets the worker count on updates, is called only for a subscription the server has granted.
ReadyIsSubscribed == trade.ready => trade.subscribed

\* A stream that failed or closed tells its reader, even one that sleeps: bars() throws, unless the caller is
\* still busy with a bar.
EndIsTold == market.failure ~> reader \in {"thrown", "given", "left"}

----------------------------------------------------------------------------
(* The inductive invariant.                                                 *)

MarketFrames == [is : {"connected", "authenticated", "bar", "trouble"}, n : Nat]
TradeFrames == [is : {"authorized", "unauthorized", "listening", "refused", "update", "garbled"}, n : Nat]
MarketPhases == {"none", "dialled", "open", "greeted", "auth", "authed", "subscribed", Closed}
TradePhases == {"dialled", "auth", "authorized", "unauthorized", "listen", "answered", Closed}

TypeOK ==
  /\ market \in [relay : BOOLEAN, phase : MarketPhases, inbox : Seq(MarketFrames), sent : Nat,
                 queue : Seq(Nat), failure : BOOLEAN, took : Seq(Nat)]
  /\ reader \in {"new", "runs", "asleep", "given", "thrown", "left"}
  /\ trade \in [phase : TradePhases, inbox : Seq(TradeFrames), sent : Nat, subscribed : BOOLEAN, authorized : BOOLEAN,
                listenSent : BOOLEAN, ready : BOOLEAN, failed : BOOLEAN, seen : Seq(Nat)]

\* A bar is newer than those that came before it, wherever they are: with the caller, in the queue or to be decoded.
Ascends(s) == \A i, j \in DOMAIN s : i < j => s[i] < s[j]
BarsAscend ==
  /\ Ascends(market.took) /\ Ascends(market.queue)
  /\ \A i \in DOMAIN market.took : market.took[i] <= market.sent
  /\ \A i \in DOMAIN market.queue :
       market.queue[i] <= market.sent /\ \A k \in DOMAIN market.took : market.took[k] < market.queue[i]
  /\ \A i \in DOMAIN market.inbox : market.inbox[i].is = "bar" =>
       /\ market.inbox[i].n <= market.sent
       /\ \A k \in DOMAIN market.took : market.took[k] < market.inbox[i].n
       /\ \A k \in DOMAIN market.queue : market.queue[k] < market.inbox[i].n
       /\ \A k \in 1..(i - 1) : market.inbox[k].is = "bar" => market.inbox[k].n < market.inbox[i].n

\* Only an update has a number, and an acknowledgement that waits is of a subscription.
TradeFramesAreTrue ==
  \A i \in DOMAIN trade.inbox :
    /\ trade.inbox[i].n > 0 <=> trade.inbox[i].is = "update"
    /\ trade.inbox[i].is = "listening" => trade.subscribed

MarketInv == TypeOK /\ BarsAscend
TradeInv == TypeOK /\ TradeFramesAreTrue /\ NoSilentLoss /\ ReadyIsSubscribed
=============================================================================
