------------------------------ MODULE MCLiveness ------------------------------
(***************************************************************************)
(* The components that are checked for progress too, in one run of TLC:     *)
(* part says whose behaviour it is, the others rest in a state in which     *)
(* fairness asks nothing of them.                                           *)
(***************************************************************************)
EXTENDS CryptoStream

CONSTANTS
  NRuns, MaxMinute, Window, MinSuffix, Chunk, Sparse, Contested,
  MaxSlots, MaxSignals, Polls, MaxRecovery,
  MaxToken,
  Instances, MaxFaults,
  MaxBars, MaxFrames,
  MaxSessions,
  Viewers, Requests, Sessions, MaxTrouble

VARIABLES
  part,
  clock, bars, disputed, cp, lease, row, w, served,
  room, peer, slots, poll, relay,
  header, expired, rejected, failed, call, outcome, hook,
  backend, engine, memo, pass, chain, applied, effects, faults,
  market, reader, trade,
  preview, made, alive, jar, bearer, flow, request, popup, grace,
  viewer, db, browser, req, shown, trouble

cryptoVars == <<src, sock, consumer>>
btcVars == <<clock, bars, disputed, cp, lease, row, w, served>>
roomVars == <<room, peer, slots, poll, relay>>
connectorVars == <<header, expired, rejected, failed, call, outcome, hook>>
dbVars == <<backend, engine, memo, pass, chain, applied, effects, faults>>
stockVars == <<market, reader, trade>>
signInVars == <<preview, made, alive, jar, bearer, flow, request, popup, grace>>
gateVars == <<viewer, db, browser, req, shown, trouble>>

\* The newer deployment brings a migration that sorts before the two the older one knows.
Files == [i \in Instances |-> IF i = "old" THEN {2, 3} ELSE {1, 2, 3}]

Btc == INSTANCE DurableMarketWorker
Room == INSTANCE P2PRoom
Ready == INSTANCE Connector WITH memo <- failed, result <- outcome
Boot == INSTANCE Db
Stock == INSTANCE StockStreams WITH MaxInbox <- MaxFrames
Sign == INSTANCE SignIn
Gate == INSTANCE GateSession

Parts == {"crypto", "btc", "p2p", "connector", "db", "stock", "signin", "gate"}

\* A room that was left, a database that is open, a deployed page nobody signs in to.
RoomRests == room = [dialer |-> FALSE, closed |-> TRUE, joined |-> FALSE, armed |-> FALSE, cursor |-> 0]
             /\ peer = 0 /\ slots = << >> /\ poll = [k \in Polls |-> Room!Idle] /\ relay = [log |-> << >>, present |-> FALSE]
DbRests == backend = "neon" /\ engine = "open" /\ memo = [m \in Instances |-> "ready"] /\ pass = [m \in Instances |-> Boot!NoPass]
           /\ chain = "none" /\ applied = {} /\ effects = [f \in {} |-> 0] /\ faults = 0

LivenessInit ==
  /\ part \in Parts
  /\ Init /\ Btc!Init /\ Ready!Init /\ Stock!Init /\ Gate!Init
  /\ IF part = "p2p" THEN Room!Init ELSE RoomRests
  /\ IF part = "db" THEN Boot!Init ELSE DbRests
  /\ Sign!Init /\ (part # "signin" => ~preview)

Rests(its, vs) == IF part = its THEN TRUE ELSE UNCHANGED vs
Others ==
  /\ UNCHANGED part
  /\ Rests("crypto", cryptoVars) /\ Rests("btc", btcVars) /\ Rests("p2p", roomVars) /\ Rests("connector", connectorVars)
  /\ Rests("db", dbVars) /\ Rests("stock", stockVars) /\ Rests("signin", signInVars) /\ Rests("gate", gateVars)

LivenessNext ==
  \/ part = "crypto" /\ Next /\ Others
  \/ part = "btc" /\ Btc!Next /\ Others
  \/ part = "p2p" /\ Room!Next /\ Others
  \/ part = "connector" /\ Ready!Next /\ Others
  \/ part = "db" /\ Boot!Next /\ Others
  \/ part = "stock" /\ Stock!MarketNext /\ Others
  \/ part = "signin" /\ Sign!Next /\ Others
  \/ part = "gate" /\ Gate!Next /\ Others
LivenessSpec ==
  /\ LivenessInit
  /\ [][LivenessNext]_<<part, cryptoVars, btcVars, roomVars, connectorVars, dbVars, stockVars, signInVars, gateVars>>
  /\ Fairness /\ Btc!Fairness /\ Room!Fairness /\ Ready!Fairness /\ Boot!Fairness /\ Stock!Fairness /\ Sign!Fairness /\ Gate!Fairness

\* The streams connect or fail, and their readers learn of the end.
StreamsSettle == Settles /\ ConsumerLearns /\ Stock!EndIsTold

\* The BTC worker: its start and its stop come to an end.
WorkerSettles == Btc!StartupEnds /\ Btc!WorkerEnds

=============================================================================
