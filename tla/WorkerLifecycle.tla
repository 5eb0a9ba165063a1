-------------------------- MODULE WorkerLifecycle --------------------------
(***************************************************************************)
(* One AlpacaPaperWorker object over its life: start(), stop(),             *)
(* reconcile(), halt(), the market consumer, the trade update socket, their *)
(* recoveries and reconnect timers (alpaca-worker.server.ts).               *)
(*                                                                         *)
(* Every asynchronous call is a task; its pc names the await it is in.  An   *)
(* action is what the awaited statement or message does together with the   *)
(* local code up to the next await.  Of the database the module keeps the   *)
(* lease and the row of this run.  PaperDispatch has the order path: here a *)
(* broker read, or the work on a bar or a trade update, only succeeds,       *)
(* throws or halts.                                                        *)
(***************************************************************************)
EXTENDS Naturals

CONSTANTS
  Calls,     \* which calls the environment makes: stop(), reconcile(), trade updates
  MaxCalls   \* bound: how many of them in all

ASSUME LifecycleAssumption == Calls \subseteq {"stop", "operator", "update"} /\ MaxCalls \in Nat

VARIABLES
  w,       \* the AlpacaPaperWorker object, its sockets, timers and unawaited statements
  db,      \* the lease of the worker key and worker_runs.state of this run
  pc,      \* where each task waits
  resume,  \* where a task goes on when the halt() it awaits returns
  dirty,   \* history: streams that failed and were not reconciled since
  covers,  \* history: streams that are not dirty by a failure since the task began to reconcile
  calls    \* how often start() and each of Calls were called

vars == <<w, db, pc, resume, dirty, covers, calls>>

Streams == {"market", "trade"}
Reconcilers == Streams \cup {"operator"}
Tasks == Reconcilers \cup {"start", "stop", "update"}

\* timers: sleeping reconnects of the current reconnectGeneration, and of older ones.
\* floating: checkpoint writes (void this.persistCheckpoint()) and a renewal nobody awaits.
\* renews: the renewal interval is set.  alive: no unhandled rejection has ended the process.
WorkerInit == [
  state |-> "STOPPED", owned |-> FALSE, stopped |-> FALSE, renews |-> FALSE,
  consuming |-> FALSE, marketSocket |-> "none", tradeSocket |-> "none",
  scheduled |-> {}, fresh |-> [s \in Streams |-> 0], stale |-> [s \in Streams |-> 0],
  inFlight |-> FALSE, floating |-> {}, alive |-> TRUE]

Init ==
  /\ w = WorkerInit
  /\ db \in [lease : {"free", "other"}, row : {"NONE"}]
  /\ pc = [t \in Tasks |-> "idle"] /\ resume = [t \in Tasks |-> "idle"]
  /\ dirty = {} /\ covers = [t \in Tasks |-> {}]
  /\ calls = [c \in {"start", "stop", "operator", "update"} |-> 0]

----------------------------------------------------------------------------
(* The run row and the lease                                                *)

RowAccepts(s) == db.row = "ACTIVE" \/ db.row = s
\* Mutant: the state is read when the statement runs, not when it was called.
RowWrittenLate(s) == IF RowAccepts(s) THEN [db EXCEPT !.row = w.state] ELSE db
RowWritten(s) == IF RowAccepts(s) THEN [db EXCEPT !.row = s] ELSE db
Fenced == db.lease # "mine"

----------------------------------------------------------------------------
(* Local code without an await, as functions of the worker object           *)

\* reconnectGeneration += 1: a timer that sleeps now will find it changed.
Cancelled(o) == [o EXCEPT
  !.stale = [s \in Streams |-> @[s] + o.fresh[s]],
  !.fresh = [s \in Streams |-> 0], !.scheduled = {}]

\* An unhandled rejection ends the process, and its memory and sockets with it.
Dead == [WorkerInit EXCEPT !.alive = FALSE]

\* loseOwnership
NothingToLose(o) == o.state = "HALTED" /\ ~o.owned
Lost(o) ==
  IF NothingToLose(o) THEN o
  ELSE [Cancelled(o) EXCEPT !.state = "HALTED", !.owned = FALSE, !.stopped = TRUE,
                            !.renews = FALSE, !.tradeSocket = "none"]
\* Mutant: the loss of the lease leaves the run row as it is.
LostRowUnwritten == db
LostRow == IF NothingToLose(w) THEN db ELSE RowWritten("HALTED")
Lose == w' = Lost(w) /\ db' = LostRow

\* halt() before its first await
Halting(o) == [Cancelled(o) EXCEPT !.state = "HALTED", !.renews = FALSE]

\* releaseOwnership: by the worker's own token, so only a lease it still holds.
Released == [w EXCEPT !.owned = FALSE]
Freed == IF w.owned /\ ~Fenced THEN [db EXCEPT !.lease = "free"] ELSE db

\* scheduleMarketReconnect, scheduleTradeReconnect
Scheduling(o, s) ==
  IF s \in o.scheduled \/ o.stopped \/ o.state # "READY" THEN o
  ELSE [o EXCEPT !.scheduled = @ \cup {s}, !.fresh[s] = @ + 1]

\* Mutant: tradeRecoveryInFlight is reset on the path to the reconnect only.
ReturnedWithoutFinally(o, t) ==
  CASE t = "trade" /\ o.state = "READY" -> [Scheduling(o, t) EXCEPT !.inFlight = FALSE]
    [] t \in Streams                    -> Scheduling(o, t)
    [] OTHER                            -> o
\* What the caller does when reconcile() has returned.
Returned(o, t) ==
  CASE t = "market" -> Scheduling(o, t)
    [] t = "trade"  -> [Scheduling(o, t) EXCEPT !.inFlight = FALSE]
    [] OTHER        -> o

\* persistCheckpoint rejects at once without ownership.
Floating(o, s) == IF o.owned THEN [o EXCEPT !.floating = @ \cup {s}] ELSE Dead

\* Mutant: connectTradeUpdates does not look at stopped.
ConnectedAnyway(o) ==
  IF o.tradeSocket # "none" THEN o ELSE Floating([o EXCEPT !.tradeSocket = "connecting"], "trade")
\* connectTradeUpdates
Connected(o) ==
  IF o.tradeSocket # "none" \/ o.stopped THEN o
  ELSE Floating([o EXCEPT !.tradeSocket = "connecting"], "trade")

\* startMarketConsumer
MayConsume(o) == ~o.consuming /\ ~o.stopped /\ o.state = "READY"
Consuming(o) ==
  IF MayConsume(o) THEN Floating([o EXCEPT !.consuming = TRUE], "market") ELSE o

----------------------------------------------------------------------------
(* Continuations the tasks share                                            *)

\* The environment makes call c, once start() was called.
Called(c) ==
  /\ c \in Calls /\ calls["start"] = 1
  /\ calls["stop"] + calls["operator"] + calls["update"] < MaxCalls
  /\ calls' = [calls EXCEPT ![c] = @ + 1]

Goto(t, label) == pc' = [pc EXCEPT ![t] = label] /\ UNCHANGED resume
Ends(t) == Goto(t, "idle")

\* halt() when the task goes on at label afterwards
Halt(t, label) ==
  \/ /\ w.owned
     /\ w' = Halting(w) /\ UNCHANGED db
     /\ pc' = [pc EXCEPT ![t] = "haltRow"] /\ resume' = [resume EXCEPT ![t] = label]
  \/ /\ ~w.owned
     /\ Lose /\ Goto(t, label)

\* persistCheckpoint found the lease gone; its throw ends the call.
LosesAndReturns(t) == w' = Returned(Lost(w), t) /\ db' = LostRow /\ Ends(t)

\* A statement of start() or reconcile() threw: their catch halts unless stop() came first.
Throws(t) ==
  \/ /\ w.stopped
     /\ w' = Returned(w, t) /\ UNCHANGED db /\ Ends(t)
  \/ /\ ~w.stopped /\ w.owned
     /\ Halt(t, "returned")
  \/ /\ ~w.stopped /\ ~w.owned
     /\ LosesAndReturns(t)

\* Mutant: bars() has no finally and leaves its socket open.
ConsumerLeaksSocket(o, d) ==
  LET ended == [o EXCEPT !.consuming = FALSE]
  IN /\ db' = d /\ w' = ended
     /\ Goto("market", IF o.stopped \/ o.state = "HALTED" THEN "idle" ELSE "degraded")
\* The finally block of consume(): recover, unless the worker is stopped or halted.
ConsumerEnds(o, d) ==
  LET ended == [o EXCEPT !.consuming = FALSE, !.marketSocket = "none"]
  IN /\ db' = d
     /\ IF o.stopped \/ o.state = "HALTED" THEN w' = ended /\ Ends("market")
        ELSE IF o.owned THEN w' = ended /\ Goto("market", "degraded")
        ELSE w' = Dead /\ Ends("market")

\* reconcileInternal up to its first await
BeginReconciling(t) ==
  /\ w' = [w EXCEPT !.state = "RECONCILING"]
  /\ Goto(t, "row")

----------------------------------------------------------------------------
(* start()                                                                  *)

Start ==
  /\ calls["start"] = 0 /\ w.state = "STOPPED"
  /\ calls' = [calls EXCEPT !["start"] = 1]
  /\ w' = [w EXCEPT !.state = "STARTING", !.stopped = FALSE]
  /\ Goto("start", "create")
  /\ UNCHANGED db

Create ==
  /\ pc["start"] = "create"
  /\ db' = [db EXCEPT !.row = "ACTIVE"]
  /\ Goto("start", IF w.stopped THEN "idle" ELSE "acquire")
  /\ UNCHANGED <<w, calls>>

\* Mutant: start() returns without releaseOwnership when stop() came during the acquisition.
AcquireKeeps ==
  /\ pc["start"] = "acquire"
  /\ \/ /\ db.lease = "free"
        /\ w' = [w EXCEPT !.owned = TRUE, !.renews = ~w.stopped]
        /\ db' = [db EXCEPT !.lease = "mine"]
        /\ Goto("start", IF w.stopped THEN "idle" ELSE "checkpoint")
     \/ /\ db.lease = "other"
        /\ w' = [w EXCEPT !.state = "HALTED"] /\ UNCHANGED db
        /\ Goto("start", "refused")
  /\ UNCHANGED calls

\* A lease acquired after stop() is given back at once.
Acquire ==
  /\ pc["start"] = "acquire"
  /\ \/ /\ db.lease = "free" /\ w.stopped
        /\ UNCHANGED <<w, db>> /\ Ends("start")
     \/ /\ db.lease = "free" /\ ~w.stopped
        /\ w' = [w EXCEPT !.owned = TRUE, !.renews = TRUE]
        /\ db' = [db EXCEPT !.lease = "mine"]
        /\ Goto("start", "checkpoint")
     \/ /\ db.lease = "other"
        /\ w' = [w EXCEPT !.state = "HALTED"] /\ UNCHANGED db
        /\ Goto("start", "refused")
  /\ UNCHANGED calls

Refused ==
  /\ pc["start"] = "refused"
  /\ db' = RowWritten("HALTED") /\ Ends("start")
  /\ UNCHANGED <<w, calls>>

ReadCheckpoint ==
  /\ pc["start"] = "checkpoint"
  /\ \/ /\ w.stopped
        /\ w' = Released /\ db' = Freed /\ Ends("start")
     \/ /\ ~w.stopped
        /\ BeginReconciling("start") /\ UNCHANGED db
  /\ UNCHANGED calls

\* recoverStartupFeatureGaps, and confirmCurrentOwnership up to its await
Gaps ==
  /\ pc["start"] = "gaps"
  /\ \/ /\ UNCHANGED <<w, db>>
        /\ Goto("start", IF w.stopped \/ ~w.owned THEN "idle" ELSE "confirm")
     \/ Fenced /\ LosesAndReturns("start")
     \/ Throws("start")
  /\ UNCHANGED calls

\* The renewed lease is assigned, and then READY, whatever happened during the await.
Confirm ==
  /\ pc["start"] = "confirm"
  /\ \/ /\ ~Fenced
        /\ w' = [w EXCEPT !.owned = TRUE, !.state = "READY"] /\ UNCHANGED db
        /\ Goto("start", "save")
     \/ Fenced /\ LosesAndReturns("start")
     \/ Throws("start")
  /\ UNCHANGED calls

\* The second confirmCurrentOwnership, connectTradeUpdates and startMarketConsumer
Connect ==
  /\ pc["start"] = "connect"
  /\ \/ /\ ~Fenced
        /\ LET o == [w EXCEPT !.owned = TRUE]
           IN /\ w' = Consuming(Connected(o))
              /\ pc' = [pc EXCEPT !["start"] = "idle",
                                  !["market"] = IF MayConsume(o) THEN "open" ELSE @]
        /\ UNCHANGED <<db, resume>>
     \/ Fenced /\ LosesAndReturns("start")
     \/ Throws("start")
  /\ UNCHANGED calls

----------------------------------------------------------------------------
(* reconcileInternal(), in start() and in reconcile()                       *)

\* It is complete: start() goes on to the feature gaps, reconcile() says READY and saves.
Reconciled(t) ==
  \/ /\ w.stopped
     /\ w' = Returned(w, t) /\ Ends(t)
     /\ UNCHANGED db
  \/ /\ ~w.stopped
     /\ \/ /\ t = "start" /\ Goto(t, "gaps") /\ UNCHANGED <<w, db>>
        \/ /\ t # "start" /\ w.owned
           /\ w' = [w EXCEPT !.state = "READY"] /\ UNCHANGED db /\ Goto(t, "save")
        \/ \* persistCheckpoint throws at once and the catch halts without ownership
           /\ t # "start" /\ ~w.owned
           /\ w' = Returned(Lost([w EXCEPT !.state = "READY"]), t)
           /\ db' = RowWritten("HALTED") /\ Ends(t)

Row(t) ==
  /\ pc[t] = "row"
  /\ \/ /\ RowAccepts("ACTIVE") /\ Goto(t, "equity")
        /\ UNCHANGED <<w, db>>
     \/ /\ ~RowAccepts("ACTIVE") /\ ~NothingToLose(w)
        /\ LosesAndReturns(t)
     \/ /\ ~RowAccepts("ACTIVE") /\ NothingToLose(w)
        /\ Reconciled(t)
     \/ Throws(t)
  /\ UNCHANGED calls

\* The account, and the checkpoint with its high water mark
Equity(t) ==
  /\ pc[t] = "equity"
  /\ \/ /\ ~Fenced /\ w.owned /\ ~w.stopped /\ Goto(t, "read")
        /\ UNCHANGED <<w, db>>
     \/ ~Fenced /\ w.owned /\ w.stopped /\ Reconciled(t)
     \/ Fenced /\ w.owned /\ LosesAndReturns(t)
     \/ Throws(t)
  /\ UNCHANGED calls

\* Position, open orders and intents; a dispatch() among them may itself await a halt().
Read(t) ==
  /\ pc[t] = "read"
  /\ \/ Reconciled(t)
     \/ w.owned /\ Halt(t, "read")
     \/ Throws(t)
  /\ UNCHANGED calls

Save(t) ==
  /\ pc[t] = "save"
  /\ \/ ~Fenced /\ Goto(t, "ready") /\ UNCHANGED <<w, db>>
     \/ Fenced /\ LosesAndReturns(t)
     \/ Throws(t)
  /\ UNCHANGED calls

Ready(t) ==
  /\ pc[t] = "ready"
  /\ \/ /\ RowAccepts("ACTIVE") /\ UNCHANGED db
        /\ \/ /\ t = "start" /\ UNCHANGED w
              /\ Goto(t, IF w.stopped \/ ~w.owned THEN "idle" ELSE "connect")
           \/ /\ t # "start" /\ w' = Returned(w, t) /\ Ends(t)
     \/ Throws(t)
  /\ UNCHANGED calls

\* reconcile() by the operator, who awaits start() first
Operator ==
  /\ Called("operator") /\ pc["start"] = "idle" /\ pc["operator"] = "idle"
  /\ w.state # "HALTED" /\ ~w.stopped
  /\ BeginReconciling("operator")
  /\ UNCHANGED db

----------------------------------------------------------------------------
(* The market consumer                                                      *)

\* consume() saved CONNECTED; bars() opens the socket without looking at stopped.
Open ==
  /\ pc["market"] = "open"
  /\ \/ /\ ~Fenced
        /\ w' = [w EXCEPT !.marketSocket = "open"] /\ UNCHANGED db /\ Goto("market", "reading")
     \/ Fenced /\ ConsumerEnds(Lost(w), LostRow)
     \/ ConsumerEnds(w, db)
  /\ UNCHANGED calls

\* A bar that finds the worker not READY ends the loop, which closes the socket.
BarArrives ==
  /\ pc["market"] = "reading"
  /\ \/ /\ w.stopped \/ w.state # "READY"
        /\ ConsumerEnds(w, db)
     \/ /\ ~w.stopped /\ w.state = "READY"
        /\ Goto("market", "bar") /\ UNCHANGED <<w, db>>
  /\ UNCHANGED calls

MarketFails ==
  /\ pc["market"] = "reading"
  /\ ConsumerEnds(w, db)
  /\ UNCHANGED calls

\* processRawBar never rejects: it halts on an error, and the consumer reads on.
Bar ==
  /\ pc["market"] = "bar"
  /\ \/ UNCHANGED <<w, db>> /\ Goto("market", "reading")
     \/ Halt("market", "reading")
     \/ Fenced /\ Lose /\ Goto("market", "reading")
  /\ UNCHANGED calls

----------------------------------------------------------------------------
(* The trade update socket                                                  *)

TradeReady ==
  /\ w.tradeSocket = "connecting"
  /\ w' = IF w.stopped \/ w.state # "READY" THEN [w EXCEPT !.tradeSocket = "open"]
          ELSE Floating([w EXCEPT !.tradeSocket = "open"], "trade")
  /\ UNCHANGED <<db, pc, resume, calls>>

\* processTradeUpdate on an open socket
TradeUpdate ==
  /\ Called("update") /\ w.tradeSocket = "open" /\ pc["update"] = "idle"
  /\ w.owned /\ ~w.stopped /\ w.state # "HALTED"
  /\ Goto("update", "update")
  /\ UNCHANGED <<w, db>>

ProjectUpdate ==
  /\ pc["update"] = "update"
  /\ \/ UNCHANGED <<w, db>> /\ Ends("update")
     \/ Halt("update", "idle")
     \/ Fenced /\ Lose /\ Ends("update")
  /\ UNCHANGED calls

\* handleTradeStreamError; an error it ignores leaves the dead socket where it is.
TradeFails ==
  /\ w.tradeSocket \in {"connecting", "open"}
  /\ IF w.stopped \/ w.state = "HALTED" \/ w.inFlight \/ "trade" \in w.scheduled
       THEN w' = [w EXCEPT !.tradeSocket = "failed"] /\ UNCHANGED <<pc, resume>>
       ELSE LET closed == [w EXCEPT !.tradeSocket = "none", !.inFlight = TRUE]
            IN IF w.owned THEN w' = closed /\ Goto("trade", "degraded")
                          ELSE w' = Dead /\ UNCHANGED <<pc, resume>>
  /\ UNCHANGED <<db, calls>>

----------------------------------------------------------------------------
(* Recovery and reconnect                                                   *)

\* Mutant: a stream reconnects without the reconciliation.
DegradedReconnects(t) ==
  /\ pc[t] = "degraded"
  /\ \/ ~Fenced /\ w' = Returned(w, t) /\ Ends(t) /\ UNCHANGED db
     \/ Fenced /\ w' = Dead /\ Ends(t) /\ db' = LostRow
  /\ UNCHANGED calls

\* recoverMarketStream and handleTradeStreamError save DEGRADED, then call reconcile().
Degraded(t) ==
  /\ pc[t] = "degraded"
  /\ \/ /\ ~Fenced /\ ~w.stopped /\ w.state # "HALTED"
        /\ BeginReconciling(t) /\ UNCHANGED db
     \/ /\ ~Fenced /\ (w.stopped \/ w.state = "HALTED")
        /\ w' = Returned(w, t) /\ Ends(t) /\ UNCHANGED db
     \/ \* the statement fails or is fenced, and the rejection is unhandled
        /\ w' = Dead /\ db' \in {db} \cup (IF Fenced THEN {LostRow} ELSE {})
        /\ Ends(t) 
  /\ UNCHANGED calls

\* A sleep ends.  It clears the flag before it compares the generation.
TimerFires(s) ==
  LET o == [w EXCEPT !.scheduled = @ \ {s}]
  IN /\ \/ /\ w.stale[s] > 0
           /\ w' = [o EXCEPT !.stale[s] = @ - 1] /\ UNCHANGED pc
        \/ /\ w.fresh[s] > 0
           /\ LET woken == [o EXCEPT !.fresh[s] = @ - 1]
              IN \/ /\ w.stopped \/ w.state # "READY"
                    /\ w' = woken /\ UNCHANGED pc
                 \/ /\ ~w.stopped /\ w.state = "READY" /\ s = "trade"
                    /\ w' = Connected(woken) /\ UNCHANGED pc
                 \/ /\ ~w.stopped /\ w.state = "READY" /\ s = "market"
                    /\ w' = Consuming(woken)
                    /\ pc' = IF MayConsume(woken) THEN [pc EXCEPT ![s] = "open"] ELSE pc
     /\ UNCHANGED <<db, resume, calls>>

----------------------------------------------------------------------------
(* halt() after its first await                                             *)

\* releaseOwnership, and halt() returns to what awaited it.
HaltReturns(t, d) ==
  /\ w' = IF resume[t] = "returned" THEN Returned(Released, t) ELSE Released
  /\ db' = IF w.owned /\ ~Fenced THEN [d EXCEPT !.lease = "free"] ELSE d
  /\ pc' = [pc EXCEPT ![t] = IF resume[t] = "returned" THEN "idle" ELSE resume[t]]
  /\ resume' = [resume EXCEPT ![t] = "idle"]

\* Its checkpoint write throws.  o has no ownership left.
HaltRejects(t, o, d) ==
  /\ resume' = [resume EXCEPT ![t] = "idle"]
  /\ db' = d
  /\ pc' = [pc EXCEPT ![t] = "idle"]
  /\ w' = CASE resume[t] = "read"    -> Returned(Lost(o), t)  \* caught by reconcile()
            [] resume[t] = "reading" ->                       \* ends the consumer
                 LET ended == [o EXCEPT !.consuming = FALSE, !.marketSocket = "none"]
                 IN IF o.stopped \/ o.state = "HALTED" THEN ended ELSE Dead
            [] resume[t] = "returned" /\ t = "market" -> Lost(o)
            [] t \in {"trade", "update"} /\ resume[t] # "read" -> Dead
            [] OTHER -> o

HaltRow(t) ==
  /\ pc[t] = "haltRow"
  /\ \/ /\ RowAccepts("HALTED") /\ w.owned
        /\ db' = RowWritten("HALTED") /\ Goto(t, "haltSave") /\ UNCHANGED w
     \/ RowAccepts("HALTED") /\ ~w.owned /\ HaltRejects(t, w, RowWritten("HALTED"))
     \/ ~RowAccepts("HALTED") /\ HaltReturns(t, db)
  /\ UNCHANGED calls

HaltSave(t) ==
  /\ pc[t] = "haltSave"
  /\ \/ ~Fenced /\ HaltReturns(t, db)
     \/ Fenced /\ HaltRejects(t, Lost(w), LostRow)
  /\ UNCHANGED calls

----------------------------------------------------------------------------
(* stop()                                                                   *)

\* Up to its first await.  resume holds whether the worker owned the lease then.
Stop ==
  /\ Called("stop") /\ calls["stop"] = 0
  /\ LET halted == w.state = "HALTED"
     IN /\ w' = [Cancelled(w) EXCEPT !.stopped = TRUE, !.renews = FALSE, !.tradeSocket = "none",
                                     !.state = IF halted THEN @ ELSE "STOPPED"]
        /\ pc' = [pc EXCEPT !["stop"] = IF ~halted THEN "stopRow"
                                        ELSE IF w.owned THEN "stopSave" ELSE "idle"]
        /\ resume' = [resume EXCEPT !["stop"] = IF w.owned THEN "stopSave" ELSE "idle"]
  /\ UNCHANGED db

StopEnds(d) ==
  /\ w' = Released
  /\ db' = IF w.owned /\ ~Fenced THEN [d EXCEPT !.lease = "free"] ELSE d
  /\ Ends("stop")

StopRow ==
  /\ pc["stop"] = "stopRow"
  /\ \/ /\ RowAccepts("STOPPED") /\ resume["stop"] = "stopSave" /\ w.owned
        /\ db' = RowWritten("STOPPED") /\ Goto("stop", "stopSave") /\ UNCHANGED w
     \/ /\ RowAccepts("STOPPED") /\ ~(resume["stop"] = "stopSave" /\ w.owned)
        /\ StopEnds(RowWritten("STOPPED"))
     \/ ~RowAccepts("STOPPED") /\ StopEnds(db)
  /\ UNCHANGED calls

StopSave ==
  /\ pc["stop"] = "stopSave"
  /\ \/ ~Fenced /\ StopEnds(db)
     \/ Fenced /\ Lose /\ Ends("stop")
  /\ UNCHANGED calls

----------------------------------------------------------------------------
(* Statements nobody awaits, and the lease                                  *)

\* renewOwnership, called by the interval
RenewalFires ==
  /\ w.renews /\ w.owned /\ ~w.stopped /\ w.state # "HALTED" /\ "renewal" \notin w.floating
  /\ w' = [w EXCEPT !.floating = @ \cup {"renewal"}]
  /\ UNCHANGED <<db, pc, resume, calls>>

\* A checkpoint write that fails or is fenced rejects, and nobody handles it.
FloatingLands(f) ==
  /\ f \in w.floating
  /\ LET landed(o) == [o EXCEPT !.floating = @ \ {f}]
     IN \/ ~Fenced /\ w' = landed(w) /\ UNCHANGED db
        \/ Fenced /\ f # "renewal" /\ w' = Dead /\ db' = LostRow
        \/ f # "renewal" /\ w' = Dead /\ UNCHANGED db
        \/ f = "renewal" /\ w' = Lost(landed(w)) /\ db' = LostRow
  /\ UNCHANGED <<pc, resume, calls>>

\* The lease runs out on the database clock, or another run takes one that is not held.
LeaseExpires ==
  /\ db.lease = "mine"
  /\ db' = [db EXCEPT !.lease = "free"]
  /\ UNCHANGED <<w, pc, resume, calls>>

Takeover ==
  /\ db.lease = "free"
  /\ db' = [lease |-> "other", row |-> IF db.row = "ACTIVE" THEN "SUPERSEDED" ELSE db.row]
  /\ UNCHANGED <<w, pc, resume, calls>>

----------------------------------------------------------------------------
(* History: which streams have failed and were not reconciled since          *)

Failed ==
  {s \in Streams : IF s = "market" THEN w.consuming /\ ~w'.consuming
                   ELSE w.tradeSocket \in {"connecting", "open"} /\ w'.tradeSocket \in {"none", "failed"}}
Completes(t) == pc[t] = "read" /\ pc'[t] \in {"save", "gaps"}
Remember ==
  /\ dirty' = (dirty \ UNION {covers[t] : t \in {u \in Tasks : Completes(u)}}) \cup Failed
  /\ covers' = [t \in Tasks |->
       IF pc'[t] = "row" /\ pc[t] # "row" THEN Streams
       ELSE IF pc'[t] \in {"row", "equity", "read"} \/ resume'[t] = "read" THEN (covers[t] \ Failed) \cup (Streams \ dirty')
       ELSE {}]

----------------------------------------------------------------------------
Step(t) ==
  \/ t = "start" /\ (Create \/ Acquire \/ Refused \/ ReadCheckpoint \/ Gaps \/ Confirm \/ Connect)
  \/ t \in Reconcilers \cup {"start"} /\ (Row(t) \/ Equity(t) \/ Read(t) \/ Save(t) \/ Ready(t))
  \/ t \in Streams /\ Degraded(t)
  \/ t = "market" /\ (Open \/ Bar)
  \/ t = "update" /\ ProjectUpdate
  \/ t = "stop" /\ (StopRow \/ StopSave)
  \/ HaltRow(t) \/ HaltSave(t)

Local ==
  \/ \E t \in Tasks : Step(t)
  \/ Start \/ Operator \/ Stop
  \/ BarArrives \/ MarketFails \/ TradeReady \/ TradeUpdate \/ TradeFails
  \/ \E s \in Streams : TimerFires(s)
  \/ RenewalFires
  \/ \E f \in w.floating : FloatingLands(f)

Next == w.alive /\ (Local \/ LeaseExpires \/ Takeover) /\ Remember

Spec == Init /\ [][Next]_vars

\* Statements and broker calls return and sleeps end.  Bars, stream errors, trade updates,
\* calls and the renewal interval are the environment's.
FairSpec ==
  /\ Spec
  /\ \A t \in Tasks : WF_vars(w.alive /\ Step(t) /\ Remember)
  /\ WF_vars(w.alive /\ (\E s \in Streams : TimerFires(s)) /\ Remember)
  /\ WF_vars(w.alive /\ (\E f \in w.floating : FloatingLands(f)) /\ Remember)

----------------------------------------------------------------------------
(* Properties                                                               *)

Labels ==
  {"idle", "create", "acquire", "refused", "checkpoint", "row", "equity", "read", "gaps", "confirm",
   "save", "ready", "connect", "open", "reading", "bar", "update", "degraded", "haltRow", "haltSave",
   "stopRow", "stopSave"}
Workers ==
  [state : {"STOPPED", "STARTING", "RECONCILING", "READY", "HALTED"},
   owned : BOOLEAN, stopped : BOOLEAN, renews : BOOLEAN, consuming : BOOLEAN,
   marketSocket : {"none", "open"},
   tradeSocket : {"none", "connecting", "open", "failed"},
   scheduled : SUBSET Streams, fresh : [Streams -> Nat], stale : [Streams -> Nat],
   inFlight : BOOLEAN, floating : SUBSET (Streams \cup {"renewal"}), alive : BOOLEAN]
Databases ==
  [lease : {"free", "mine", "other"}, row : {"NONE", "ACTIVE", "STOPPED", "HALTED", "SUPERSEDED"}]

\* The ranges of the variables.
TypeOK ==
  /\ w \in Workers /\ db \in Databases
  /\ pc \in [Tasks -> Labels]
  /\ resume \in [Tasks -> {"idle", "read", "reading", "returned", "stopSave"}]
  /\ dirty \in SUBSET Streams /\ covers \in [Tasks -> SUBSET Streams]
  /\ calls \in [{"start", "stop", "operator", "update"} -> Nat]

\* A socket is opened to replace one that failed only after a reconciliation that began after
\* the failure and was completed (docs/ALPACA_PAPER_WORKER.md:90-92).
ReplacementIsReconciled ==
  w.alive =>
    /\ w.marketSocket = "open" => "market" \notin dirty
    /\ w.tradeSocket \in {"connecting", "open"} => "trade" \notin dirty

\* After stop() or the loss of the lease no reconnect is scheduled and no trade socket or
\* consumer begins, although start(), a recovery or a sleeping timer may still be under way.
StoppedOpensNothing ==
  [][w.stopped /\ w'.stopped /\ w'.alive =>
      /\ w'.tradeSocket # "none" => w.tradeSocket # "none"
      /\ w'.consuming => w.consuming
      /\ \A s \in Streams : w'.fresh[s] <= w.fresh[s]]_vars

\* One consumer reads the market, and only while it does is its socket open (bars() closes it).
OneConsumer ==
  w.marketSocket = "open" =>
    w.consuming /\ (pc["market"] \in {"reading", "bar"} \/ resume["market"] = "reading")

\* The flag that mutes trade errors during a recovery is always taken down again.
TradeRecoveryEnds == w.inFlight ~> ~w.inFlight \/ ~w.alive

\* When stop() and start() have returned and the worker says STOPPED, its lease is free, also
\* when stop() came before, while or after start() acquired it (docs/ALPACA_PAPER_WORKER.md:68).
StopFreesLease ==
  w.alive /\ calls["stop"] = 1 /\ w.state = "STOPPED" /\ (\A t \in {"start", "stop"} : pc[t] = "idle")
    => db.lease # "mine"

\* A halt is recorded in the run row unless the process ended first.
HaltIsRecorded == w.state = "HALTED" ~> db.row \notin {"NONE", "ACTIVE"} \/ ~w.alive

----------------------------------------------------------------------------
(* What the docs say and the code does not do                               *)

\* While READY and with nothing under way, a stream is connected or a reconnect sleeps.
StreamsAreAttended ==
  w.alive /\ w.state = "READY" /\ w.owned /\ ~w.stopped /\ (\A t \in Tasks \ {"market"} : pc[t] = "idle") =>
    /\ pc["market"] = "idle" => w.fresh["market"] > 0
    /\ pc["market"] \in {"idle", "reading"} => w.tradeSocket \in {"connecting", "open"} \/ w.fresh["trade"] > 0

\* No reconnect sleeps once the run is recorded as HALTED.
HaltCancelsReconnects == w.alive /\ db.row = "HALTED" => \A s \in Streams : w.fresh[s] = 0
=============================================================================
