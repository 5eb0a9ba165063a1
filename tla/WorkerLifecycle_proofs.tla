------------------------- MODULE WorkerLifecycle_proofs -------------------------
(* Proofs about WorkerLifecycle. *)
EXTENDS WorkerLifecycle, TLAPS

----------------------------------------------------------------------------
(* The local functions of the worker object.                                *)

(* reconnectGeneration += 1 leaves no timer that may still reconnect. *)
LEMMA CancelledParts ==
  ASSUME NEW o \in Workers
  PROVE  /\ Cancelled(o) \in Workers
         /\ Cancelled(o).state = o.state /\ Cancelled(o).owned = o.owned /\ Cancelled(o).stopped = o.stopped
         /\ Cancelled(o).consuming = o.consuming /\ Cancelled(o).marketSocket = o.marketSocket
         /\ Cancelled(o).tradeSocket = o.tradeSocket
         /\ Cancelled(o).fresh = [s \in Streams |-> 0]
         /\ Cancelled(o).inFlight = o.inFlight /\ Cancelled(o).floating = o.floating /\ Cancelled(o).alive = o.alive
<1> DEFINE f == [s \in Streams |-> 0]
           g == [s \in Streams |-> o.stale[s] + o.fresh[s]]
<1>1. f \in [Streams -> Nat] /\ g \in [Streams -> Nat]
  BY DEF Workers
<1>2. Cancelled(o) = [o EXCEPT !.stale = g, !.fresh = f, !.scheduled = {}]
  BY DEF Cancelled, Workers
<1> HIDE DEF f, g
<1>3. Cancelled(o) \in Workers
  BY <1>1, <1>2 DEF Workers
<1>4. Cancelled(o).fresh = f
  BY <1>2 DEF Workers
<1> QED
  BY <1>2, <1>3, <1>4 DEF Workers, f

(* The loss of the lease stops the worker, unless it is HALTED without it   *)
(* already.                                                                 *)
LEMMA LostParts ==
  ASSUME NEW o \in Workers
  PROVE  /\ Lost(o) \in Workers
         /\ Lost(o).state = "HALTED" /\ ~Lost(o).owned
         /\ (o.stopped => Lost(o).stopped)
         /\ Lost(o).consuming = o.consuming /\ Lost(o).marketSocket = o.marketSocket
         /\ Lost(o).tradeSocket \in {o.tradeSocket, "none"}
         /\ (Lost(o).tradeSocket = o.tradeSocket \/ Lost(o).stopped)
         /\ (\A s \in Streams : Lost(o).fresh[s] \in {0, o.fresh[s]})
         /\ Lost(o).inFlight = o.inFlight /\ Lost(o).floating = o.floating /\ Lost(o).alive = o.alive
<1>1. CASE NothingToLose(o)
  BY <1>1 DEF Lost, NothingToLose, Workers
<1>2. CASE ~NothingToLose(o)
  <2> DEFINE c == Cancelled(o)
  <2>1. Lost(o) = [c EXCEPT !.state = "HALTED", !.owned = FALSE, !.stopped = TRUE,
                            !.renews = FALSE, !.tradeSocket = "none"]
    BY <1>2 DEF Lost
  <2>2. c \in Workers
    BY CancelledParts
  <2>3. Lost(o) \in Workers
    BY <2>1, <2>2 DEF Workers
  <2>4. /\ Lost(o).state = "HALTED" /\ ~Lost(o).owned /\ Lost(o).stopped /\ Lost(o).consuming = c.consuming
        /\ Lost(o).marketSocket = c.marketSocket /\ Lost(o).tradeSocket = "none" /\ Lost(o).fresh = c.fresh
        /\ Lost(o).inFlight = c.inFlight /\ Lost(o).floating = c.floating /\ Lost(o).alive = c.alive
    BY <2>1, <2>2 DEF Workers
  <2> HIDE DEF c
  <2> QED
    BY <2>3, <2>4, CancelledParts DEF c
<1> QED
  BY <1>1, <1>2

(* halt() begins like that, but it keeps the lease. *)
LEMMA HaltingParts ==
  ASSUME NEW o \in Workers
  PROVE  /\ Halting(o) \in Workers
         /\ Halting(o).state = "HALTED" /\ Halting(o).owned = o.owned /\ Halting(o).stopped = o.stopped
         /\ Halting(o).consuming = o.consuming /\ Halting(o).marketSocket = o.marketSocket
         /\ Halting(o).tradeSocket = o.tradeSocket
         /\ (\A s \in Streams : Halting(o).fresh[s] = 0)
         /\ Halting(o).inFlight = o.inFlight /\ Halting(o).floating = o.floating /\ Halting(o).alive = o.alive
<1> DEFINE c == Cancelled(o)
<1>1. Halting(o) = [c EXCEPT !.state = "HALTED", !.renews = FALSE]
  BY DEF Halting
<1>2. c \in Workers
  BY CancelledParts
<1> HIDE DEF c
<1>3. Halting(o) \in Workers /\ Halting(o).state = "HALTED" /\ Halting(o).owned = c.owned /\ Halting(o).stopped = c.stopped
  BY <1>1, <1>2 DEF Workers
<1>4. /\ Halting(o).consuming = c.consuming /\ Halting(o).marketSocket = c.marketSocket
      /\ Halting(o).tradeSocket = c.tradeSocket /\ Halting(o).fresh = c.fresh
      /\ Halting(o).inFlight = c.inFlight /\ Halting(o).floating = c.floating /\ Halting(o).alive = c.alive
  BY <1>1, <1>2 DEF Workers
<1> QED
  BY <1>3, <1>4, CancelledParts DEF c

(* A reconnect is scheduled only by a READY worker that is not stopped. *)
LEMMA SchedulingParts ==
  ASSUME NEW o \in Workers, NEW s \in Streams
  PROVE  /\ Scheduling(o, s) \in Workers
         /\ Scheduling(o, s).state = o.state /\ Scheduling(o, s).owned = o.owned /\ Scheduling(o, s).stopped = o.stopped
         /\ Scheduling(o, s).consuming = o.consuming /\ Scheduling(o, s).marketSocket = o.marketSocket
         /\ Scheduling(o, s).tradeSocket = o.tradeSocket
         /\ (\A u \in Streams \ {s} : Scheduling(o, s).fresh[u] = o.fresh[u])
         /\ Scheduling(o, s).fresh[s] \in {o.fresh[s], o.fresh[s] + 1}
         /\ (Scheduling(o, s).fresh[s] # o.fresh[s] => ~o.stopped /\ o.state = "READY")
         /\ Scheduling(o, s).inFlight = o.inFlight /\ Scheduling(o, s).floating = o.floating
         /\ Scheduling(o, s).alive = o.alive
<1>1. CASE Scheduling(o, s) = o
  BY <1>1 DEF Workers
<1>2. CASE ~(s \in o.scheduled \/ o.stopped \/ o.state # "READY")
  <2> DEFINE f == [o.fresh EXCEPT ![s] = @ + 1]
             d == o.scheduled \cup {s}
  <2>1. f \in [Streams -> Nat] /\ d \in SUBSET Streams
    BY DEF Workers
  <2>2. Scheduling(o, s) = [o EXCEPT !.scheduled = d, !.fresh = f]
    BY <1>2 DEF Scheduling, Workers
  <2>3. (\A u \in Streams \ {s} : f[u] = o.fresh[u]) /\ f[s] = o.fresh[s] + 1
    BY DEF Workers
  <2> HIDE DEF f, d
  <2>4. Scheduling(o, s) \in Workers
    BY <2>1, <2>2 DEF Workers
  <2>5. Scheduling(o, s).fresh = f
    BY <2>2 DEF Workers
  <2> QED
    BY <1>2, <2>2, <2>3, <2>4, <2>5 DEF Workers
<1> QED
  BY <1>1, <1>2 DEF Scheduling

(* What the caller of reconcile() does schedules only its own stream. *)
LEMMA ReturnedParts ==
  ASSUME NEW o \in Workers, NEW t \in Tasks
  PROVE  /\ Returned(o, t) \in Workers
         /\ Returned(o, t).state = o.state /\ Returned(o, t).owned = o.owned /\ Returned(o, t).stopped = o.stopped
         /\ Returned(o, t).consuming = o.consuming /\ Returned(o, t).marketSocket = o.marketSocket
         /\ Returned(o, t).tradeSocket = o.tradeSocket
         /\ (\A u \in Streams \ {t} : Returned(o, t).fresh[u] = o.fresh[u])
         /\ (t \in Streams => Returned(o, t).fresh[t] \in {o.fresh[t], o.fresh[t] + 1})
         /\ (t \in Streams /\ Returned(o, t).fresh[t] # o.fresh[t] => ~o.stopped /\ o.state = "READY")
         /\ Returned(o, t).floating = o.floating /\ Returned(o, t).alive = o.alive
<1>1. CASE t = "market"
  BY <1>1, SchedulingParts DEF Returned, Streams
<1>2. CASE t = "trade"
  <2> DEFINE c == Scheduling(o, t)
  <2>1. Returned(o, t) = [c EXCEPT !.inFlight = FALSE]
    BY <1>2 DEF Returned
  <2>2. c \in Workers
    BY <1>2, SchedulingParts DEF Streams
  <2> HIDE DEF c
  <2>3. /\ Returned(o, t) \in Workers
        /\ Returned(o, t).state = c.state /\ Returned(o, t).owned = c.owned /\ Returned(o, t).stopped = c.stopped
        /\ Returned(o, t).consuming = c.consuming /\ Returned(o, t).marketSocket = c.marketSocket
        /\ Returned(o, t).tradeSocket = c.tradeSocket /\ Returned(o, t).fresh = c.fresh
        /\ Returned(o, t).floating = c.floating /\ Returned(o, t).alive = c.alive
    BY <2>1, <2>2 DEF Workers
  <2> QED
    BY <1>2, <2>3, SchedulingParts DEF Streams, c
<1>3. CASE t \notin Streams
  BY <1>3 DEF Returned, Streams
<1> QED
  BY <1>1, <1>2, <1>3 DEF Streams

(* The dead process and the object whose lease was released. *)
LEMMA EndParts ==
  /\ Dead \in Workers /\ ~Dead.alive /\ Dead.tradeSocket = "none" /\ Dead.marketSocket = "none" /\ ~Dead.consuming
  /\ WorkerInit \in Workers
  BY DEF Dead, WorkerInit, Workers, Streams

(* A checkpoint write that nobody awaits. *)
LEMMA FloatingParts ==
  ASSUME NEW o \in Workers, NEW s \in Streams, Floating(o, s).alive
  PROVE  /\ Floating(o, s) \in Workers /\ o.owned
         /\ Floating(o, s) = [o EXCEPT !.floating = @ \cup {s}]
  BY DEF Floating, Dead, WorkerInit, Workers

(* It leaves a worker object, dead or alive. *)
LEMMA FloatingType ==
  ASSUME NEW o \in Workers, NEW s \in Streams
  PROVE  /\ Floating(o, s) \in Workers
         /\ o.alive => Floating(o, s).alive \/ Floating(o, s) = Dead
  BY EndParts DEF Floating, Workers

(* Only a worker that is not stopped gets a trade socket, and with its lease. *)
LEMMA ConnectedParts ==
  ASSUME NEW o \in Workers
  PROVE  /\ Connected(o) \in Workers
         /\ o.alive => Connected(o).alive \/ Connected(o) = Dead
         /\ Connected(o).alive =>
              /\ Connected(o).state = o.state /\ Connected(o).owned = o.owned /\ Connected(o).stopped = o.stopped
              /\ Connected(o).consuming = o.consuming /\ Connected(o).marketSocket = o.marketSocket
              /\ Connected(o).fresh = o.fresh
              /\ Connected(o).tradeSocket \in {o.tradeSocket, "connecting"}
              /\ (Connected(o).tradeSocket # o.tradeSocket => o.tradeSocket = "none" /\ ~o.stopped /\ o.owned)
              /\ Connected(o).inFlight = o.inFlight /\ Connected(o).alive = o.alive
<1>1. CASE Connected(o) = o
  BY <1>1
<1>2. CASE ~(o.tradeSocket # "none" \/ o.stopped)
  <2> DEFINE c == [o EXCEPT !.tradeSocket = "connecting"]
  <2>1. Connected(o) = Floating(c, "trade") /\ c \in Workers
    BY <1>2 DEF Connected, Workers
  <2>2. /\ c.state = o.state /\ c.owned = o.owned /\ c.stopped = o.stopped
        /\ c.consuming = o.consuming /\ c.marketSocket = o.marketSocket /\ c.fresh = o.fresh
        /\ c.tradeSocket = "connecting" /\ c.inFlight = o.inFlight /\ c.alive = o.alive
    BY DEF Workers
  <2> HIDE DEF c
  <2>3. ASSUME Connected(o).alive
        PROVE  Connected(o) = [c EXCEPT !.floating = @ \cup {"trade"}] /\ c.owned
    BY <2>1, <2>3, FloatingParts DEF Streams
  <2>4. ASSUME Connected(o).alive
        PROVE  /\ Connected(o).state = c.state /\ Connected(o).owned = c.owned /\ Connected(o).stopped = c.stopped
               /\ Connected(o).consuming = c.consuming /\ Connected(o).marketSocket = c.marketSocket
               /\ Connected(o).fresh = c.fresh /\ Connected(o).tradeSocket = c.tradeSocket
               /\ Connected(o).inFlight = c.inFlight /\ Connected(o).alive = c.alive
    BY <2>1, <2>3, <2>4 DEF Workers
  <2>5. Connected(o) \in Workers /\ (c.alive => Connected(o).alive \/ Connected(o) = Dead)
    BY <2>1, FloatingType DEF Streams
  <2> QED
    BY <1>2, <2>2, <2>3, <2>4, <2>5
<1> QED
  BY <1>1, <1>2 DEF Connected

(* Only a READY worker that is not stopped gets a consumer, with its lease. *)
LEMMA ConsumingParts ==
  ASSUME NEW o \in Workers
  PROVE  /\ Consuming(o) \in Workers
         /\ o.alive \/ o = Dead => Consuming(o).alive \/ Consuming(o) = Dead
         /\ Consuming(o).alive =>
              /\ Consuming(o).state = o.state /\ Consuming(o).owned = o.owned /\ Consuming(o).stopped = o.stopped
              /\ Consuming(o).consuming = (o.consuming \/ MayConsume(o)) /\ Consuming(o).marketSocket = o.marketSocket
              /\ Consuming(o).fresh = o.fresh /\ Consuming(o).tradeSocket = o.tradeSocket
              /\ (MayConsume(o) => o.owned)
              /\ Consuming(o).inFlight = o.inFlight /\ Consuming(o).alive = o.alive
<1>1. CASE ~MayConsume(o)
  BY <1>1 DEF Consuming, Workers
<1>2. CASE MayConsume(o)
  <2> DEFINE c == [o EXCEPT !.consuming = TRUE]
  <2>1. Consuming(o) = Floating(c, "market") /\ c \in Workers
    BY <1>2 DEF Consuming, Workers
  <2>2. /\ c.state = o.state /\ c.owned = o.owned /\ c.stopped = o.stopped
        /\ c.consuming /\ c.marketSocket = o.marketSocket /\ c.fresh = o.fresh
        /\ c.tradeSocket = o.tradeSocket /\ c.inFlight = o.inFlight /\ c.alive = o.alive
    BY DEF Workers
  <2> HIDE DEF c
  <2>3. ASSUME Consuming(o).alive
        PROVE  Consuming(o) = [c EXCEPT !.floating = @ \cup {"market"}] /\ c.owned
    BY <2>1, <2>3, FloatingParts DEF Streams
  <2>4. ASSUME Consuming(o).alive
        PROVE  /\ Consuming(o).state = c.state /\ Consuming(o).owned = c.owned /\ Consuming(o).stopped = c.stopped
               /\ Consuming(o).consuming = c.consuming /\ Consuming(o).marketSocket = c.marketSocket
               /\ Consuming(o).fresh = c.fresh /\ Consuming(o).tradeSocket = c.tradeSocket
               /\ Consuming(o).inFlight = c.inFlight /\ Consuming(o).alive = c.alive
    BY <2>1, <2>3, <2>4 DEF Workers
  <2>5. Consuming(o) \in Workers /\ (c.alive => Consuming(o).alive \/ Consuming(o) = Dead)
    BY <2>1, FloatingType DEF Streams
  <2>6. c.consuming = (o.consuming \/ MayConsume(o))
    BY <1>2, <2>2
  <2>7. o # Dead
    BY <1>2 DEF MayConsume, Dead, WorkerInit
  <2> QED
    BY <1>2, <2>2, <2>3, <2>4, <2>5, <2>6, <2>7
<1> QED
  BY <1>1, <1>2

----------------------------------------------------------------------------
(* The inductive invariant.                                                 *)

InHalt(t) == pc[t] \in {"haltRow", "haltSave"}
ReadsMarket ==
  pc["market"] \in {"open", "reading", "bar"} \/ (InHalt("market") /\ resume["market"] = "reading")
Reconciling(t) == pc[t] \in {"row", "equity", "read"} \/ (InHalt(t) /\ resume[t] = "read")

\* Before start() is called there is nothing.
Uncalled ==
  calls["start"] = 0 =>
    /\ w = WorkerInit /\ calls["stop"] = 0 /\ db.lease # "mine"
    /\ \A t \in Tasks : pc[t] = "idle"

\* start() is alone with stop() until its streams are connected.
Early == calls["start"] = 0 \/ pc["start"] # "idle"
StartsFirst ==
  Early => /\ \A t \in Tasks \ {"start", "stop"} : pc[t] = "idle"
           /\ ~w.consuming /\ w.tradeSocket = "none" /\ \A s \in Streams : w.fresh[s] = 0
           /\ dirty = {}

\* A lease that the worker has not given up is owned, or the worker is HALTED; stop() gives it up.
LeaseIsKnown == db.lease = "mine" /\ ~w.owned => w.state = "HALTED"
CheckpointIsOwned == pc["start"] = "checkpoint" => w.owned \/ w.stopped
StopIsFinal == IF calls["stop"] = 0 THEN pc["stop"] = "idle" ELSE w.stopped
StopIsDone == calls["stop"] # 0 /\ pc["stop"] = "idle" /\ w.state = "STOPPED" => db.lease # "mine"

HaltsResume ==
  \A t \in Tasks : /\ resume[t] \in {"read", "reading", "returned"} => InHalt(t)
                   /\ resume[t] = "reading" => t = "market"
                   /\ InHalt(t) => t # "stop"

\* The consumer is one task, and no sleeping timer will begin a second one.
ConsumerReads ==
  /\ w.consuming <=> ReadsMarket
  /\ w.marketSocket = "open" => w.consuming /\ pc["market"] # "open"
TimersWakeIdle ==
  /\ \A s \in Streams : w.fresh[s] <= 1 /\ (w.fresh[s] > 0 => pc[s] = "idle")
  /\ w.fresh["trade"] > 0 => w.tradeSocket = "none"
RecoveryHasNoSocket == pc["trade"] # "idle" => w.tradeSocket = "none"

\* What reads a stream, or will, follows a reconciliation that covers its last failure.
StreamsAreClean ==
  /\ w.consuming => "market" \notin dirty
  /\ w.tradeSocket \in {"connecting", "open"} => "trade" \notin dirty
TimersAreClean == \A s \in Streams : w.fresh[s] > 0 => s \notin dirty \/ ~w.owned
ReturnsAreClean == \A s \in Streams : pc[s] \in {"save", "ready"} => s \notin dirty
RecoveryCovers == \A s \in Streams : Reconciling(s) => s \in covers[s]

LifecycleInv ==
  w.alive =>
    /\ Uncalled /\ StartsFirst
    /\ LeaseIsKnown /\ CheckpointIsOwned /\ StopIsFinal /\ StopIsDone
    /\ HaltsResume /\ ConsumerReads /\ TimersWakeIdle /\ RecoveryHasNoSocket
    /\ StreamsAreClean /\ TimersAreClean /\ ReturnsAreClean /\ RecoveryCovers

----------------------------------------------------------------------------
(* A step of one task that connects nothing.                                *)

\* Its timers: one more of its own stream, when a reconciliation returned.
Schedules(t) ==
  /\ \A s \in Streams \ {t} : w'.fresh[s] \in {0, w.fresh[s]}
  /\ t \in Streams =>
       \/ w'.fresh[t] \in {0, w.fresh[t]}
       \/ /\ w'.fresh[t] = w.fresh[t] + 1 /\ ~w'.stopped
          /\ pc'[t] = "idle" /\ pc[t] \notin {"open", "reading", "bar"}
          /\ InHalt(t) => resume[t] # "reading"
          /\ pc[t] = "ready" \/ ~w'.owned

\* What it begins, it has prepared.
GoesOn(t) ==
  /\ t \in Streams \cup {"start"} => pc[t] # "idle"
  /\ t \in {"start", "stop"} \/ ~Early \/ pc'[t] = "idle"
  /\ t \in Streams =>
       /\ pc'[t] = "save" => pc[t] \in {"save", "read"}
       /\ pc'[t] = "ready" => pc[t] \in {"save", "ready"}
       /\ Reconciling(t)' => Reconciling(t) \/ (pc'[t] = "row" /\ pc[t] = "degraded")
  /\ resume'[t] \in {"read", "reading", "returned"} => InHalt(t)'
  /\ resume'[t] = "reading" => t = "market"
  /\ InHalt(t)' => t # "stop"

Calm(t) ==
  /\ w' \in Workers /\ w'.alive
  /\ calls["start"] # 0 /\ calls'["start"] # 0
  /\ IF t = "stop" THEN calls'["stop"] # 0 /\ w'.stopped ELSE (calls'["stop"] = 0 <=> calls["stop"] = 0)
  /\ \A u \in Tasks \ {t} : pc'[u] = pc[u] /\ resume'[u] = resume[u]
  /\ w.stopped => w'.stopped
  /\ w'.tradeSocket \in {w.tradeSocket, "none"}
  /\ w'.owned => w.owned \/ t = "start"
  /\ IF t = "market" THEN (w'.consuming => w.consuming) /\ ConsumerReads'
                     ELSE w'.consuming = w.consuming /\ w'.marketSocket = w.marketSocket
  /\ LeaseIsKnown' /\ CheckpointIsOwned' /\ StopIsDone'
  /\ Schedules(t) /\ GoesOn(t)

\* What StoppedOpensNothing says of a step.
OpensNothing ==
  w.stopped /\ w'.stopped /\ w'.alive =>
    /\ w'.tradeSocket # "none" => w.tradeSocket # "none"
    /\ w'.consuming => w.consuming
    /\ \A s \in Streams : w'.fresh[s] <= w.fresh[s]

(* Timers that do not grow. *)
LEMMA TimersSubside ==
  ASSUME TypeOK, \A s \in Streams : w'.fresh[s] \in {0, w.fresh[s]}
  PROVE  \A s \in Streams : w'.fresh[s] <= w.fresh[s]
  BY DEF TypeOK, Workers

(* A stopped worker opens nothing in such a step. *)
LEMMA CalmOpensNothing ==
  ASSUME TypeOK, NEW t \in Tasks, Calm(t)
  PROVE  OpensNothing
<1>1. ASSUME w'.stopped PROVE \A s \in Streams : w'.fresh[s] \in {0, w.fresh[s]}
  BY <1>1 DEF Calm, Schedules
<1> QED
  BY <1>1, TimersSubside DEF OpensNothing, Calm

(* Such a step keeps the invariant. *)
LEMMA CalmKeepsInv ==
  ASSUME TypeOK, LifecycleInv, w.alive, Remember, NEW t \in Tasks, Calm(t)
  PROVE  LifecycleInv' /\ OpensNothing
<1> USE DEF Calm
<1>0. /\ Uncalled /\ StartsFirst /\ LeaseIsKnown /\ CheckpointIsOwned /\ StopIsFinal /\ StopIsDone
      /\ HaltsResume /\ ConsumerReads /\ TimersWakeIdle /\ RecoveryHasNoSocket
      /\ StreamsAreClean /\ TimersAreClean /\ ReturnsAreClean /\ RecoveryCovers
  BY DEF LifecycleInv
<1>1. Failed \subseteq {"market", "trade"} /\ ("market" \in Failed => w.consuming /\ ~w'.consuming)
      /\ ("trade" \in Failed => w.tradeSocket \in {"connecting", "open"} /\ w'.tradeSocket \notin {"connecting", "open"})
  BY DEF Failed, Streams
<1>2. Early' => Early
  BY DEF Early, GoesOn, Tasks, Reconcilers
<1>3. StartsFirst'
  <2> SUFFICES ASSUME Early' PROVE /\ \A u \in Tasks \ {"start", "stop"} : pc'[u] = "idle"
                                   /\ ~w'.consuming /\ w'.tradeSocket = "none" /\ \A s \in Streams : w'.fresh[s] = 0
                                   /\ dirty' = {}
    BY DEF StartsFirst
  <2>1. Early /\ \A u \in Tasks \ {"start", "stop"} : pc[u] = "idle"
    BY <1>0, <1>2 DEF StartsFirst
  <2>2. \A u \in Tasks \ {"start", "stop"} : pc'[u] = "idle"
    BY <2>1 DEF GoesOn
  <2>3. ~w.consuming /\ w.tradeSocket = "none" /\ dirty = {} /\ t \notin Streams /\ \A s \in Streams : w.fresh[s] = 0
    BY <1>0, <2>1 DEF StartsFirst, GoesOn, Streams, Tasks, Reconcilers
  <2>4. ~w'.consuming /\ w'.tradeSocket = "none" /\ Failed = {}
    BY <1>1, <2>3 DEF Streams
  <2>5. \A s \in Streams : w'.fresh[s] = 0
    BY <2>3 DEF Schedules
  <2>6. dirty' = {}
    BY <2>3, <2>4 DEF Remember
  <2> QED
    BY <2>2, <2>4, <2>5, <2>6
<1>4. HaltsResume'
  BY <1>0 DEF HaltsResume, GoesOn, InHalt
<1>5. ConsumerReads'
  BY <1>0 DEF ConsumerReads, ReadsMarket, InHalt, Tasks, Reconcilers, Streams
<1>6. TimersWakeIdle'
  <2>1. ASSUME NEW s \in Streams PROVE w'.fresh[s] <= 1 /\ (w'.fresh[s] > 0 => pc'[s] = "idle")
    <3>1. CASE s # t
      BY <1>0, <3>1 DEF TimersWakeIdle, Schedules, Streams, Tasks, Reconcilers
    <3>2. CASE s = t
      BY <1>0, <3>2 DEF TimersWakeIdle, Schedules, GoesOn, TypeOK, Workers
    <3> QED
      BY <3>1, <3>2
  <2>2. ASSUME w'.fresh["trade"] > 0 PROVE w'.tradeSocket = "none"
    BY <1>0, <2>2 DEF TimersWakeIdle, RecoveryHasNoSocket, Schedules, GoesOn, Streams
  <2> QED
    BY <2>1, <2>2 DEF TimersWakeIdle
<1>7. RecoveryHasNoSocket'
  BY <1>0 DEF RecoveryHasNoSocket, GoesOn, Streams, Tasks, Reconcilers
<1>8. StreamsAreClean'
  BY <1>0, <1>1 DEF StreamsAreClean, Remember
<1>9. ASSUME NEW s \in Streams, pc[s] # "idle", s = "market" => ~ReadsMarket PROVE s \notin Failed
  BY <1>0, <1>1, <1>9 DEF RecoveryHasNoSocket, ConsumerReads, Streams
<1>10. TimersAreClean'
  <2> SUFFICES ASSUME NEW s \in Streams, w'.fresh[s] > 0 PROVE s \notin dirty' \/ ~w'.owned
    BY DEF TimersAreClean
  <2>1. CASE w'.fresh[s] \in {0, w.fresh[s]}
    <3>1. w.fresh[s] > 0 /\ pc[s] = "idle" /\ ~Early
      BY <1>0, <2>1 DEF TimersWakeIdle, StartsFirst
    <3>2. t # "start"
      BY <3>1 DEF Early, GoesOn
    <3>3. s \notin Failed
      BY <1>0, <1>1, <3>1 DEF TimersWakeIdle, ConsumerReads, ReadsMarket, InHalt, Streams
    <3> QED
      BY <1>0, <3>1, <3>2, <3>3 DEF TimersAreClean, Remember
  <2>2. CASE w'.fresh[s] \notin {0, w.fresh[s]}
    <3>1. s = t /\ pc[s] # "idle" /\ (pc[t] = "ready" \/ ~w'.owned)
      BY <2>2 DEF Schedules, GoesOn
    <3>2. s = "market" => ~ReadsMarket
      BY <2>2, <3>1 DEF Schedules, ReadsMarket
    <3> QED
      BY <1>0, <1>9, <3>1, <3>2 DEF ReturnsAreClean, Remember
  <2> QED
    BY <2>1, <2>2
<1>11. ReturnsAreClean'
  <2> SUFFICES ASSUME NEW s \in Streams, pc'[s] \in {"save", "ready"} PROVE s \notin dirty'
    BY DEF ReturnsAreClean
  <2>1. pc[s] \in {"save", "ready", "read"}
    BY DEF GoesOn, Streams, Tasks, Reconcilers
  <2>2. s \notin Failed
    BY <1>9, <2>1 DEF ReadsMarket, InHalt
  <2>3. CASE pc[s] \in {"save", "ready"}
    BY <1>0, <2>2, <2>3 DEF ReturnsAreClean, Remember
  <2>4. CASE pc[s] = "read"
    <3>1. s \in covers[s]
      BY <1>0, <2>4 DEF RecoveryCovers, Reconciling
    <3>2. s \in Tasks
      BY DEF Streams, Tasks, Reconcilers
    <3>3. pc'[s] = "save"
      BY <2>4, <3>2 DEF GoesOn
    <3>4. Completes(s)
      BY <2>4, <3>3 DEF Completes
    <3> QED
      BY <2>2, <3>1, <3>2, <3>4 DEF Remember
  <2> QED
    BY <2>1, <2>3, <2>4
<1>12. RecoveryCovers'
  <2> SUFFICES ASSUME NEW s \in Streams, Reconciling(s)' PROVE s \in covers'[s]
    BY DEF RecoveryCovers
  <2>1. s \in Tasks
    BY DEF Streams, Tasks, Reconcilers
  <2>2. Reconciling(s) \/ (pc'[s] = "row" /\ pc[s] = "degraded")
    BY <2>1 DEF GoesOn, Reconciling, InHalt
  <2>3. CASE pc'[s] = "row" /\ pc[s] # "row"
    BY <2>1, <2>3 DEF Remember
  <2>4. CASE Reconciling(s) /\ ~(pc'[s] = "row" /\ pc[s] # "row")
    <3>1. s \notin Failed
      BY <1>9, <2>4 DEF ReadsMarket, Reconciling, InHalt
    <3>2. pc'[s] \in {"row", "equity", "read"} \/ resume'[s] = "read"
      BY DEF Reconciling, InHalt
    <3> QED
      BY <1>0, <2>1, <2>4, <3>1, <3>2 DEF Remember, RecoveryCovers
  <2> QED
    BY <2>2, <2>3, <2>4
<1>13. Uncalled' /\ StopIsFinal'
  <2>1. CASE t = "stop"
    BY <2>1 DEF Uncalled, StopIsFinal
  <2>2. CASE t # "stop"
    <3>1. pc'["stop"] = pc["stop"]
      BY <2>2 DEF Tasks
    <3> QED
      BY <1>0, <2>2, <3>1 DEF Uncalled, StopIsFinal
  <2> QED
    BY <2>1, <2>2
<1>14. OpensNothing
  BY CalmOpensNothing
<1> QED
  BY <1>3, <1>4, <1>5, <1>6, <1>7, <1>8, <1>10, <1>11, <1>12, <1>13, <1>14 DEF LifecycleInv

----------------------------------------------------------------------------
(* What tasks share.                                                        *)

\* The ranges of what a task changes.  A process that ended has no socket.
JobTypeOK ==
  /\ w \in Workers /\ db \in Databases
  /\ w.alive \/ (w.marketSocket = "none" /\ w.tradeSocket = "none")
  /\ pc \in [Tasks -> Labels]
  /\ resume \in [Tasks -> {"idle", "read", "reading", "returned", "stopSave"}]

\* A task that is under way does something.
Works(t) ==
  /\ TypeOK /\ LifecycleInv /\ w.alive
  /\ t \in Tasks \ {"stop"} /\ pc[t] # "idle"
  /\ UNCHANGED calls

(* start() was called, and what is not start() works when it has returned. *)
LEMMA WorkIsLate ==
  ASSUME NEW t, Works(t)
  PROVE  /\ calls["start"] # 0
         /\ t # "start" => ~Early /\ pc["start"] = "idle"
         /\ LeaseIsKnown /\ CheckpointIsOwned /\ StopIsFinal /\ StopIsDone /\ HaltsResume /\ ConsumerReads
  BY DEF Works, LifecycleInv, Uncalled, StartsFirst, Early, Tasks, Reconcilers, Streams

\* A step in which the object of the worker begins nothing.
Subsides ==
  /\ w' \in Workers /\ w'.alive
  /\ w.stopped => w'.stopped
  /\ w'.tradeSocket \in {w.tradeSocket, "none"}
  /\ w'.owned => w.owned
  /\ w'.consuming = w.consuming /\ w'.marketSocket = w.marketSocket
  /\ w'.state = "STOPPED" => w.state = "STOPPED"
  /\ db'.lease = "mine" => db.lease = "mine"

\* A task that waits in a reconciliation or on the way to READY.
OnTheWay == {"row", "equity", "read", "gaps", "confirm", "save", "ready", "connect"}
Moves(t, label) == pc' = [pc EXCEPT ![t] = label] /\ UNCHANGED resume

(* Such a task may end, or go on in the order of the reconciliation. *)
LEMMA OnTheWayKeeps ==
  ASSUME NEW t, Works(t), pc[t] \in OnTheWay, t \in Reconcilers \cup {"start"}, Subsides, LeaseIsKnown', Schedules(t),
         \/ Moves(t, "idle")
         \/ t = "start" /\ \E label \in {"confirm", "connect", "gaps"} : Moves(t, label)
         \/ pc[t] = "row" /\ Moves(t, "equity")
         \/ pc[t] = "equity" /\ Moves(t, "read")
         \/ pc[t] = "read" /\ Moves(t, "save")
         \/ pc[t] = "save" /\ Moves(t, "ready")
         \/ pc' = [pc EXCEPT ![t] = "haltRow"] /\ resume' = [resume EXCEPT ![t] = "returned"]
         \/ pc[t] = "read" /\ pc' = [pc EXCEPT ![t] = "haltRow"] /\ resume' = [resume EXCEPT ![t] = "read"]
  PROVE  Calm(t)
<1> USE WorkIsLate
<1>1. /\ \A u \in Tasks \ {t} : pc'[u] = pc[u] /\ resume'[u] = resume[u]
      /\ pc'[t] \in {"idle", "confirm", "connect", "gaps", "equity", "read", "save", "ready", "haltRow"}
  BY DEF Works, TypeOK, Moves
<1>2. ~InHalt(t) /\ resume[t] \notin {"read", "reading", "returned"}
  BY DEF HaltsResume, Works, InHalt, OnTheWay
<1>3. GoesOn(t)
  BY <1>2 DEF GoesOn, Works, TypeOK, Moves, InHalt, Reconciling, OnTheWay, Streams, Reconcilers
<1>4. CheckpointIsOwned' /\ StopIsDone'
  BY <1>1 DEF CheckpointIsOwned, StopIsDone, Works, Subsides, Tasks
<1>5. t = "market" => ConsumerReads'
  <2> SUFFICES ASSUME t = "market" PROVE ConsumerReads'
    OBVIOUS
  <2>1. ~ReadsMarket
    BY <1>2 DEF ReadsMarket, OnTheWay
  <2>2. ~ReadsMarket'
    BY <1>2 DEF ReadsMarket, OnTheWay, InHalt, Works, TypeOK, Moves
  <2> QED
    BY <2>1, <2>2 DEF ConsumerReads, Subsides
<1> QED
  BY <1>1, <1>3, <1>4, <1>5 DEF Calm, Subsides, Works

(* A halt or an end of start() or reconcile() that threw. *)
LEMMA ThrowingKeeps ==
  ASSUME NEW t, Works(t), pc[t] \in OnTheWay, t \in Reconcilers \cup {"start"},
         \/ Throws(t) \/ LosesAndReturns(t)
         \/ pc[t] = "read" /\ w.owned /\ Halt(t, "read")
  PROVE  Calm(t) /\ JobTypeOK'
<1> USE WorkIsLate
<1>0. t \in Tasks /\ w \in Workers /\ db \in Databases /\ pc \in [Tasks -> Labels]
  BY DEF Works, TypeOK
<1>1. CASE LosesAndReturns(t)
  <2>1. Lost(w) \in Workers /\ w' = Returned(Lost(w), t) /\ w' \in Workers
    BY <1>0, <1>1, LostParts, ReturnedParts DEF LosesAndReturns
  <2>2. Moves(t, "idle") /\ db' \in Databases /\ (db'.lease = db.lease)
    BY <1>0, <1>1 DEF LosesAndReturns, Ends, Goto, Moves, LostRow, RowWritten, Databases
  <2>3. Subsides /\ Schedules(t) /\ LeaseIsKnown'
    <3>1. /\ w'.state = "HALTED" /\ ~w'.owned /\ (w.stopped => w'.stopped) /\ w'.consuming = w.consuming
          /\ w'.marketSocket = w.marketSocket /\ w'.tradeSocket \in {w.tradeSocket, "none"} /\ w'.alive
          /\ \A s \in Streams : w'.fresh[s] \in {0, w.fresh[s]}
      BY <1>0, <2>1, LostParts, ReturnedParts DEF Works
    <3> QED
      BY <2>1, <2>2, <3>1 DEF Subsides, Schedules, LeaseIsKnown
  <2>9. w'.alive
    BY <2>3 DEF Subsides
  <2> QED
    BY <2>9, <1>0, <2>1, <2>2, <2>3, OnTheWayKeeps DEF Moves, JobTypeOK, Works, TypeOK, Labels
<1>2. CASE w.stopped /\ w' = Returned(w, t) /\ UNCHANGED db /\ Ends(t)
  <2>1. Moves(t, "idle") /\ w' \in Workers
    BY <1>0, <1>2, ReturnedParts DEF Ends, Goto, Moves
  <2>2. Subsides /\ Schedules(t) /\ LeaseIsKnown'
    BY <1>0, <1>2, ReturnedParts DEF Subsides, Schedules, LeaseIsKnown, Works
  <2>9. w'.alive
    BY <2>2 DEF Subsides
  <2> QED
    BY <2>9, <1>0, <1>2, <2>1, <2>2, OnTheWayKeeps DEF Moves, JobTypeOK, Works, TypeOK, Labels
<1>3. ASSUME NEW label \in {"read", "returned"}, label = "read" => pc[t] = "read", w.owned, Halt(t, label)
      PROVE  Calm(t) /\ JobTypeOK'
  <2>1. /\ w' = Halting(w) /\ UNCHANGED db
        /\ pc' = [pc EXCEPT ![t] = "haltRow"] /\ resume' = [resume EXCEPT ![t] = label]
    BY <1>3 DEF Halt
  <2>2. Subsides /\ Schedules(t) /\ LeaseIsKnown'
    BY <1>0, <2>1, HaltingParts DEF Subsides, Schedules, LeaseIsKnown, Works
  <2> QED
    BY <1>0, <1>3, <2>1, <2>2, HaltingParts, OnTheWayKeeps DEF JobTypeOK, Works, TypeOK, Labels
<1> QED
  BY <1>1, <1>2, <1>3 DEF Throws

----------------------------------------------------------------------------
(* The steps of the tasks.                                                  *)

(* The object with another state. *)
LEMMA StateParts ==
  ASSUME NEW o \in Workers, NEW st \in {"STOPPED", "STARTING", "RECONCILING", "READY", "HALTED"},
         NEW p, p = [o EXCEPT !.state = st]
  PROVE  /\ p \in Workers /\ p.state = st
         /\ p.owned = o.owned /\ p.stopped = o.stopped /\ p.consuming = o.consuming /\ p.fresh = o.fresh
         /\ p.marketSocket = o.marketSocket /\ p.tradeSocket = o.tradeSocket /\ p.alive = o.alive
  BY DEF Workers

(* The object whose lease was given back. *)
LEMMA ReleasedParts ==
  ASSUME NEW o \in Workers, NEW p, p = [o EXCEPT !.owned = FALSE]
  PROVE  /\ p \in Workers /\ ~p.owned
         /\ p.state = o.state /\ p.stopped = o.stopped /\ p.consuming = o.consuming /\ p.fresh = o.fresh
         /\ p.marketSocket = o.marketSocket /\ p.tradeSocket = o.tradeSocket /\ p.alive = o.alive
  BY DEF Workers

(* reconcileInternal returns to start() or reconcile(). *)
LEMMA ReconciledKeeps ==
  ASSUME NEW t, Works(t), pc[t] \in {"row", "equity", "read"}, t \in Reconcilers \cup {"start"}, Reconciled(t),
         pc[t] = "read" \/ w.stopped \/ ~w.owned
  PROVE  Calm(t) /\ JobTypeOK'
<1> USE WorkIsLate DEF OnTheWay
<1>0. t \in Tasks /\ w \in Workers /\ db \in Databases /\ pc \in [Tasks -> Labels]
      /\ resume \in [Tasks -> {"idle", "read", "reading", "returned", "stopSave"}]
  BY DEF Works, TypeOK
<1>1. CASE w.stopped
  <2>1. w.stopped /\ w' = Returned(w, t) /\ UNCHANGED db /\ Ends(t)
    BY <1>1 DEF Reconciled
  <2> QED
    BY <2>1, ThrowingKeeps DEF Throws
<1>2. CASE ~w.stopped /\ t = "start"
  <2>1. UNCHANGED <<w, db>> /\ Moves(t, "gaps")
    BY <1>2 DEF Reconciled, Goto, Moves
  <2>2. Subsides /\ Schedules(t) /\ LeaseIsKnown'
    BY <1>0, <2>1 DEF Subsides, Schedules, LeaseIsKnown, Works
  <2>9. w'.alive
    BY <2>2 DEF Subsides
  <2> QED
    BY <2>9, <1>0, <1>2, <2>1, <2>2, OnTheWayKeeps DEF Moves, JobTypeOK, Labels
<1>3. CASE ~w.stopped /\ t # "start" /\ w.owned
  <2>1. w' = [w EXCEPT !.state = "READY"] /\ UNCHANGED db /\ Moves(t, "save") /\ pc[t] = "read"
    BY <1>3 DEF Reconciled, Goto, Moves
  <2>2. /\ w' \in Workers /\ w'.state = "READY"
        /\ w'.owned = w.owned /\ w'.stopped = w.stopped /\ w'.consuming = w.consuming /\ w'.fresh = w.fresh
        /\ w'.marketSocket = w.marketSocket /\ w'.tradeSocket = w.tradeSocket /\ w'.alive = w.alive
    BY <1>0, <2>1, StateParts
  <2>3. w' \in Workers /\ Subsides /\ Schedules(t) /\ LeaseIsKnown'
    BY <1>3, <2>1, <2>2 DEF Subsides, Schedules, LeaseIsKnown, Works
  <2>9. w'.alive
    BY <2>3 DEF Subsides
  <2> QED
    BY <2>9, <1>0, <2>1, <2>3, OnTheWayKeeps DEF Moves, JobTypeOK, Labels
<1>4. CASE ~w.stopped /\ t # "start" /\ ~w.owned
  <2> DEFINE o == [w EXCEPT !.state = "READY"]
  <2>1. /\ w' = Returned(Lost(o), t) /\ db' = RowWritten("HALTED") /\ Moves(t, "idle") /\ o \in Workers
    BY <1>0, <1>4, StateParts DEF Reconciled, Ends, Goto, Moves
  <2>2. /\ o.consuming = w.consuming /\ o.fresh = w.fresh /\ o.marketSocket = w.marketSocket
        /\ o.tradeSocket = w.tradeSocket /\ o.alive = w.alive
    BY <1>0, StateParts
  <2> HIDE DEF o
  <2>3. Lost(o) \in Workers /\ w' \in Workers
    BY <2>1, LostParts, ReturnedParts, <1>0
  <2>4. db' \in Databases /\ db'.lease = db.lease
    BY <1>0, <2>1 DEF RowWritten, Databases
  <2>5. /\ w'.state = "HALTED" /\ ~w'.owned /\ w'.consuming = w.consuming
        /\ w'.marketSocket = w.marketSocket /\ w'.tradeSocket \in {w.tradeSocket, "none"} /\ w'.alive
        /\ \A s \in Streams : w'.fresh[s] \in {0, w.fresh[s]}
    <3> DEFINE l == Lost(o)
    <3>1. /\ l \in Workers /\ l.state = "HALTED" /\ ~l.owned /\ l.consuming = o.consuming
          /\ l.marketSocket = o.marketSocket /\ l.tradeSocket \in {o.tradeSocket, "none"} /\ l.alive = o.alive
          /\ \A s \in Streams : l.fresh[s] \in {0, o.fresh[s]}
      BY <2>1, LostParts
    <3>2. w' = Returned(l, t)
      BY <2>1
    <3> HIDE DEF l
    <3>3. w' = Returned(l, t) /\ w'.state = l.state /\ w'.owned = l.owned /\ w'.consuming = l.consuming
          /\ w'.marketSocket = l.marketSocket /\ w'.tradeSocket = l.tradeSocket /\ w'.alive = l.alive
          /\ \A s \in Streams : w'.fresh[s] = l.fresh[s]
      BY <1>0, <3>1, <3>2, ReturnedParts
    <3> QED
      BY <2>2, <3>1, <3>3 DEF Works
  <2>6. Subsides /\ Schedules(t) /\ LeaseIsKnown'
    BY <1>4, <2>3, <2>4, <2>5 DEF Subsides, Schedules, LeaseIsKnown
  <2>9. w'.alive
    BY <2>6 DEF Subsides
  <2> QED
    BY <2>9, <1>0, <2>1, <2>3, <2>4, <2>6, OnTheWayKeeps DEF Moves, JobTypeOK, Labels
<1> QED
  BY <1>1, <1>2, <1>3, <1>4

(* A step that changes nothing but the place of the task. *)
LEMMA PlaceKeeps ==
  ASSUME NEW t, Works(t), UNCHANGED <<w, db>>
  PROVE  Subsides /\ Schedules(t) /\ LeaseIsKnown' /\ w' \in Workers /\ db' \in Databases
  BY WorkIsLate DEF Subsides, Schedules, LeaseIsKnown, Works, TypeOK

(* The steps of a reconciliation and the writes after it. *)
LEMMA ReconcilingKeeps ==
  ASSUME NEW t, TypeOK, LifecycleInv, w.alive, t \in Reconcilers \cup {"start"},
         Row(t) \/ Equity(t) \/ Read(t) \/ Save(t) \/ Ready(t)
  PROVE  Calm(t) /\ JobTypeOK'
<1>0. /\ Works(t) /\ pc[t] \in OnTheWay
      /\ t \in Tasks /\ w \in Workers /\ db \in Databases /\ pc \in [Tasks -> Labels]
      /\ resume \in [Tasks -> {"idle", "read", "reading", "returned", "stopSave"}]
  BY DEF Works, TypeOK, Row, Equity, Read, Save, Ready, OnTheWay, Tasks, Reconcilers, Streams
<1>1. CASE Throws(t) \/ LosesAndReturns(t) \/ (pc[t] = "read" /\ w.owned /\ Halt(t, "read"))
  BY <1>0, <1>1, ThrowingKeeps
<1>2. CASE Reconciled(t) /\ (Row(t) \/ Equity(t) \/ Read(t)) /\ (pc[t] = "read" \/ w.stopped \/ ~w.owned)
  BY <1>0, <1>2, ReconciledKeeps DEF Row, Equity, Read
<1>3. ASSUME UNCHANGED <<w, db>>, NEW label \in Labels, Moves(t, label),
             \/ pc[t] = "row" /\ label = "equity"
             \/ pc[t] = "equity" /\ label = "read"
             \/ pc[t] = "save" /\ label = "ready"
             \/ t = "start" /\ label \in {"idle", "connect"}
      PROVE  Calm(t) /\ JobTypeOK'
  <2>1. Subsides /\ Schedules(t) /\ LeaseIsKnown' /\ w' \in Workers /\ db' \in Databases
    BY <1>0, <1>3, PlaceKeeps
  <2>2. Calm(t)
    BY <1>0, <1>3, <2>1, OnTheWayKeeps
  <2> QED
    BY <1>0, <1>3, <2>1, <2>2 DEF JobTypeOK, Moves
<1>4. ASSUME pc[t] = "ready", UNCHANGED db, w' = Returned(w, t), Moves(t, "idle")
      PROVE  Calm(t) /\ JobTypeOK'
  <2>1. w' \in Workers /\ Subsides /\ LeaseIsKnown'
    BY <1>0, <1>4, ReturnedParts, WorkIsLate DEF Subsides, LeaseIsKnown, Works
  <2>2. Schedules(t)
    <3>1. t \in Tasks /\ w \in Workers /\ pc'[t] = "idle"
      BY <1>0, <1>4 DEF Moves
    <3>2. /\ \A u \in Streams \ {t} : w'.fresh[u] = w.fresh[u]
          /\ t \in Streams => w'.fresh[t] \in {w.fresh[t], w.fresh[t] + 1}
          /\ t \in Streams /\ w'.fresh[t] # w.fresh[t] => ~w.stopped
          /\ w'.stopped = w.stopped
      BY <1>4, <3>1, ReturnedParts
    <3> QED
      BY <1>4, <3>1, <3>2 DEF Schedules, InHalt
  <2>9. w'.alive
    BY <2>1 DEF Subsides
  <2> QED
    BY <2>9, <1>0, <1>4, <2>1, <2>2, OnTheWayKeeps DEF JobTypeOK, Moves, Labels
<1>5. CASE Row(t)
  BY <1>1, <1>2, <1>3, <1>5 DEF Row, Goto, Moves, NothingToLose, Labels
<1>6. CASE Equity(t)
  BY <1>1, <1>2, <1>3, <1>6 DEF Equity, Goto, Moves, Labels
<1>7. CASE Read(t)
  BY <1>1, <1>2, <1>7 DEF Read
<1>8. CASE Save(t)
  BY <1>1, <1>3, <1>8 DEF Save, Goto, Moves, Labels
<1>9. CASE Ready(t)
  <2>1. CASE t = "start" /\ UNCHANGED w
    <3>1. Throws(t) \/ \E label \in {"idle", "connect"} : UNCHANGED <<w, db>> /\ Moves(t, label)
      BY <1>9, <2>1 DEF Ready, Goto, Moves
    <3> QED
      BY <1>1, <1>3, <2>1, <3>1 DEF Labels
  <2>2. CASE ~(t = "start" /\ UNCHANGED w)
    BY <1>1, <1>4, <1>9, <2>2 DEF Ready, Ends, Goto, Moves
  <2> QED
    BY <2>1, <2>2
<1> QED
  BY <1>5, <1>6, <1>7, <1>8, <1>9

(* start() between its call and its connections may take the lease. *)
LEMMA StartGoesOn ==
  ASSUME Works("start"), w' \in Workers, w'.alive, w.stopped => w'.stopped,
         w'.consuming = w.consuming, w'.marketSocket = w.marketSocket, w'.tradeSocket = w.tradeSocket, w'.fresh = w.fresh,
         LeaseIsKnown', CheckpointIsOwned',
         (w'.state = "STOPPED" => w.state = "STOPPED") /\ (db'.lease = "mine" => db.lease = "mine" \/ ~w.stopped),
         NEW label, Moves("start", label), ~InHalt("start")
  PROVE  Calm("start")
<1> USE WorkIsLate
<1>1. /\ "start" \in Tasks /\ "stop" \in Tasks
      /\ \A u \in Tasks \ {"start"} : pc'[u] = pc[u] /\ resume'[u] = resume[u]
      /\ resume'["start"] = resume["start"]
  BY DEF Works, TypeOK, Moves, Tasks
<1>2. GoesOn("start")
  BY <1>1 DEF GoesOn, Works, HaltsResume, Streams
<1>3. Schedules("start")
  BY DEF Schedules, Streams
<1>4. StopIsDone'
  BY <1>1 DEF StopIsDone, StopIsFinal, Works
<1> QED
  BY <1>1, <1>2, <1>3, <1>4 DEF Calm, Works

(* The steps of start() itself. *)
LEMMA StartingKeeps ==
  ASSUME TypeOK, LifecycleInv, w.alive,
         Create \/ Acquire \/ Refused \/ ReadCheckpoint \/ Gaps \/ Confirm
  PROVE  Calm("start") /\ JobTypeOK'
<1>0. /\ Works("start") /\ ~InHalt("start")
      /\ "start" \in Tasks /\ w \in Workers /\ db \in Databases /\ pc \in [Tasks -> Labels]
      /\ resume \in [Tasks -> {"idle", "read", "reading", "returned", "stopSave"}]
  BY DEF Works, TypeOK, Create, Acquire, Refused, ReadCheckpoint, Gaps, Confirm, InHalt, Tasks
<1> USE WorkIsLate
<1>1. CASE (Gaps \/ Confirm) /\ (Throws("start") \/ LosesAndReturns("start"))
  BY <1>0, <1>1, ThrowingKeeps DEF Gaps, Confirm, OnTheWay
<1>2. ASSUME UNCHANGED w, db' \in Databases, db'.lease = db.lease, NEW label \in Labels \ {"checkpoint"}, Moves("start", label)
      PROVE  Calm("start") /\ JobTypeOK'
  <2>1. LeaseIsKnown' /\ CheckpointIsOwned'
    BY <1>0, <1>2 DEF LeaseIsKnown, CheckpointIsOwned, Moves
  <2> QED
    BY <1>0, <1>2, <2>1, StartGoesOn DEF JobTypeOK, Moves, Works
<1>3. CASE Create
  BY <1>0, <1>2, <1>3 DEF Create, Goto, Moves, Labels, Databases
<1>4. CASE Acquire
  <2>1. CASE UNCHANGED <<w, db>> /\ Ends("start")
    BY <1>0, <1>2, <2>1 DEF Ends, Goto, Moves, Labels
  <2>2. CASE ~w.stopped /\ w' = [w EXCEPT !.owned = TRUE, !.renews = TRUE] /\ db' = [db EXCEPT !.lease = "mine"]
             /\ Goto("start", "checkpoint")
    <3>1. Moves("start", "checkpoint")
      BY <2>2 DEF Goto, Moves
    <3>2. /\ w' \in Workers /\ w'.owned /\ w'.state = w.state /\ w'.stopped = w.stopped /\ w'.alive = w.alive
          /\ w'.consuming = w.consuming /\ w'.marketSocket = w.marketSocket /\ w'.tradeSocket = w.tradeSocket
          /\ w'.fresh = w.fresh
      BY <1>0, <2>2 DEF Workers
    <3>3. LeaseIsKnown' /\ CheckpointIsOwned' /\ db' \in Databases
      BY <1>0, <2>2, <3>2 DEF LeaseIsKnown, CheckpointIsOwned, Databases
    <3> QED
      BY <1>0, <2>2, <3>1, <3>2, <3>3, StartGoesOn DEF JobTypeOK, Moves, Works, Labels
  <2>3. CASE w' = [w EXCEPT !.state = "HALTED"] /\ UNCHANGED db /\ Goto("start", "refused")
    <3>1. /\ w' \in Workers /\ w'.owned = w.owned /\ w'.state = "HALTED" /\ w'.stopped = w.stopped /\ w'.alive = w.alive
          /\ w'.consuming = w.consuming /\ w'.marketSocket = w.marketSocket /\ w'.tradeSocket = w.tradeSocket
          /\ w'.fresh = w.fresh
      BY <1>0, <2>3 DEF Workers
    <3>2. LeaseIsKnown' /\ CheckpointIsOwned' /\ Moves("start", "refused")
      BY <1>0, <2>3, <3>1 DEF LeaseIsKnown, CheckpointIsOwned, Goto, Moves
    <3> QED
      BY <1>0, <2>3, <3>1, <3>2, StartGoesOn DEF JobTypeOK, Moves, Works, Labels
  <2> QED
    BY <1>4, <2>1, <2>2, <2>3 DEF Acquire
<1>5. CASE Refused
  BY <1>0, <1>2, <1>5 DEF Refused, Ends, Goto, Moves, Labels, RowWritten, Databases
<1>6. CASE ReadCheckpoint
  <2>1. CASE w.stopped
    <3>1. w' = [w EXCEPT !.owned = FALSE] /\ db' = Freed /\ Moves("start", "idle")
      BY <1>6, <2>1 DEF ReadCheckpoint, Released, Ends, Goto, Moves
    <3>2. /\ w' \in Workers /\ ~w'.owned /\ w'.state = w.state /\ w'.stopped = w.stopped /\ w'.alive = w.alive
          /\ w'.consuming = w.consuming /\ w'.marketSocket = w.marketSocket /\ w'.tradeSocket = w.tradeSocket
          /\ w'.fresh = w.fresh
      BY <1>0, <3>1, ReleasedParts
    <3>3. db' \in Databases /\ (db'.lease = "mine" => db.lease = "mine" /\ ~w.owned)
      BY <1>0, <3>1 DEF Freed, Fenced, Databases
    <3>4. LeaseIsKnown' /\ CheckpointIsOwned'
      BY <1>0, <3>1, <3>2, <3>3 DEF LeaseIsKnown, CheckpointIsOwned, Moves
    <3> QED
      BY <1>0, <3>1, <3>2, <3>3, <3>4, StartGoesOn DEF JobTypeOK, Moves, Works, Labels
  <2>2. CASE ~w.stopped
    <3>1. w' = [w EXCEPT !.state = "RECONCILING"] /\ UNCHANGED db /\ Moves("start", "row") /\ w.owned
      BY <1>0, <1>6, <2>2 DEF ReadCheckpoint, BeginReconciling, Goto, Moves, CheckpointIsOwned
    <3>2. /\ w' \in Workers /\ w'.owned /\ w'.state = "RECONCILING" /\ w'.stopped = w.stopped /\ w'.alive = w.alive
          /\ w'.consuming = w.consuming /\ w'.marketSocket = w.marketSocket /\ w'.tradeSocket = w.tradeSocket
          /\ w'.fresh = w.fresh
      BY <1>0, <3>1 DEF Workers
    <3>3. LeaseIsKnown' /\ CheckpointIsOwned'
      BY <3>1, <3>2 DEF LeaseIsKnown, CheckpointIsOwned
    <3> QED
      BY <1>0, <3>1, <3>2, <3>3, StartGoesOn DEF JobTypeOK, Moves, Works, Labels
  <2> QED
    BY <2>1, <2>2
<1>7. CASE Gaps
  BY <1>0, <1>1, <1>2, <1>7 DEF Gaps, Goto, Moves, Labels
<1>8. CASE Confirm
  <2>1. CASE w' = [w EXCEPT !.owned = TRUE, !.state = "READY"] /\ UNCHANGED db /\ Goto("start", "save")
    <3>1. /\ w' \in Workers /\ w'.owned /\ w'.state = "READY" /\ w'.stopped = w.stopped /\ w'.alive = w.alive
          /\ w'.consuming = w.consuming /\ w'.marketSocket = w.marketSocket /\ w'.tradeSocket = w.tradeSocket
          /\ w'.fresh = w.fresh
      BY <1>0, <2>1 DEF Workers
    <3>2. LeaseIsKnown' /\ CheckpointIsOwned' /\ Moves("start", "save")
      BY <2>1, <3>1 DEF LeaseIsKnown, CheckpointIsOwned, Goto, Moves
    <3> QED
      BY <1>0, <2>1, <3>1, <3>2, StartGoesOn DEF JobTypeOK, Moves, Works, Labels
  <2> QED
    BY <1>1, <1>8, <2>1 DEF Confirm
<1> QED
  BY <1>3, <1>4, <1>5, <1>6, <1>7, <1>8

(* The consumer reads on, halts or ends. *)
LEMMA MarketGoesOn ==
  ASSUME Works("market"), pc["market"] \in {"open", "reading", "bar"},
         w' \in Workers, w'.alive, w.stopped => w'.stopped, w'.tradeSocket \in {w.tradeSocket, "none"},
         w'.owned => w.owned, w'.marketSocket = "open" => w'.consuming,
         \A s \in Streams : w'.fresh[s] \in {0, w.fresh[s]},
         LeaseIsKnown', w'.state = "STOPPED" => w.state = "STOPPED", db'.lease = "mine" => db.lease = "mine",
         \/ w'.consuming /\ \E label \in {"reading", "bar"} : Moves("market", label)
         \/ ~w'.consuming /\ \E label \in {"idle", "degraded"} : Moves("market", label)
         \/ /\ w'.consuming /\ pc' = [pc EXCEPT !["market"] = "haltRow"]
            /\ resume' = [resume EXCEPT !["market"] = "reading"]
  PROVE  Calm("market")
<1> USE WorkIsLate
<1>1. /\ "market" \in Tasks /\ "start" \in Tasks /\ "stop" \in Tasks
      /\ \A u \in Tasks \ {"market"} : pc'[u] = pc[u] /\ resume'[u] = resume[u]
  BY DEF Works, TypeOK, Moves, Tasks, Reconcilers, Streams
<1>2. w.consuming /\ ~InHalt("market") /\ resume["market"] \notin {"read", "reading", "returned"}
  BY <1>1 DEF ConsumerReads, ReadsMarket, HaltsResume, InHalt
<1>3. ConsumerReads'
  BY <1>2 DEF ConsumerReads, ReadsMarket, InHalt, Works, TypeOK, Moves
<1>4. GoesOn("market")
  BY <1>1, <1>2 DEF GoesOn, Works, TypeOK, Moves, InHalt, Reconciling
<1>5. CheckpointIsOwned' /\ StopIsDone' /\ Schedules("market")
  BY <1>1 DEF CheckpointIsOwned, StopIsDone, Works, Schedules
<1> QED
  BY <1>1, <1>2, <1>3, <1>4, <1>5 DEF Calm, Works

(* The consumer ended: it recovers, or the worker is stopped or halted. *)
LEMMA ConsumerEndsKeeps ==
  ASSUME Works("market"), pc["market"] \in {"open", "reading", "bar"},
         NEW o, NEW d, ConsumerEnds(o, d), (o = w /\ d = db) \/ (o = Lost(w) /\ d = LostRow)
  PROVE  JobTypeOK' /\ (w'.alive => Calm("market"))
<1> DEFINE ended == [o EXCEPT !.consuming = FALSE, !.marketSocket = "none"]
<1>0. /\ "market" \in Tasks /\ w \in Workers /\ db \in Databases /\ pc \in [Tasks -> Labels] /\ w.alive
      /\ resume \in [Tasks -> {"idle", "read", "reading", "returned", "stopSave"}]
  BY DEF Works, TypeOK, Tasks, Reconcilers, Streams
<1>1. /\ o \in Workers /\ d \in Databases /\ d.lease = db.lease /\ o.alive = w.alive
      /\ (w.stopped => o.stopped) /\ (o.owned => w.owned) /\ o.tradeSocket \in {w.tradeSocket, "none"}
      /\ (\A s \in Streams : o.fresh[s] \in {0, w.fresh[s]}) /\ (o.state = "STOPPED" => w.state = "STOPPED")
  BY <1>0, LostParts DEF LostRow, RowWritten, Databases
<1>2. d.lease = "mine" /\ ~o.owned => o.state = "HALTED"
  BY <1>0, <1>1, LostParts, WorkIsLate DEF LeaseIsKnown
<1>3. /\ ended \in Workers /\ ~ended.consuming /\ ended.marketSocket = "none" /\ ended.alive = o.alive
      /\ ended.stopped = o.stopped /\ ended.owned = o.owned /\ ended.tradeSocket = o.tradeSocket
      /\ ended.fresh = o.fresh /\ ended.state = o.state
  BY <1>1 DEF Workers
<1>4. db' = d /\ ((w' = ended /\ \E label \in {"idle", "degraded"} : Moves("market", label))
                  \/ (w' = Dead /\ Moves("market", "idle")))
  BY DEF ConsumerEnds, Ends, Goto, Moves
<1> HIDE DEF ended
<1>5. JobTypeOK'
  <2>1. w' \in Workers /\ (w'.alive \/ (w'.marketSocket = "none" /\ w'.tradeSocket = "none"))
    BY <1>0, <1>1, <1>3, <1>4, EndParts
  <2> QED
    BY <1>0, <1>1, <1>4, <2>1 DEF JobTypeOK, Moves, Labels
<1>6. ASSUME w' = ended, w'.alive, NEW label \in {"idle", "degraded"}, Moves("market", label) PROVE Calm("market")
  <2>1. LeaseIsKnown'
    BY <1>2, <1>3, <1>4, <1>6 DEF LeaseIsKnown
  <2> QED
    BY <1>1, <1>3, <1>4, <1>6, <2>1, MarketGoesOn
<1> QED
  BY <1>4, <1>5, <1>6, EndParts

(* The steps of the consumer. *)
LEMMA ConsumerKeeps ==
  ASSUME TypeOK, LifecycleInv, w.alive, Open \/ BarArrives \/ MarketFails \/ Bar
  PROVE  JobTypeOK' /\ (w'.alive => Calm("market"))
<1>0. /\ Works("market") /\ pc["market"] \in {"open", "reading", "bar"}
      /\ "market" \in Tasks /\ w \in Workers /\ db \in Databases /\ pc \in [Tasks -> Labels]
      /\ resume \in [Tasks -> {"idle", "read", "reading", "returned", "stopSave"}]
  BY DEF Works, TypeOK, Open, BarArrives, MarketFails, Bar, Tasks, Reconcilers, Streams
<1>1. w.consuming /\ LeaseIsKnown
  BY <1>0, WorkIsLate DEF ConsumerReads, ReadsMarket
<1>2. CASE ConsumerEnds(w, db) \/ ConsumerEnds(Lost(w), LostRow)
  BY <1>0, <1>2, ConsumerEndsKeeps
<1>3. CASE w' = [w EXCEPT !.marketSocket = "open"] /\ UNCHANGED db /\ Moves("market", "reading")
  <2>1. /\ w' \in Workers /\ w'.owned = w.owned /\ w'.state = w.state /\ w'.stopped = w.stopped /\ w'.alive = w.alive
        /\ w'.consuming = w.consuming /\ w'.marketSocket = "open" /\ w'.tradeSocket = w.tradeSocket
        /\ w'.fresh = w.fresh
    BY <1>0, <1>3 DEF Workers
  <2>2. LeaseIsKnown'
    BY <1>1, <1>3, <2>1 DEF LeaseIsKnown
  <2> QED
    BY <1>0, <1>1, <1>3, <2>1, <2>2, MarketGoesOn DEF JobTypeOK, Moves, Works, Labels
<1>4. CASE UNCHANGED <<w, db>> /\ \E label \in {"reading", "bar"} : Moves("market", label)
  <2>1. LeaseIsKnown' /\ (w'.marketSocket = "open" => w'.consuming)
    BY <1>1, <1>4 DEF LeaseIsKnown
  <2> QED
    BY <1>0, <1>1, <1>4, <2>1, MarketGoesOn DEF JobTypeOK, Moves, Works, Labels
<1>5. CASE w' = Lost(w) /\ db' = LostRow /\ Moves("market", "reading")
  <2>1. /\ w' \in Workers /\ ~w'.owned /\ w'.state = "HALTED" /\ (w.stopped => w'.stopped) /\ w'.alive = w.alive
        /\ w'.consuming = w.consuming /\ w'.marketSocket = w.marketSocket /\ w'.tradeSocket \in {w.tradeSocket, "none"}
        /\ \A s \in Streams : w'.fresh[s] \in {0, w.fresh[s]}
    BY <1>0, <1>5, LostParts
  <2>2. LeaseIsKnown' /\ db' \in Databases /\ db'.lease = db.lease
    BY <1>0, <1>5, <2>1 DEF LeaseIsKnown, LostRow, RowWritten, Databases
  <2> QED
    BY <1>0, <1>1, <1>5, <2>1, <2>2, MarketGoesOn DEF JobTypeOK, Moves, Works, Labels
<1>6. CASE /\ w.owned /\ w' = Halting(w) /\ UNCHANGED db
           /\ pc' = [pc EXCEPT !["market"] = "haltRow"] /\ resume' = [resume EXCEPT !["market"] = "reading"]
  <2>1. /\ w' \in Workers /\ w'.owned /\ w'.state = "HALTED" /\ w'.stopped = w.stopped /\ w'.alive = w.alive
        /\ w'.consuming = w.consuming /\ w'.marketSocket = w.marketSocket /\ w'.tradeSocket = w.tradeSocket
        /\ \A s \in Streams : w'.fresh[s] \in {0, w.fresh[s]}
    BY <1>0, <1>6, HaltingParts
  <2>2. LeaseIsKnown'
    BY <2>1 DEF LeaseIsKnown
  <2> QED
    BY <1>0, <1>1, <1>6, <2>1, <2>2, MarketGoesOn DEF JobTypeOK, Works, Labels
<1> QED
  BY <1>2, <1>3, <1>4, <1>5, <1>6 DEF Open, BarArrives, MarketFails, Bar, Halt, Lose, Goto, Moves

(* halt() returned or threw: its task goes on where it awaited it, or ends. *)
LEMMA HaltEndsKeeps ==
  ASSUME NEW t, Works(t), InHalt(t), Subsides, LeaseIsKnown', Schedules(t), resume' = [resume EXCEPT ![t] = "idle"],
         \/ pc' = [pc EXCEPT ![t] = IF resume[t] = "returned" THEN "idle" ELSE resume[t]]
         \/ resume[t] # "reading" /\ pc' = [pc EXCEPT ![t] = "idle"]
  PROVE  Calm(t)
<1> USE WorkIsLate
<1>1. /\ \A u \in Tasks \ {t} : pc'[u] = pc[u] /\ resume'[u] = resume[u]
      /\ pc'[t] \in {"idle", "read", "reading", "stopSave"} /\ resume'[t] = "idle"
      /\ pc'[t] \in {"idle", resume[t]} /\ (resume[t] = "reading" => pc'[t] = "reading")
  BY DEF Works, TypeOK
<1>2. GoesOn(t)
  BY <1>1 DEF GoesOn, Works, InHalt, Reconciling
<1>3. CheckpointIsOwned' /\ StopIsDone'
  BY <1>1 DEF CheckpointIsOwned, StopIsDone, Works, Subsides, Tasks
<1>4. t = "market" => ConsumerReads'
  BY <1>1 DEF ConsumerReads, ReadsMarket, InHalt, Subsides, HaltsResume, Works
<1> QED
  BY <1>1, <1>2, <1>3, <1>4 DEF Calm, Subsides, Works

(* releaseOwnership after a halt. *)
LEMMA HaltReturnsKeeps ==
  ASSUME NEW t, Works(t), InHalt(t), NEW d \in Databases, d.lease = db.lease, HaltReturns(t, d)
  PROVE  JobTypeOK' /\ Calm(t)
<1> DEFINE o == [w EXCEPT !.owned = FALSE]
<1>0. /\ t \in Tasks /\ w \in Workers /\ db \in Databases /\ pc \in [Tasks -> Labels] /\ w.alive
      /\ resume \in [Tasks -> {"idle", "read", "reading", "returned", "stopSave"}]
  BY DEF Works, TypeOK
<1>1. /\ o \in Workers /\ ~o.owned /\ o.state = w.state /\ o.stopped = w.stopped /\ o.alive = w.alive
      /\ o.consuming = w.consuming /\ o.marketSocket = w.marketSocket /\ o.tradeSocket = w.tradeSocket
      /\ o.fresh = w.fresh
  BY <1>0, ReleasedParts
<1>2. w' = IF resume[t] = "returned" THEN Returned(o, t) ELSE o
  BY DEF HaltReturns, Released
<1> HIDE DEF o
<1>3. /\ w' \in Workers /\ ~w'.owned /\ w'.state = w.state /\ w'.stopped = w.stopped /\ w'.alive = w.alive
      /\ w'.consuming = w.consuming /\ w'.marketSocket = w.marketSocket /\ w'.tradeSocket = w.tradeSocket
  <2>1. CASE w' = o
    BY <1>1, <2>1
  <2>2. CASE w' = Returned(o, t)
    <3> DEFINE r == Returned(o, t)
    <3>1. /\ r \in Workers /\ r.owned = o.owned /\ r.state = o.state /\ r.stopped = o.stopped /\ r.alive = o.alive
          /\ r.consuming = o.consuming /\ r.marketSocket = o.marketSocket /\ r.tradeSocket = o.tradeSocket
      <4>1. o \in Workers /\ t \in Tasks
        BY <1>0, <1>1
      <4> QED
        BY <4>1, ReturnedParts DEF r
    <3>2. w' = r
      BY <2>2
    <3> HIDE DEF r
    <3> QED
      BY <1>1, <3>1, <3>2
  <2> QED
    BY <1>2, <2>1, <2>2
<1>4. /\ pc' = [pc EXCEPT ![t] = IF resume[t] = "returned" THEN "idle" ELSE resume[t]]
      /\ resume' = [resume EXCEPT ![t] = "idle"]
      /\ db' \in Databases /\ (db'.lease = "mine" => db.lease = "mine" /\ ~w.owned)
  BY <1>0 DEF HaltReturns, Fenced, Databases
<1>5. LeaseIsKnown' /\ Subsides
  BY <1>0, <1>3, <1>4, WorkIsLate DEF LeaseIsKnown, Subsides
<1>6. Schedules(t)
  <2>1. CASE resume[t] # "returned"
    BY <1>1, <1>2, <2>1 DEF Schedules
  <2>2. CASE resume[t] = "returned"
    <3>1. pc'[t] = "idle" /\ pc[t] \notin {"open", "reading", "bar"}
      BY <1>0, <1>4, <2>2 DEF InHalt
    <3> QED
      BY <1>0, <1>1, <1>2, <1>3, <2>2, <3>1, ReturnedParts DEF Schedules
  <2> QED
    BY <2>1, <2>2
<1>7. JobTypeOK'
  BY <1>0, <1>3, <1>4 DEF JobTypeOK, Labels
<1> QED
  BY <1>4, <1>5, <1>6, <1>7, HaltEndsKeeps

(* The checkpoint write of a halt threw into the task. *)
LEMMA HaltRejectsKeeps ==
  ASSUME NEW t, Works(t), InHalt(t), NEW o, NEW d, HaltRejects(t, o, d),
         \/ o = w /\ ~w.owned /\ d = RowWritten("HALTED")
         \/ o = Lost(w) /\ d = LostRow
  PROVE  JobTypeOK' /\ (w'.alive => Calm(t))
<1>0. /\ t \in Tasks /\ w \in Workers /\ db \in Databases /\ pc \in [Tasks -> Labels] /\ w.alive
      /\ resume \in [Tasks -> {"idle", "read", "reading", "returned", "stopSave"}]
  BY DEF Works, TypeOK
<1>1. /\ o \in Workers /\ d \in Databases /\ d.lease = db.lease /\ o.alive = w.alive /\ ~o.owned
      /\ (w.stopped => o.stopped) /\ o.tradeSocket \in {w.tradeSocket, "none"}
      /\ o.consuming = w.consuming /\ o.marketSocket = w.marketSocket
      /\ (\A s \in Streams : o.fresh[s] \in {0, w.fresh[s]}) /\ (o.state = "STOPPED" => w.state = "STOPPED")
      /\ (d.lease = "mine" => o.state = "HALTED")
  <2>1. d \in Databases /\ d.lease = db.lease
    BY <1>0 DEF LostRow, RowWritten, Databases
  <2>2. db.lease = "mine" => w.owned \/ w.state = "HALTED"
    BY WorkIsLate DEF LeaseIsKnown
  <2>3. CASE o = w /\ ~w.owned
    BY <1>0, <2>1, <2>2, <2>3 DEF Workers
  <2>4. CASE o = Lost(w)
    BY <1>0, <2>1, <2>4, LostParts
  <2> QED
    BY <2>3, <2>4
<1>2. /\ pc' = [pc EXCEPT ![t] = "idle"] /\ resume' = [resume EXCEPT ![t] = "idle"] /\ db' = d
  BY DEF HaltRejects
<1> DEFINE ended == [o EXCEPT !.consuming = FALSE, !.marketSocket = "none"]
<1>3. /\ ended \in Workers /\ ~ended.consuming /\ ended.marketSocket = "none" /\ ended.alive = o.alive
      /\ ended.stopped = o.stopped /\ ended.owned = o.owned /\ ended.tradeSocket = o.tradeSocket
      /\ ended.fresh = o.fresh /\ ended.state = o.state
  BY <1>1 DEF Workers
<1>4. CASE resume[t] = "reading"
  <2>1. w' = ended \/ w' = Dead
    BY <1>4 DEF HaltRejects
  <2> HIDE DEF ended
  <2>2. JobTypeOK'
    BY <1>0, <1>1, <1>2, <1>3, <2>1, EndParts DEF JobTypeOK, Labels
  <2>3. ASSUME w' = ended PROVE Calm(t)
    <3>1. /\ t = "market" /\ calls["start"] # 0 /\ HaltsResume /\ ~Early /\ pc["start"] = "idle"
          /\ CheckpointIsOwned /\ StopIsDone
      BY <1>0, <1>4, WorkIsLate DEF HaltsResume
    <3>2. \A u \in Tasks \ {t} : pc'[u] = pc[u] /\ resume'[u] = resume[u]
      BY <1>0, <1>2
    <3>3. pc'[t] = "idle" /\ resume'[t] = "idle" /\ pc[t] # "idle"
      BY <1>0, <1>2 DEF InHalt
    <3>4. ConsumerReads' /\ LeaseIsKnown'
      BY <1>1, <1>2, <1>3, <2>3, <3>1, <3>3 DEF ConsumerReads, ReadsMarket, InHalt, LeaseIsKnown
    <3>5. CheckpointIsOwned' /\ StopIsDone'
      BY <1>1, <1>2, <1>3, <2>3, <3>1, <3>2 DEF CheckpointIsOwned, StopIsDone, Tasks, Works
    <3>6. Schedules(t) /\ GoesOn(t)
      BY <1>1, <1>3, <2>3, <3>1, <3>3 DEF Schedules, GoesOn, Reconciling, InHalt
    <3> QED
      BY <1>0, <1>1, <1>3, <2>3, <3>1, <3>2, <3>4, <3>5, <3>6 DEF Calm, Works
  <2> QED
    BY <2>1, <2>2, <2>3, EndParts
<1>5. CASE resume[t] # "reading"
  <2>1. w' \in {Returned(Lost(o), t), Lost(o), Dead, o}
    BY <1>5 DEF HaltRejects
  <2> DEFINE l == Lost(o)
  <2>2. /\ l \in Workers /\ l.alive = o.alive /\ ~l.owned /\ l.state = "HALTED"
        /\ (o.stopped => l.stopped) /\ l.tradeSocket \in {o.tradeSocket, "none"}
        /\ l.consuming = o.consuming /\ l.marketSocket = o.marketSocket
        /\ \A s \in Streams : l.fresh[s] \in {0, o.fresh[s]}
    BY <1>1, LostParts
  <2> HIDE DEF l
  <2> DEFINE p == Returned(l, t)
  <2>3. /\ p \in Workers /\ p.alive = l.alive /\ ~p.owned /\ p.state = "HALTED" /\ p.stopped = l.stopped
        /\ p.tradeSocket = l.tradeSocket /\ p.consuming = l.consuming /\ p.marketSocket = l.marketSocket
        /\ \A s \in Streams : p.fresh[s] = l.fresh[s]
    BY <1>0, <2>2, ReturnedParts
  <2> HIDE DEF p
  <2>4. w' \in {p, l, Dead, o}
    BY <2>1 DEF p, l
  <2>5. JobTypeOK'
    BY <1>0, <1>1, <1>2, <2>2, <2>3, <2>4, EndParts DEF JobTypeOK, Labels
  <2>6. ASSUME w'.alive PROVE Calm(t)
    <3>1. w' \in {p, l, o}
      BY <2>4, <2>6, EndParts
    <3>2. /\ w' \in Workers /\ ~w'.owned /\ (w.stopped => w'.stopped) /\ w'.tradeSocket \in {w.tradeSocket, "none"}
          /\ w'.consuming = w.consuming /\ w'.marketSocket = w.marketSocket
          /\ (\A s \in Streams : w'.fresh[s] \in {0, w.fresh[s]}) /\ (w'.state = "STOPPED" => w.state = "STOPPED")
          /\ (d.lease = "mine" => w'.state = "HALTED")
      <4>1. CASE w' = o
        BY <1>1, <4>1
      <4>2. CASE w' = l
        BY <1>1, <2>2, <4>2
      <4>3. CASE w' = p
        BY <1>1, <2>2, <2>3, <4>3
      <4> QED
        BY <3>1, <4>1, <4>2, <4>3
    <3>3. Subsides /\ LeaseIsKnown' /\ Schedules(t)
      BY <1>1, <1>2, <2>6, <3>2 DEF Subsides, LeaseIsKnown, Schedules
    <3> QED
      BY <1>2, <1>5, <3>3, HaltEndsKeeps
  <2> QED
    BY <2>5, <2>6
<1> QED
  BY <1>4, <1>5

(* The steps of halt() after its first await. *)
LEMMA HaltKeeps ==
  ASSUME TypeOK, LifecycleInv, w.alive, NEW t \in Tasks, HaltRow(t) \/ HaltSave(t)
  PROVE  JobTypeOK' /\ (w'.alive => Calm(t))
<1>0. /\ Works(t) /\ InHalt(t)
      /\ w \in Workers /\ db \in Databases /\ pc \in [Tasks -> Labels]
      /\ resume \in [Tasks -> {"idle", "read", "reading", "returned", "stopSave"}]
  BY DEF Works, TypeOK, HaltRow, HaltSave, InHalt, LifecycleInv, HaltsResume
<1>1. RowWritten("HALTED") \in Databases /\ RowWritten("HALTED").lease = db.lease
  BY <1>0 DEF RowWritten, Databases
<1>2. CASE HaltReturns(t, db)
  BY <1>0, <1>2, HaltReturnsKeeps
<1>3. CASE (~w.owned /\ HaltRejects(t, w, RowWritten("HALTED"))) \/ HaltRejects(t, Lost(w), LostRow)
  BY <1>0, <1>3, HaltRejectsKeeps
<1>4. CASE db' = RowWritten("HALTED") /\ Goto(t, "haltSave") /\ UNCHANGED w
  <2> USE WorkIsLate
  <2>1. /\ pc' = [pc EXCEPT ![t] = "haltSave"] /\ UNCHANGED resume
        /\ \A u \in Tasks \ {t} : pc'[u] = pc[u]
        /\ pc'[t] = "haltSave" /\ pc[t] # "idle"
    BY <1>0, <1>4 DEF Goto, InHalt
  <2>2. LeaseIsKnown'
    BY <1>0, <1>1, <1>4 DEF LeaseIsKnown
  <2>3. CheckpointIsOwned' /\ StopIsDone'
    BY <1>0, <1>1, <1>4, <2>1 DEF CheckpointIsOwned, StopIsDone, Works, Tasks
  <2>4. Schedules(t)
    BY <1>4 DEF Schedules
  <2>5. GoesOn(t)
    BY <1>0, <2>1 DEF GoesOn, Works, InHalt, Reconciling, HaltsResume
  <2>6. t = "market" => ConsumerReads'
    BY <1>0, <1>4, <2>1 DEF ConsumerReads, ReadsMarket, InHalt
  <2>7. Calm(t)
    BY <1>0, <1>4, <2>1, <2>2, <2>3, <2>4, <2>5, <2>6 DEF Calm, Works
  <2> QED
    BY <1>0, <1>1, <1>4, <2>1, <2>7 DEF JobTypeOK, Labels
<1> QED
  BY <1>2, <1>3, <1>4 DEF HaltRow, HaltSave

(* A recovery, an operator's reconciliation or a trade update goes on, ends or halts. *)
LEMMA OtherGoesOn ==
  ASSUME TypeOK, LifecycleInv, w.alive, NEW t \in Tasks \ {"start", "stop"}, ~Early,
         calls'["start"] = calls["start"], calls'["stop"] = calls["stop"],
         w' \in Workers, w'.alive, w.stopped => w'.stopped, w'.tradeSocket \in {w.tradeSocket, "none"},
         w'.owned => w.owned, w'.consuming = w.consuming, w'.marketSocket = w.marketSocket,
         w'.state = "STOPPED" => w.state = "STOPPED", db'.lease = "mine" => db.lease = "mine",
         LeaseIsKnown', Schedules(t), t \in Streams => pc[t] = "degraded",
         \/ \E label \in {"row", "update", "idle"} : Moves(t, label)
         \/ pc' = [pc EXCEPT ![t] = "haltRow"] /\ resume' = [resume EXCEPT ![t] = "idle"] /\ t \notin Streams,
         ~InHalt(t)
  PROVE  Calm(t)
<1>0. calls["start"] # 0 /\ pc["start"] = "idle" /\ CheckpointIsOwned /\ StopIsDone /\ HaltsResume
  BY DEF Early, LifecycleInv
<1>1. /\ \A u \in Tasks \ {t} : pc'[u] = pc[u] /\ resume'[u] = resume[u]
      /\ pc'[t] \in {"row", "update", "idle", "haltRow"}
      /\ resume'[t] \in {resume[t], "idle"} /\ (t \in Streams => pc'[t] \in {"row", "update", "idle"})
  BY DEF TypeOK, Moves
<1>2. resume[t] \notin {"read", "reading", "returned"}
  BY <1>0 DEF HaltsResume
<1>3. GoesOn(t)
  BY <1>1, <1>2 DEF GoesOn, InHalt, Reconciling, Streams
<1>4. CheckpointIsOwned' /\ StopIsDone'
  BY <1>0, <1>1 DEF CheckpointIsOwned, StopIsDone, Tasks
<1>5. t = "market" => ConsumerReads'
  BY <1>1, <1>2 DEF ConsumerReads, ReadsMarket, InHalt, LifecycleInv, Streams
<1> QED
  BY <1>0, <1>1, <1>3, <1>4, <1>5 DEF Calm

(* A stream recovery that saved DEGRADED reconciles, or finds the worker stopped or HALTED. *)
LEMMA DegradedKeeps ==
  ASSUME TypeOK, LifecycleInv, w.alive, NEW t \in Streams, Degraded(t)
  PROVE  JobTypeOK' /\ (w'.alive => Calm(t))
<1>0. /\ w \in Workers /\ db \in Databases /\ pc \in [Tasks -> Labels] /\ t \in Tasks \ {"start", "stop"}
      /\ resume \in [Tasks -> {"idle", "read", "reading", "returned", "stopSave"}]
      /\ pc[t] = "degraded" /\ ~InHalt(t) /\ calls' = calls
      /\ LeaseIsKnown /\ ~Early
  BY DEF TypeOK, Degraded, InHalt, LifecycleInv, StartsFirst, Tasks, Reconcilers, Streams
<1>1. CASE w' = Dead /\ db' \in {db, LostRow} /\ Ends(t)
  BY <1>0, <1>1, EndParts DEF JobTypeOK, Ends, Goto, LostRow, RowWritten, Databases, Labels
<1>2. CASE w' = [w EXCEPT !.state = "RECONCILING"] /\ UNCHANGED db /\ Moves(t, "row") /\ w.state # "HALTED"
  <2>1. /\ w' \in Workers /\ w'.state = "RECONCILING"
        /\ w'.owned = w.owned /\ w'.stopped = w.stopped /\ w'.consuming = w.consuming /\ w'.fresh = w.fresh
        /\ w'.marketSocket = w.marketSocket /\ w'.tradeSocket = w.tradeSocket /\ w'.alive = w.alive
    <3>1. w \in Workers /\ w' = [w EXCEPT !.state = "RECONCILING"]
      BY <1>0, <1>2
    <3> QED
      BY <3>1 DEF Workers
  <2>2. LeaseIsKnown' /\ Schedules(t)
    BY <1>0, <1>2, <2>1 DEF LeaseIsKnown, Schedules
  <2>3. Calm(t)
    BY <1>0, <1>2, <2>1, <2>2, OtherGoesOn
  <2> QED
    BY <1>0, <1>2, <2>1, <2>3 DEF JobTypeOK, Moves, Labels
<1>3. CASE w' = Returned(w, t) /\ UNCHANGED db /\ Moves(t, "idle") /\ (w.stopped \/ w.state = "HALTED")
  <2>1. /\ w' \in Workers /\ w'.state = w.state
        /\ w'.owned = w.owned /\ w'.stopped = w.stopped /\ w'.consuming = w.consuming
        /\ w'.marketSocket = w.marketSocket /\ w'.tradeSocket = w.tradeSocket /\ w'.alive = w.alive
        /\ \A s \in Streams : w'.fresh[s] = w.fresh[s]
    <3> DEFINE r == Returned(w, t)
    <3>1. w \in Workers /\ t \in Tasks /\ t \in Streams
      BY <1>0
    <3>2. /\ r \in Workers /\ r.owned = w.owned /\ r.state = w.state /\ r.stopped = w.stopped /\ r.alive = w.alive
          /\ r.consuming = w.consuming /\ r.marketSocket = w.marketSocket /\ r.tradeSocket = w.tradeSocket
          /\ (\A s \in Streams \ {t} : r.fresh[s] = w.fresh[s])
          /\ (r.fresh[t] # w.fresh[t] => ~w.stopped /\ w.state = "READY")
      BY <3>1, ReturnedParts DEF r
    <3>3. w' = r /\ (w.stopped \/ w.state = "HALTED")
      BY <1>3
    <3> HIDE DEF r
    <3> QED
      BY <3>2, <3>3
  <2>2. LeaseIsKnown' /\ Schedules(t)
    BY <1>0, <1>3, <2>1 DEF LeaseIsKnown, Schedules
  <2>3. Calm(t)
    BY <1>0, <1>3, <2>1, <2>2, OtherGoesOn
  <2> QED
    BY <1>0, <1>3, <2>1, <2>3 DEF JobTypeOK, Moves, Labels
<1> QED
  BY <1>0, <1>1, <1>2, <1>3 DEF Degraded, BeginReconciling, Ends, Goto, Moves

(* The operator asks for a reconciliation. *)
LEMMA OperatorKeeps ==
  ASSUME TypeOK, LifecycleInv, w.alive, Operator
  PROVE  JobTypeOK' /\ Calm("operator")
<1>0. /\ w \in Workers /\ db \in Databases /\ pc \in [Tasks -> Labels] /\ "operator" \in Tasks \ {"start", "stop"}
      /\ resume \in [Tasks -> {"idle", "read", "reading", "returned", "stopSave"}] /\ "operator" \notin Streams
      /\ pc["operator"] = "idle" /\ ~InHalt("operator") /\ LeaseIsKnown /\ ~Early
      /\ calls'["start"] = calls["start"] /\ calls'["stop"] = calls["stop"]
  BY DEF TypeOK, Operator, Called, InHalt, LifecycleInv, Early, Tasks, Reconcilers, Streams
<1>1. w' = [w EXCEPT !.state = "RECONCILING"] /\ UNCHANGED db /\ Moves("operator", "row") /\ w.state # "HALTED"
  BY DEF Operator, BeginReconciling, Goto, Moves
<1>2. /\ w' \in Workers /\ w'.state = "RECONCILING"
      /\ w'.owned = w.owned /\ w'.stopped = w.stopped /\ w'.consuming = w.consuming /\ w'.fresh = w.fresh
      /\ w'.marketSocket = w.marketSocket /\ w'.tradeSocket = w.tradeSocket /\ w'.alive = w.alive
  <2>1. w \in Workers /\ w' = [w EXCEPT !.state = "RECONCILING"]
    BY <1>0, <1>1
  <2> QED
    BY <2>1 DEF Workers
<1>3. LeaseIsKnown' /\ Schedules("operator")
  BY <1>0, <1>1, <1>2 DEF LeaseIsKnown, Schedules
<1>4. Calm("operator")
  BY <1>0, <1>1, <1>2, <1>3, OtherGoesOn
<1> QED
  BY <1>0, <1>1, <1>2, <1>4 DEF JobTypeOK, Moves, Labels

(* A trade update arrives and is projected. *)
LEMMA UpdateKeeps ==
  ASSUME TypeOK, LifecycleInv, w.alive, TradeUpdate \/ ProjectUpdate
  PROVE  JobTypeOK' /\ Calm("update")
<1>0. /\ w \in Workers /\ db \in Databases /\ pc \in [Tasks -> Labels] /\ "update" \in Tasks \ {"start", "stop"}
      /\ resume \in [Tasks -> {"idle", "read", "reading", "returned", "stopSave"}] /\ "update" \notin Streams
      /\ ~InHalt("update") /\ LeaseIsKnown /\ ~Early
      /\ calls'["start"] = calls["start"] /\ calls'["stop"] = calls["stop"]
  BY DEF TypeOK, TradeUpdate, ProjectUpdate, Called, InHalt, LifecycleInv, StartsFirst, Tasks, Reconcilers, Streams
<1>1. CASE UNCHANGED <<w, db>> /\ \E label \in {"update", "idle"} : Moves("update", label)
  <2>1. LeaseIsKnown' /\ Schedules("update")
    BY <1>0, <1>1 DEF LeaseIsKnown, Schedules
  <2>2. Calm("update")
    BY <1>0, <1>1, <2>1, OtherGoesOn
  <2> QED
    BY <1>0, <1>1, <2>2 DEF JobTypeOK, Moves, Labels
<1>2. CASE w' = Lost(w) /\ db' = LostRow /\ Moves("update", "idle")
  <2>1. /\ w' \in Workers /\ ~w'.owned /\ w'.state = "HALTED" /\ (w.stopped => w'.stopped) /\ w'.alive = w.alive
        /\ w'.consuming = w.consuming /\ w'.marketSocket = w.marketSocket /\ w'.tradeSocket \in {w.tradeSocket, "none"}
        /\ \A s \in Streams : w'.fresh[s] \in {0, w.fresh[s]}
    BY <1>0, <1>2, LostParts
  <2>2. db' \in Databases /\ db'.lease = db.lease
    BY <1>0, <1>2 DEF LostRow, RowWritten, Databases
  <2>3. LeaseIsKnown' /\ Schedules("update")
    BY <2>1 DEF LeaseIsKnown, Schedules
  <2>4. Calm("update")
    BY <1>0, <1>2, <2>1, <2>2, <2>3, OtherGoesOn
  <2> QED
    BY <1>0, <1>2, <2>1, <2>2, <2>4 DEF JobTypeOK, Moves, Labels
<1>3. CASE /\ w.owned /\ w' = Halting(w) /\ UNCHANGED db
           /\ pc' = [pc EXCEPT !["update"] = "haltRow"] /\ resume' = [resume EXCEPT !["update"] = "idle"]
  <2>1. /\ w' \in Workers /\ w'.owned /\ w'.state = "HALTED" /\ w'.stopped = w.stopped /\ w'.alive = w.alive
        /\ w'.consuming = w.consuming /\ w'.marketSocket = w.marketSocket /\ w'.tradeSocket = w.tradeSocket
        /\ \A s \in Streams : w'.fresh[s] \in {0, w.fresh[s]}
    BY <1>0, <1>3, HaltingParts
  <2>2. LeaseIsKnown' /\ Schedules("update")
    BY <2>1 DEF LeaseIsKnown, Schedules
  <2>3. Calm("update")
    BY <1>0, <1>3, <2>1, <2>2, OtherGoesOn
  <2> QED
    BY <1>0, <1>3, <2>1, <2>3 DEF JobTypeOK, Labels
<1> QED
  BY <1>1, <1>2, <1>3 DEF TradeUpdate, ProjectUpdate, Halt, Lose, Ends, Goto, Moves

----------------------------------------------------------------------------
(* stop(), and what happens beside the tasks.                               *)

(* stop() gives up its sockets, timers and, at its end, the lease. *)
LEMMA StopKeeps ==
  ASSUME TypeOK, LifecycleInv, w.alive, Stop \/ StopRow \/ StopSave
  PROVE  JobTypeOK' /\ Calm("stop")
<1>0. /\ w \in Workers /\ db \in Databases /\ pc \in [Tasks -> Labels] /\ "stop" \in Tasks /\ "start" \in Tasks
      /\ resume \in [Tasks -> {"idle", "read", "reading", "returned", "stopSave"}] /\ "stop" \notin Streams
      /\ LeaseIsKnown /\ StopIsFinal /\ HaltsResume /\ calls["start"] # 0 /\ calls'["start"] # 0
  BY DEF TypeOK, Stop, StopRow, StopSave, Called, LifecycleInv, Uncalled, Tasks, Reconcilers, Streams
<1>1. ASSUME /\ w' \in Workers /\ w'.stopped /\ w'.alive /\ w'.tradeSocket \in {w.tradeSocket, "none"}
             /\ (w'.owned => w.owned) /\ w'.consuming = w.consuming /\ w'.marketSocket = w.marketSocket
             /\ \A s \in Streams : w'.fresh[s] \in {0, w.fresh[s]},
             db' \in Databases, LeaseIsKnown', calls'["stop"] # 0,
             \A u \in Tasks \ {"stop"} : pc'[u] = pc[u] /\ resume'[u] = resume[u],
             pc' \in [Tasks -> Labels], resume' \in [Tasks -> {"idle", "read", "reading", "returned", "stopSave"}],
             pc'["stop"] \in {"idle", "stopRow", "stopSave"}, resume'["stop"] \in {resume["stop"], "idle", "stopSave"},
             pc'["stop"] = "idle" /\ w'.state = "STOPPED" => db'.lease # "mine"
      PROVE  JobTypeOK' /\ Calm("stop")
  <2>1. CheckpointIsOwned' /\ StopIsDone' /\ Schedules("stop")
    BY <1>0, <1>1 DEF CheckpointIsOwned, StopIsDone, Schedules
  <2>2. GoesOn("stop")
    BY <1>0, <1>1 DEF GoesOn, InHalt, HaltsResume
  <2> QED
    BY <1>0, <1>1, <2>1, <2>2 DEF Calm, JobTypeOK
<1>2. CASE Stop
  <2> DEFINE c == Cancelled(w)
  <2>1. /\ c \in Workers /\ c.state = w.state /\ c.owned = w.owned /\ c.consuming = w.consuming
        /\ c.marketSocket = w.marketSocket /\ c.alive = w.alive /\ \A s \in Streams : c.fresh[s] = 0
    <3>1. w \in Workers
      BY <1>0
    <3>2. c.fresh = [s \in Streams |-> 0]
      BY <3>1, CancelledParts
    <3> QED
      BY <3>1, <3>2, CancelledParts
  <2>2. w' = [c EXCEPT !.stopped = TRUE, !.renews = FALSE, !.tradeSocket = "none",
                       !.state = IF w.state = "HALTED" THEN @ ELSE "STOPPED"]
    BY <1>2 DEF Stop
  <2> HIDE DEF c
  <2>3. /\ w' \in Workers /\ w'.stopped /\ w'.tradeSocket = "none" /\ w'.owned = c.owned
        /\ w'.consuming = c.consuming /\ w'.marketSocket = c.marketSocket /\ w'.alive = c.alive /\ w'.fresh = c.fresh
        /\ w'.state = IF w.state = "HALTED" THEN w.state ELSE "STOPPED"
    BY <2>1, <2>2 DEF Workers
  <2>4. /\ db' = db /\ LeaseIsKnown' /\ calls'["stop"] # 0
    BY <1>0, <1>2, <2>1, <2>3 DEF Stop, Called, LeaseIsKnown, TypeOK
  <2>5. /\ \A u \in Tasks \ {"stop"} : pc'[u] = pc[u] /\ resume'[u] = resume[u]
        /\ pc' \in [Tasks -> Labels] /\ resume' \in [Tasks -> {"idle", "read", "reading", "returned", "stopSave"}]
        /\ pc'["stop"] \in {"idle", "stopRow", "stopSave"} /\ resume'["stop"] \in {"idle", "stopSave"}
        /\ pc'["stop"] = "idle" => w.state = "HALTED"
    BY <1>0, <1>2 DEF Stop, Labels
  <2> QED
    BY <1>0, <1>1, <2>1, <2>3, <2>4, <2>5
<1>3. CASE StopRow \/ StopSave
  <2>1. /\ w.stopped /\ calls["stop"] # 0 /\ calls' = calls
    BY <1>0, <1>3 DEF StopIsFinal, StopRow, StopSave
  <2>2. ASSUME NEW label \in {"idle", "stopSave"}, Moves("stop", label)
        PROVE  /\ \A u \in Tasks \ {"stop"} : pc'[u] = pc[u] /\ resume'[u] = resume[u]
               /\ pc' \in [Tasks -> Labels] /\ resume' = resume /\ pc'["stop"] = label
    BY <1>0, <2>2 DEF Moves, Labels
  <2>3. ASSUME NEW d \in Databases, d.lease = db.lease, StopEnds(d) PROVE JobTypeOK' /\ Calm("stop")
    <3>1. w' = [w EXCEPT !.owned = FALSE] /\ Moves("stop", "idle")
      BY <2>3 DEF StopEnds, Released, Ends, Goto, Moves
    <3>2. /\ w' \in Workers /\ ~w'.owned /\ w'.state = w.state /\ w'.stopped = w.stopped /\ w'.alive = w.alive
          /\ w'.consuming = w.consuming /\ w'.marketSocket = w.marketSocket /\ w'.tradeSocket = w.tradeSocket
          /\ w'.fresh = w.fresh
      BY <1>0, <3>1 DEF Workers
    <3>3. db' \in Databases /\ (db'.lease = "mine" => db.lease = "mine" /\ ~w.owned)
      BY <1>0, <2>3 DEF StopEnds, Fenced, Databases
    <3>4. LeaseIsKnown' /\ (w'.state = "STOPPED" => db'.lease # "mine")
      BY <1>0, <3>2, <3>3 DEF LeaseIsKnown
    <3> QED
      BY <1>0, <1>1, <2>1, <2>2, <3>1, <3>2, <3>3, <3>4
  <2>4. CASE db' = RowWritten("STOPPED") /\ Moves("stop", "stopSave") /\ UNCHANGED w
    <3>1. db' \in Databases /\ db'.lease = db.lease
      BY <1>0, <2>4 DEF RowWritten, Databases
    <3>2. LeaseIsKnown'
      BY <1>0, <2>4, <3>1 DEF LeaseIsKnown
    <3> QED
      BY <1>0, <1>1, <2>1, <2>2, <2>4, <3>1, <3>2
  <2>5. CASE w' = Lost(w) /\ db' = LostRow /\ Moves("stop", "idle")
    <3>1. /\ w' \in Workers /\ ~w'.owned /\ w'.state = "HALTED" /\ (w.stopped => w'.stopped) /\ w'.alive = w.alive
          /\ w'.consuming = w.consuming /\ w'.marketSocket = w.marketSocket /\ w'.tradeSocket \in {w.tradeSocket, "none"}
          /\ \A s \in Streams : w'.fresh[s] \in {0, w.fresh[s]}
      BY <1>0, <2>5, LostParts
    <3>2. db' \in Databases /\ LeaseIsKnown'
      BY <1>0, <2>5, <3>1 DEF LostRow, RowWritten, Databases, LeaseIsKnown
    <3> QED
      BY <1>0, <1>1, <2>1, <2>2, <2>5, <3>1, <3>2
  <2>6. RowWritten("STOPPED") \in Databases /\ RowWritten("STOPPED").lease = db.lease
    BY <1>0 DEF RowWritten, Databases
  <2> QED
    BY <1>0, <1>3, <2>3, <2>4, <2>5, <2>6 DEF StopRow, StopSave, Lose, Ends, Goto, Moves
<1> QED
  BY <1>2, <1>3

(* A step that leaves every task where it waits. *)
LEMMA AsideKeeps ==
  ASSUME TypeOK, LifecycleInv, w.alive, calls["start"] # 0, UNCHANGED <<pc, resume, calls>>,
         w' \in Workers, w'.alive, w.stopped => w'.stopped, w'.tradeSocket \in {w.tradeSocket, "none"},
         w'.owned => w.owned, w'.consuming = w.consuming, w'.marketSocket = w.marketSocket,
         \A s \in Streams : w'.fresh[s] \in {0, w.fresh[s]},
         w'.state = "STOPPED" => w.state = "STOPPED", db'.lease = "mine" => db.lease = "mine",
         LeaseIsKnown', CheckpointIsOwned'
  PROVE  Calm("update")
<1>1. StartsFirst /\ StopIsDone /\ HaltsResume /\ "update" \in Tasks /\ "update" \notin Streams
  BY DEF LifecycleInv, Tasks, Streams
<1>2. GoesOn("update")
  BY <1>1 DEF GoesOn, StartsFirst, HaltsResume, InHalt
<1>3. StopIsDone' /\ Schedules("update")
  BY <1>1 DEF StopIsDone, Schedules
<1> QED
  BY <1>2, <1>3 DEF Calm

(* The loss of the lease stops the worker, when there is something to lose. *)
LEMMA LostStops ==
  ASSUME NEW o \in Workers
  PROVE  Lost(o).stopped \/ Lost(o) = o
<1>1. CASE ~NothingToLose(o)
  <2>1. Cancelled(o) \in Workers
    BY CancelledParts
  <2> QED
    BY <1>1, <2>1 DEF Lost, Workers
<1> QED
  BY <1>1 DEF Lost

(* Renewals, checkpoint writes nobody awaits, and the expiry of the lease. *)
LEMMA BesideKeeps ==
  ASSUME TypeOK, LifecycleInv, w.alive, RenewalFires \/ LeaseExpires \/ \E f \in w.floating : FloatingLands(f)
  PROVE  JobTypeOK' /\ (w'.alive => Calm("update"))
<1>0. /\ w \in Workers /\ db \in Databases /\ LeaseIsKnown /\ CheckpointIsOwned /\ Uncalled
      /\ UNCHANGED <<pc, resume, calls>>
      /\ pc \in [Tasks -> Labels] /\ resume \in [Tasks -> {"idle", "read", "reading", "returned", "stopSave"}]
  BY DEF TypeOK, LifecycleInv, RenewalFires, LeaseExpires, FloatingLands
<1>1. calls["start"] # 0
  BY <1>0 DEF Uncalled, WorkerInit, RenewalFires, LeaseExpires, FloatingLands
<1>2. CASE RenewalFires
  <2>1. w' = [w EXCEPT !.floating = @ \cup {"renewal"}] /\ db' = db
    BY <1>2 DEF RenewalFires
  <2>2. /\ w' \in Workers /\ w'.state = w.state /\ w'.owned = w.owned /\ w'.stopped = w.stopped /\ w'.alive = w.alive
        /\ w'.consuming = w.consuming /\ w'.marketSocket = w.marketSocket /\ w'.tradeSocket = w.tradeSocket
        /\ w'.fresh = w.fresh
    BY <1>0, <2>1 DEF Workers
  <2>3. LeaseIsKnown' /\ CheckpointIsOwned'
    BY <1>0, <2>1, <2>2 DEF LeaseIsKnown, CheckpointIsOwned
  <2> QED
    BY <1>0, <1>1, <2>1, <2>2, <2>3, AsideKeeps DEF JobTypeOK
<1>3. CASE LeaseExpires
  <2>1. w' = w /\ db' \in Databases /\ db'.lease = "free"
    BY <1>0, <1>3 DEF LeaseExpires, Databases
  <2>2. LeaseIsKnown' /\ CheckpointIsOwned'
    BY <1>0, <2>1 DEF LeaseIsKnown, CheckpointIsOwned
  <2> QED
    BY <1>0, <1>1, <2>1, <2>2, AsideKeeps DEF JobTypeOK
<1>4. ASSUME NEW f \in w.floating, FloatingLands(f) PROVE JobTypeOK' /\ (w'.alive => Calm("update"))
  <2> DEFINE o == [w EXCEPT !.floating = @ \ {f}]
  <2>1. /\ o \in Workers /\ o.state = w.state /\ o.owned = w.owned /\ o.stopped = w.stopped /\ o.alive = w.alive
        /\ o.consuming = w.consuming /\ o.marketSocket = w.marketSocket /\ o.tradeSocket = w.tradeSocket
        /\ o.fresh = w.fresh
    BY <1>0 DEF Workers
  <2>2. \/ w' = o /\ db' = db
        \/ w' = Dead /\ db' \in {db, LostRow}
        \/ w' = Lost(o) /\ db' = LostRow
    BY <1>4 DEF FloatingLands
  <2> HIDE DEF o
  <2>3. LostRow \in Databases /\ LostRow.lease = db.lease
    BY <1>0 DEF LostRow, RowWritten, Databases
  <2>4. CASE w' = o /\ db' = db
    <3>1. LeaseIsKnown' /\ CheckpointIsOwned'
      BY <1>0, <2>1, <2>4 DEF LeaseIsKnown, CheckpointIsOwned
    <3> QED
      BY <1>0, <1>1, <2>1, <2>4, <3>1, AsideKeeps DEF JobTypeOK
  <2>5. CASE w' = Dead /\ db' \in {db, LostRow}
    BY <1>0, <2>3, <2>5, EndParts DEF JobTypeOK
  <2>6. CASE w' = Lost(o) /\ db' = LostRow
    <3>1. /\ w' \in Workers /\ ~w'.owned /\ w'.state = "HALTED" /\ (o.stopped => w'.stopped) /\ w'.alive = o.alive
          /\ w'.consuming = o.consuming /\ w'.marketSocket = o.marketSocket /\ w'.tradeSocket \in {o.tradeSocket, "none"}
          /\ (\A s \in Streams : w'.fresh[s] \in {0, o.fresh[s]}) /\ (w'.stopped \/ w' = o)
      BY <2>1, <2>6, LostParts, LostStops
    <3>2. LeaseIsKnown' /\ CheckpointIsOwned'
      BY <1>0, <2>1, <3>1 DEF LeaseIsKnown, CheckpointIsOwned
    <3> QED
      BY <1>0, <1>1, <2>1, <2>3, <2>6, <3>1, <3>2, AsideKeeps DEF JobTypeOK
  <2> QED
    BY <2>2, <2>4, <2>5, <2>6
<1> QED
  BY <1>2, <1>3, <1>4

----------------------------------------------------------------------------
(* The steps that connect, and the call of start().                         *)

(* start() is called on an object that was never used. *)
LEMMA StartKeeps ==
  ASSUME TypeOK, LifecycleInv, w.alive, Start, Remember
  PROVE  JobTypeOK' /\ LifecycleInv' /\ OpensNothing
<1>0. /\ w = WorkerInit /\ calls["stop"] = 0 /\ db.lease # "mine" /\ dirty = {} /\ HaltsResume
      /\ \A t \in Tasks : pc[t] = "idle"
      /\ db \in Databases /\ pc \in [Tasks -> Labels] /\ "start" \in Tasks /\ "stop" \in Tasks /\ Streams \subseteq Tasks
      /\ resume \in [Tasks -> {"idle", "read", "reading", "returned", "stopSave"}]
  BY DEF LifecycleInv, Start, Uncalled, StartsFirst, Early, TypeOK, Tasks, Reconcilers, Streams
<1>1. /\ pc' = [pc EXCEPT !["start"] = "create"] /\ resume' = resume /\ db' = db
      /\ calls'["start"] = 1 /\ calls'["stop"] = 0
  BY <1>0 DEF Start, Goto, TypeOK
<1>2. /\ w' \in Workers /\ w'.state = "STARTING" /\ ~w'.owned /\ ~w'.stopped /\ ~w'.consuming /\ w'.alive
      /\ w'.marketSocket = "none" /\ w'.tradeSocket = "none" /\ \A s \in Streams : w'.fresh[s] = 0
  BY <1>0 DEF Start, WorkerInit, Workers
<1>3. ~w.consuming /\ w.tradeSocket = "none"
  BY <1>0 DEF WorkerInit
<1>4. Failed = {}
  BY <1>2, <1>3 DEF Failed
<1>5. \A t \in Tasks : ~Completes(t)
  BY <1>0 DEF Completes
<1>6. dirty' = {}
  BY <1>0, <1>4, <1>5 DEF Remember
<1>7. /\ pc'["start"] = "create" /\ \A t \in Tasks \ {"start"} : pc'[t] = "idle"
  BY <1>0, <1>1
<1>8. \A t \in Tasks : ~InHalt(t)' /\ ~Reconciling(t)' /\ resume'[t] \notin {"read", "reading", "returned"}
  BY <1>0, <1>1, <1>7 DEF InHalt, Reconciling, HaltsResume
<1>9. HaltsResume' /\ ConsumerReads' /\ TimersWakeIdle' /\ RecoveryHasNoSocket'
  BY <1>0, <1>2, <1>7, <1>8 DEF HaltsResume, ConsumerReads, ReadsMarket, TimersWakeIdle, RecoveryHasNoSocket, Streams, Tasks, Reconcilers
<1>10. StreamsAreClean' /\ TimersAreClean' /\ ReturnsAreClean' /\ RecoveryCovers'
  BY <1>0, <1>2, <1>6, <1>8 DEF StreamsAreClean, TimersAreClean, ReturnsAreClean, RecoveryCovers
<1>11. Uncalled' /\ StartsFirst' /\ LeaseIsKnown' /\ CheckpointIsOwned' /\ StopIsFinal' /\ StopIsDone'
  BY <1>0, <1>1, <1>2, <1>6, <1>7 DEF Uncalled, StartsFirst, LeaseIsKnown, CheckpointIsOwned, StopIsFinal, StopIsDone
<1>12. JobTypeOK'
  BY <1>0, <1>1, <1>2 DEF JobTypeOK, Labels
<1> QED
  BY <1>2, <1>9, <1>10, <1>11, <1>12 DEF LifecycleInv, OpensNothing

(* Another run takes the lease. *)
LEMMA TakeoverKeeps ==
  ASSUME TypeOK, LifecycleInv, w.alive, Takeover, Remember
  PROVE  JobTypeOK' /\ LifecycleInv' /\ OpensNothing
<1>0. /\ w' = w /\ db' \in Databases /\ db'.lease = "other" /\ UNCHANGED <<pc, resume, calls>>
      /\ w \in Workers /\ pc \in [Tasks -> Labels]
      /\ resume \in [Tasks -> {"idle", "read", "reading", "returned", "stopSave"}]
  BY DEF Takeover, TypeOK, Databases
<1>1. JobTypeOK'
  BY <1>0 DEF JobTypeOK
<1>2. CASE calls["start"] # 0
  <2>1. LeaseIsKnown' /\ CheckpointIsOwned'
    BY <1>0 DEF LeaseIsKnown, CheckpointIsOwned, LifecycleInv
  <2>2. Calm("update")
    BY <1>0, <1>2, <2>1, AsideKeeps
  <2> QED
    BY <1>1, <2>2, CalmKeepsInv DEF Tasks
<1>3. CASE calls["start"] = 0
  <2>1. /\ Uncalled /\ StartsFirst /\ StopIsFinal /\ HaltsResume /\ ConsumerReads /\ TimersWakeIdle /\ RecoveryHasNoSocket
        /\ StreamsAreClean /\ \A t \in Tasks : pc[t] = "idle"
    BY <1>3 DEF LifecycleInv, Uncalled
  <2>2. dirty = {} /\ Early /\ Early'
    BY <1>0, <1>3, <2>1 DEF StartsFirst, Early
  <2>3. Failed = {} /\ \A t \in Tasks : ~Completes(t)
    BY <1>0, <2>1 DEF Failed, Completes
  <2>4. dirty' = {}
    BY <2>2, <2>3 DEF Remember
  <2>5. StartsFirst'
    BY <1>0, <2>1, <2>2, <2>4 DEF StartsFirst
  <2>6. Uncalled' /\ StopIsFinal' /\ HaltsResume' /\ ConsumerReads' /\ TimersWakeIdle' /\ RecoveryHasNoSocket'
    BY <1>0, <2>1 DEF Uncalled, StopIsFinal, HaltsResume, InHalt, ConsumerReads, ReadsMarket, TimersWakeIdle, RecoveryHasNoSocket
  <2>7. LeaseIsKnown' /\ CheckpointIsOwned' /\ StopIsDone'
    BY <1>0, <2>1 DEF LeaseIsKnown, CheckpointIsOwned, StopIsDone, Tasks
  <2>8. StreamsAreClean' /\ TimersAreClean' /\ ReturnsAreClean' /\ RecoveryCovers'
    BY <1>0, <2>1, <2>4 DEF StreamsAreClean, TimersAreClean, ReturnsAreClean, RecoveryCovers, Reconciling, InHalt,
       Tasks, Reconcilers
  <2>9. OpensNothing
    BY <1>0, TimersSubside DEF OpensNothing
  <2> QED
    BY <1>1, <2>5, <2>6, <2>7, <2>8, <2>9 DEF LifecycleInv
<1> QED
  BY <1>2, <1>3, <1>0 DEF TypeOK

(* A step that opens a trade socket or a consumer for a clean stream, with no timer left for it. *)
LEMMA ConnectingKeeps ==
  ASSUME TypeOK, LifecycleInv, w.alive, Remember, calls["start"] # 0, UNCHANGED <<db, resume, calls>>,
         w' \in Workers, w'.alive, w'.state = w.state, w'.stopped = w.stopped, w.owned => w'.owned,
         w'.owned => w.owned \/ dirty = {}, w'.marketSocket = w.marketSocket,
         \A s \in Streams : w'.fresh[s] \in {0, w.fresh[s]},
         pc' \in [Tasks -> Labels], \A u \in Tasks \ {"start", "market"} : pc'[u] = pc[u],
         pc["start"] \in {"idle", "connect"}, pc'["start"] = "idle",
         \/ pc'["market"] = pc["market"] /\ w'.consuming = w.consuming
         \/ /\ pc["market"] = "idle" /\ pc'["market"] = "open" /\ ~w.consuming /\ w'.consuming /\ ~w.stopped
            /\ "market" \notin dirty /\ w'.fresh["market"] = 0,
         \/ w'.tradeSocket = w.tradeSocket
         \/ w.tradeSocket = "connecting" /\ w'.tradeSocket = "open"
         \/ /\ w.tradeSocket = "none" /\ w'.tradeSocket = "connecting" /\ ~w.stopped
            /\ "trade" \notin dirty /\ w'.fresh["trade"] = 0 /\ pc["trade"] = "idle"
  PROVE  JobTypeOK' /\ LifecycleInv' /\ OpensNothing
<1>0. /\ LeaseIsKnown /\ CheckpointIsOwned /\ StopIsFinal /\ StopIsDone /\ HaltsResume /\ ConsumerReads /\ TimersWakeIdle
      /\ RecoveryHasNoSocket /\ StreamsAreClean /\ TimersAreClean /\ ReturnsAreClean /\ RecoveryCovers
      /\ w \in Workers /\ db \in Databases /\ Streams \subseteq Tasks /\ "stop" \in Tasks
      /\ resume \in [Tasks -> {"idle", "read", "reading", "returned", "stopSave"}]
  BY DEF LifecycleInv, TypeOK, Tasks, Reconcilers, Streams
<1>1. Failed = {}
  BY DEF Failed
<1>2. \A t \in Tasks : ~Completes(t)
  BY DEF Completes, Tasks, Reconcilers, Streams
<1>3. dirty' = dirty
  BY <1>1, <1>2 DEF Remember
<1>4. ~Early'
  BY DEF Early
<1>5. \A t \in Tasks : InHalt(t)' <=> InHalt(t)
  BY DEF InHalt
<1>6. HaltsResume'
  BY <1>0, <1>5 DEF HaltsResume
<1>7. ConsumerReads'
  <2>1. CASE pc'["market"] = pc["market"] /\ w'.consuming = w.consuming
    BY <1>0, <1>5, <2>1 DEF ConsumerReads, ReadsMarket, Streams
  <2>2. CASE ~(pc'["market"] = pc["market"] /\ w'.consuming = w.consuming)
    BY <1>0, <2>2 DEF ConsumerReads, ReadsMarket
  <2> QED
    BY <2>1, <2>2
<1>8. TimersWakeIdle'
  <2>1. "trade" \in Streams /\ "market" \in Streams /\ pc'["trade"] = pc["trade"]
    BY DEF Streams, Tasks, Reconcilers
  <2>2. ASSUME NEW s \in Streams PROVE w'.fresh[s] <= 1 /\ (w'.fresh[s] > 0 => pc'[s] = "idle")
    <3>1. w'.fresh[s] <= 1 /\ (w'.fresh[s] > 0 => pc[s] = "idle")
      BY <1>0, <2>2 DEF TimersWakeIdle
    <3>2. s = "market" \/ s = "trade"
      BY <2>2 DEF Streams
    <3> QED
      BY <2>1, <3>1, <3>2
  <2>3. w'.fresh["trade"] > 0 => w'.tradeSocket = "none"
    BY <1>0, <2>1 DEF TimersWakeIdle
  <2> QED
    BY <2>2, <2>3 DEF TimersWakeIdle
<1>9. RecoveryHasNoSocket'
  BY <1>0 DEF RecoveryHasNoSocket, Tasks, Reconcilers, Streams
<1>10. StreamsAreClean'
  BY <1>0, <1>3 DEF StreamsAreClean
<1>11. TimersAreClean'
  <2> SUFFICES ASSUME NEW s \in Streams, w'.fresh[s] > 0 PROVE s \notin dirty \/ ~w'.owned
    BY <1>3 DEF TimersAreClean
  <2>1. w.fresh[s] > 0
    BY <1>0 DEF Workers
  <2> QED
    BY <1>0, <2>1 DEF TimersAreClean
<1>12. ReturnsAreClean'
  BY <1>0, <1>3 DEF ReturnsAreClean, Tasks, Reconcilers, Streams
<1>13. RecoveryCovers'
  <2> SUFFICES ASSUME NEW s \in Streams, Reconciling(s)' PROVE s \in covers'[s]
    BY DEF RecoveryCovers
  <2>1. pc'[s] = pc[s] /\ s \in Tasks
    BY <1>0 DEF Reconciling, InHalt, Tasks, Reconcilers, Streams
  <2>2. Reconciling(s)
    BY <2>1 DEF Reconciling, InHalt
  <2>3. pc'[s] \in {"row", "equity", "read"} \/ resume'[s] = "read"
    BY DEF Reconciling, InHalt
  <2> QED
    BY <1>0, <1>1, <2>1, <2>2, <2>3 DEF RecoveryCovers, Remember
<1>14. Uncalled' /\ StartsFirst' /\ LeaseIsKnown' /\ CheckpointIsOwned'
  BY <1>0, <1>4 DEF Uncalled, StartsFirst, LeaseIsKnown, CheckpointIsOwned
<1>15. StopIsFinal' /\ StopIsDone'
  BY <1>0 DEF StopIsFinal, StopIsDone
<1>16. OpensNothing
  BY TimersSubside DEF OpensNothing
<1> QED
  BY <1>0, <1>6, <1>7, <1>8, <1>9, <1>10, <1>11, <1>12, <1>13, <1>14, <1>15, <1>16 DEF JobTypeOK, LifecycleInv

(* start() connects the trade updates and the consumer. *)
LEMMA ConnectKeeps ==
  ASSUME TypeOK, LifecycleInv, w.alive, Connect, Remember
  PROVE  JobTypeOK' /\ LifecycleInv' /\ OpensNothing
<1>0. /\ w \in Workers /\ db \in Databases /\ pc \in [Tasks -> Labels]
      /\ resume \in [Tasks -> {"idle", "read", "reading", "returned", "stopSave"}]
      /\ pc["start"] = "connect" /\ Works("start") /\ "start" \in Tasks /\ "market" \in Tasks /\ "trade" \in Tasks
  BY DEF TypeOK, Connect, Works, Tasks, Reconcilers, Streams
<1>1. /\ calls["start"] # 0 /\ pc["market"] = "idle" /\ pc["trade"] = "idle" /\ dirty = {}
      /\ \A s \in Streams : w.fresh[s] = 0
  BY <1>0, WorkIsLate DEF LifecycleInv, StartsFirst, Early, Tasks, Reconcilers, Streams
<1>2. CASE Throws("start") \/ LosesAndReturns("start")
  <2>1. Calm("start") /\ JobTypeOK'
    BY <1>0, <1>2, ThrowingKeeps DEF OnTheWay
  <2> QED
    BY <1>0, <2>1, CalmKeepsInv
<1>3. CASE ~(Throws("start") \/ LosesAndReturns("start"))
  <2> DEFINE o == [w EXCEPT !.owned = TRUE]
             c == Connected(o)
             n == Consuming(c)
             q == [pc EXCEPT !["start"] = "idle", !["market"] = IF MayConsume(o) THEN "open" ELSE @]
  <2>1. /\ o \in Workers /\ o.owned /\ o.state = w.state /\ o.stopped = w.stopped /\ o.alive
        /\ o.consuming = w.consuming /\ o.marketSocket = w.marketSocket /\ o.tradeSocket = w.tradeSocket
        /\ o.fresh = w.fresh
    BY <1>0 DEF Workers, Works
  <2>2. w' = n /\ pc' = q /\ UNCHANGED <<db, resume, calls>>
    BY <1>3 DEF Connect
  <2>3. q \in [Tasks -> Labels] /\ q["start"] = "idle" /\ \A u \in Tasks \ {"start", "market"} : q[u] = pc[u]
    BY <1>0 DEF Labels
  <2>4. q["market"] = IF MayConsume(o) THEN "open" ELSE "idle"
    BY <1>0, <1>1
  <2> HIDE DEF o, q
  <2>5. /\ c \in Workers /\ (c.alive \/ c = Dead)
        /\ c.alive => /\ c.state = o.state /\ c.owned = o.owned /\ c.stopped = o.stopped
                      /\ c.consuming = o.consuming /\ c.marketSocket = o.marketSocket /\ c.fresh = o.fresh
                      /\ c.tradeSocket \in {o.tradeSocket, "connecting"}
                      /\ (c.tradeSocket # o.tradeSocket => o.tradeSocket = "none" /\ ~o.stopped)
    BY <2>1, ConnectedParts
  <2> HIDE DEF c
  <2>6. /\ n \in Workers /\ (n.alive \/ n = Dead)
        /\ n.alive => /\ n.state = c.state /\ n.owned = c.owned /\ n.stopped = c.stopped
                      /\ n.consuming = (c.consuming \/ MayConsume(c)) /\ n.marketSocket = c.marketSocket
                      /\ n.fresh = c.fresh /\ n.tradeSocket = c.tradeSocket /\ n.alive = c.alive
    BY <2>5, ConsumingParts
  <2> HIDE DEF n
  <2>7. JobTypeOK'
    BY <1>0, <2>2, <2>3, <2>6, EndParts DEF JobTypeOK
  <2>8. CASE n.alive
    <3>1. MayConsume(c) <=> MayConsume(o)
      BY <2>5, <2>6, <2>8 DEF MayConsume
    <3>2. /\ w' \in Workers /\ w'.alive /\ w'.state = w.state /\ w'.stopped = w.stopped /\ w'.owned
          /\ w'.marketSocket = w.marketSocket /\ \A s \in Streams : w'.fresh[s] = 0
      BY <1>1, <2>1, <2>2, <2>5, <2>6, <2>8
    <3>3. \/ pc'["market"] = pc["market"] /\ w'.consuming = w.consuming
          \/ pc'["market"] = "open" /\ ~w.consuming /\ w'.consuming /\ ~w.stopped
      <4>1. CASE MayConsume(o)
        BY <2>1, <2>2, <2>4, <2>5, <2>6, <2>8, <3>1, <4>1 DEF MayConsume
      <4>2. CASE ~MayConsume(o)
        <5>1. pc'["market"] = pc["market"]
          BY <1>1, <2>2, <2>4, <4>2
        <5>2. c.consuming \in BOOLEAN
          BY <2>5 DEF Workers
        <5>3. n.consuming = c.consuming
          BY <2>6, <2>8, <3>1, <4>2, <5>2
        <5> QED
          BY <2>1, <2>2, <2>5, <2>6, <2>8, <5>1, <5>3
      <4> QED
        BY <4>1, <4>2
    <3>4. \/ w'.tradeSocket = w.tradeSocket
          \/ w.tradeSocket = "none" /\ w'.tradeSocket = "connecting" /\ ~w.stopped
      BY <2>1, <2>2, <2>5, <2>6, <2>8
    <3>5. /\ pc' \in [Tasks -> Labels] /\ pc'["start"] = "idle"
          /\ \A u \in Tasks \ {"start", "market"} : pc'[u] = pc[u]
      BY <2>2, <2>3
    <3>6. "trade" \in Streams /\ "market" \in Streams
      BY DEF Streams
    <3> QED
      BY <1>0, <1>1, <2>2, <3>2, <3>3, <3>4, <3>5, <3>6, ConnectingKeeps
  <2> QED
    BY <2>2, <2>7, <2>8 DEF LifecycleInv, OpensNothing
<1> QED
  BY <1>2, <1>3

(* The trade socket answers. *)
LEMMA TradeReadyKeeps ==
  ASSUME TypeOK, LifecycleInv, w.alive, TradeReady, Remember
  PROVE  JobTypeOK' /\ LifecycleInv' /\ OpensNothing
<1>0. /\ w \in Workers /\ db \in Databases /\ pc \in [Tasks -> Labels] /\ UNCHANGED <<db, pc, resume, calls>>
      /\ resume \in [Tasks -> {"idle", "read", "reading", "returned", "stopSave"}] /\ w.tradeSocket = "connecting"
      /\ calls["start"] # 0 /\ pc["start"] = "idle"
  BY DEF TypeOK, TradeReady, LifecycleInv, StartsFirst, Early
<1> DEFINE o == [w EXCEPT !.tradeSocket = "open"]
<1>1. /\ o \in Workers /\ o.owned = w.owned /\ o.state = w.state /\ o.stopped = w.stopped /\ o.alive = w.alive
      /\ o.consuming = w.consuming /\ o.marketSocket = w.marketSocket /\ o.tradeSocket = "open"
      /\ o.fresh = w.fresh
  BY <1>0 DEF Workers
<1>2. w' = o \/ w' = Floating(o, "trade")
  BY DEF TradeReady
<1> HIDE DEF o
<1>3. w' \in Workers /\ (w'.alive \/ w' = Dead)
  BY <1>1, <1>2, FloatingType DEF Streams
<1>4. JobTypeOK'
  BY <1>0, <1>3, EndParts DEF JobTypeOK
<1>5. CASE w'.alive
  <2>1. w' = o \/ w' = [o EXCEPT !.floating = @ \cup {"trade"}]
    BY <1>1, <1>2, <1>5, FloatingParts DEF Streams
  <2>2. /\ w'.owned = w.owned /\ w'.state = w.state /\ w'.stopped = w.stopped
        /\ w'.consuming = w.consuming /\ w'.marketSocket = w.marketSocket /\ w'.tradeSocket = "open"
        /\ w'.fresh = w.fresh
    BY <1>1, <2>1 DEF Workers
  <2> QED
    BY <1>0, <1>3, <1>5, <2>2, ConnectingKeeps
<1> QED
  BY <1>4, <1>5 DEF LifecycleInv, OpensNothing

(* A sleep of the current generation ends: the stream connects if the worker is READY still. *)
LEMMA FreshTimerKeeps ==
  ASSUME TypeOK, LifecycleInv, w.alive, Remember, NEW s \in Streams, w.fresh[s] > 0,
         UNCHANGED <<db, resume, calls>>, NEW woken,
         woken = [w EXCEPT !.scheduled = @ \ {s}, !.fresh[s] = @ - 1],
         \/ w' = woken /\ UNCHANGED pc
         \/ s = "trade" /\ w' = Connected(woken) /\ UNCHANGED pc
         \/ /\ s = "market" /\ w' = Consuming(woken)
            /\ pc' = IF MayConsume(woken) THEN [pc EXCEPT ![s] = "open"] ELSE pc
  PROVE  JobTypeOK' /\ LifecycleInv' /\ OpensNothing
<1>0. /\ w \in Workers /\ db \in Databases /\ pc \in [Tasks -> Labels] /\ s \in Tasks /\ s # "start"
      /\ resume \in [Tasks -> {"idle", "read", "reading", "returned", "stopSave"}]
      /\ w.fresh[s] = 1 /\ pc[s] = "idle" /\ (s = "trade" => w.tradeSocket = "none") /\ (s \notin dirty \/ ~w.owned)
      /\ calls["start"] # 0 /\ pc["start"] = "idle" /\ w.fresh \in [Streams -> Nat]
  BY DEF TypeOK, LifecycleInv, StartsFirst, TimersWakeIdle, TimersAreClean, Early, Workers, Tasks, Reconcilers, Streams
<1> DEFINE f == [w.fresh EXCEPT ![s] = @ - 1]
           d == w.scheduled \ {s}
<1>1. f \in [Streams -> Nat] /\ f[s] = 0 /\ (\A u \in Streams : f[u] \in {0, w.fresh[u]}) /\ d \in SUBSET Streams
  BY <1>0 DEF Workers
<1>2. woken = [w EXCEPT !.scheduled = d, !.fresh = f]
  BY <1>0 DEF Workers
<1> HIDE DEF f, d
<1>3. /\ woken \in Workers /\ woken.owned = w.owned /\ woken.state = w.state /\ woken.stopped = w.stopped
      /\ woken.consuming = w.consuming /\ woken.marketSocket = w.marketSocket /\ woken.tradeSocket = w.tradeSocket
      /\ woken.fresh = f /\ woken.alive = w.alive
  <2>1. w \in Workers /\ f \in [Streams -> Nat] /\ d \in SUBSET Streams
    BY <1>0, <1>1
  <2> QED
    BY <1>2, <2>1 DEF Workers
<1>4. CASE w' = woken /\ UNCHANGED pc
  <2>1. JobTypeOK'
    BY <1>0, <1>3, <1>4 DEF JobTypeOK
  <2>2. \A u \in Streams : w'.fresh[u] \in {0, w.fresh[u]}
    BY <1>1, <1>3, <1>4
  <2>3. LifecycleInv' /\ OpensNothing
    BY <1>0, <1>3, <1>4, <2>2, ConnectingKeeps
  <2> QED
    BY <2>1, <2>3
<1>5. CASE s = "trade" /\ w' = Connected(woken) /\ UNCHANGED pc
  <2> DEFINE c == Connected(woken)
  <2>1. /\ c \in Workers /\ (c.alive \/ c = Dead)
        /\ c.alive => /\ c.state = woken.state /\ c.owned = woken.owned /\ c.stopped = woken.stopped
                      /\ c.consuming = woken.consuming /\ c.marketSocket = woken.marketSocket /\ c.fresh = woken.fresh
                      /\ c.tradeSocket \in {woken.tradeSocket, "connecting"}
                      /\ (c.tradeSocket # woken.tradeSocket => woken.owned /\ ~woken.stopped)
    <3>1. woken \in Workers /\ woken.alive
      BY <1>3
    <3>2. c \in Workers
      BY <3>1, ConnectedParts
    <3>3. c.alive \/ c = Dead
      BY <3>1, ConnectedParts
    <3>4. c.alive => c.state = woken.state /\ c.owned = woken.owned /\ c.stopped = woken.stopped
      BY <3>1, ConnectedParts
    <3>6. c.alive => c.consuming = woken.consuming /\ c.marketSocket = woken.marketSocket /\ c.fresh = woken.fresh
      BY <3>1, ConnectedParts
    <3>5. ASSUME c.alive PROVE /\ c.tradeSocket \in {woken.tradeSocket, "connecting"}
                      /\ (c.tradeSocket # woken.tradeSocket => woken.owned /\ ~woken.stopped)
      BY <3>1, <3>5, ConnectedParts
    <3> QED
      BY <3>2, <3>3, <3>4, <3>5, <3>6
  <2>2. w' = c
    BY <1>5
  <2> HIDE DEF c
  <2>3. JobTypeOK'
    <3>1. pc' = pc
      BY <1>5
    <3>2. w' \in Workers /\ (w'.alive \/ (w'.marketSocket = "none" /\ w'.tradeSocket = "none"))
      BY <2>1, <2>2, EndParts
    <3> QED
      BY <1>0, <3>1, <3>2 DEF JobTypeOK
  <2>4. CASE c.alive
    <3>1. /\ \A u \in Streams : w'.fresh[u] \in {0, w.fresh[u]}
          /\ w'.fresh["trade"] = 0 /\ (w'.tradeSocket # w.tradeSocket => "trade" \notin dirty /\ ~w.stopped)
      BY <1>0, <1>1, <1>3, <1>5, <2>1, <2>2, <2>4
    <3>2. LifecycleInv' /\ OpensNothing
      BY <1>0, <1>3, <1>5, <2>1, <2>2, <2>4, <3>1, ConnectingKeeps
    <3> QED
      BY <2>3, <3>2
  <2> QED
    BY <2>2, <2>3, <2>4 DEF LifecycleInv, OpensNothing
<1>6. CASE /\ s = "market" /\ w' = Consuming(woken)
           /\ pc' = IF MayConsume(woken) THEN [pc EXCEPT ![s] = "open"] ELSE pc
  <2> DEFINE n == Consuming(woken)
  <2>1. /\ n \in Workers /\ (n.alive \/ n = Dead)
        /\ n.alive => /\ n.state = woken.state /\ n.owned = woken.owned /\ n.stopped = woken.stopped
                      /\ n.consuming = (woken.consuming \/ MayConsume(woken)) /\ n.marketSocket = woken.marketSocket
                      /\ n.fresh = woken.fresh /\ n.tradeSocket = woken.tradeSocket
                      /\ (MayConsume(woken) => woken.owned)
    BY <1>3, ConsumingParts
  <2>2. w' = n
    BY <1>6
  <2> HIDE DEF n
  <2>3. /\ pc' \in [Tasks -> Labels] /\ \A u \in Tasks \ {"market"} : pc'[u] = pc[u]
        /\ pc'["market"] = IF MayConsume(woken) THEN "open" ELSE pc["market"]
    BY <1>0, <1>6 DEF Labels
  <2>4. JobTypeOK'
    BY <1>0, <2>1, <2>2, <2>3, EndParts DEF JobTypeOK
  <2>5. CASE n.alive
    <3>1. /\ \A u \in Streams : w'.fresh[u] \in {0, w.fresh[u]}
          /\ w'.fresh["market"] = 0 /\ (MayConsume(woken) => "market" \notin dirty)
      BY <1>0, <1>1, <1>3, <1>6, <2>1, <2>2, <2>5
    <3>2. \/ pc'["market"] = pc["market"] /\ w'.consuming = w.consuming
          \/ pc'["market"] = "open" /\ ~w.consuming /\ w'.consuming /\ "market" \notin dirty /\ ~w.stopped
      <4>1. CASE MayConsume(woken)
        BY <1>3, <2>1, <2>2, <2>3, <2>5, <3>1, <4>1 DEF MayConsume
      <4>2. CASE ~MayConsume(woken)
        <5>1. w.consuming \in BOOLEAN
          BY <1>0 DEF Workers
        <5> QED
          BY <1>3, <2>1, <2>2, <2>3, <2>5, <4>2, <5>1
      <4> QED
        BY <4>1, <4>2
    <3>3. pc["market"] = "idle" /\ "start" \in Tasks \ {"market"}
      BY <1>0, <1>6 DEF Tasks
    <3>4. LifecycleInv' /\ OpensNothing
      BY <1>0, <1>3, <2>1, <2>2, <2>3, <2>5, <3>1, <3>2, <3>3, ConnectingKeeps
    <3> QED
      BY <2>4, <3>4
  <2> QED
    BY <2>2, <2>4, <2>5 DEF LifecycleInv, OpensNothing
<1> QED
  BY <1>4, <1>5, <1>6

(* A sleep ends. *)
LEMMA TimerKeeps ==
  ASSUME TypeOK, LifecycleInv, w.alive, Remember, NEW s \in Streams, TimerFires(s)
  PROVE  JobTypeOK' /\ LifecycleInv' /\ OpensNothing
<1>0. /\ w \in Workers /\ db \in Databases /\ pc \in [Tasks -> Labels] /\ UNCHANGED <<db, resume, calls>>
      /\ resume \in [Tasks -> {"idle", "read", "reading", "returned", "stopSave"}]
      /\ w.stale[s] \in Nat /\ w.fresh[s] \in Nat
  BY DEF TypeOK, TimerFires, Workers
<1>1. CASE w.stale[s] > 0 /\ w' = [w EXCEPT !.scheduled = @ \ {s}, !.stale[s] = @ - 1] /\ UNCHANGED pc
  <2> DEFINE f == [w.stale EXCEPT ![s] = @ - 1]
             d == w.scheduled \ {s}
  <2>1. f \in [Streams -> Nat] /\ d \in SUBSET Streams
    BY <1>0, <1>1 DEF Workers
  <2>2. w' = [w EXCEPT !.scheduled = d, !.stale = f]
    BY <1>0, <1>1 DEF Workers
  <2> HIDE DEF f, d
  <2>3. /\ w' \in Workers /\ w'.state = w.state /\ w'.owned = w.owned /\ w'.stopped = w.stopped /\ w'.alive = w.alive
        /\ w'.consuming = w.consuming /\ w'.marketSocket = w.marketSocket /\ w'.tradeSocket = w.tradeSocket
        /\ w'.fresh = w.fresh
    BY <1>0, <2>1, <2>2 DEF Workers
  <2>4. calls["start"] # 0
    BY <1>1 DEF LifecycleInv, Uncalled, WorkerInit
  <2>5. LeaseIsKnown' /\ CheckpointIsOwned'
    BY <1>0, <1>1, <2>3 DEF LeaseIsKnown, CheckpointIsOwned, LifecycleInv
  <2>6. Calm("update")
    BY <1>0, <1>1, <2>3, <2>4, <2>5, AsideKeeps
  <2> QED
    BY <1>0, <1>1, <2>3, <2>6, CalmKeepsInv DEF JobTypeOK, Tasks
<1>2. CASE w.fresh[s] > 0
  <2> DEFINE woken == [w EXCEPT !.scheduled = @ \ {s}, !.fresh[s] = @ - 1]
  <2>1. \/ w.stale[s] > 0 /\ w' = [w EXCEPT !.scheduled = @ \ {s}, !.stale[s] = @ - 1] /\ UNCHANGED pc
        \/ w' = woken /\ UNCHANGED pc
        \/ s = "trade" /\ w' = Connected(woken) /\ UNCHANGED pc
        \/ /\ s = "market" /\ w' = Consuming(woken)
           /\ pc' = IF MayConsume(woken) THEN [pc EXCEPT ![s] = "open"] ELSE pc
    BY DEF TimerFires
  <2> HIDE DEF woken
  <2>2. woken = [w EXCEPT !.scheduled = @ \ {s}, !.fresh[s] = @ - 1]
    BY DEF woken
  <2> QED
    BY <1>0, <1>1, <1>2, <2>1, <2>2, FreshTimerKeeps
<1> QED
  BY <1>0, <1>1, <1>2 DEF TimerFires

(* The trade socket fails: its error is ignored, or it is closed and the stream recovers. *)
LEMMA TradeFailsKeeps ==
  ASSUME TypeOK, LifecycleInv, w.alive, TradeFails, Remember
  PROVE  JobTypeOK' /\ LifecycleInv' /\ OpensNothing
<1>0. /\ LeaseIsKnown /\ CheckpointIsOwned /\ StopIsFinal /\ StopIsDone /\ HaltsResume /\ ConsumerReads /\ TimersWakeIdle
      /\ RecoveryHasNoSocket /\ StreamsAreClean /\ TimersAreClean /\ ReturnsAreClean /\ RecoveryCovers
      /\ w \in Workers /\ db \in Databases /\ Streams = {"market", "trade"} /\ Streams \subseteq Tasks
      /\ "start" \in Tasks /\ "stop" \in Tasks
      /\ resume \in [Tasks -> {"idle", "read", "reading", "returned", "stopSave"}] /\ pc \in [Tasks -> Labels]
  BY DEF LifecycleInv, TypeOK, Tasks, Reconcilers, Streams
<1>1. /\ calls["start"] # 0 /\ pc["start"] = "idle" /\ pc["trade"] = "idle" /\ w.fresh["trade"] = 0
      /\ w.tradeSocket \in {"connecting", "open"} /\ w.fresh["trade"] \in Nat /\ UNCHANGED <<db, calls>>
  BY <1>0 DEF TradeFails, LifecycleInv, StartsFirst, Early, TimersWakeIdle, RecoveryHasNoSocket, Workers
<1> DEFINE failed == [w EXCEPT !.tradeSocket = "failed"]
           closed == [w EXCEPT !.tradeSocket = "none", !.inFlight = TRUE]
<1>2. /\ failed \in Workers /\ failed.owned = w.owned /\ failed.state = w.state /\ failed.stopped = w.stopped
      /\ failed.consuming = w.consuming /\ failed.marketSocket = w.marketSocket /\ failed.tradeSocket = "failed"
      /\ failed.fresh = w.fresh /\ failed.alive = w.alive
  BY <1>0 DEF Workers
<1>3. /\ closed \in Workers /\ closed.owned = w.owned /\ closed.state = w.state /\ closed.stopped = w.stopped
      /\ closed.consuming = w.consuming /\ closed.marketSocket = w.marketSocket /\ closed.tradeSocket = "none"
      /\ closed.fresh = w.fresh /\ closed.alive = w.alive
  BY <1>0 DEF Workers
<1>4. \/ w' = failed /\ UNCHANGED <<pc, resume>>
      \/ w' = closed /\ Moves("trade", "degraded")
      \/ w' = Dead /\ UNCHANGED <<pc, resume>>
  BY DEF TradeFails, Goto, Moves
<1> HIDE DEF failed, closed
<1>5. JobTypeOK'
  BY <1>0, <1>1, <1>2, <1>3, <1>4, EndParts DEF JobTypeOK, Moves, Labels
<1>6. ASSUME w'.alive PROVE LifecycleInv' /\ OpensNothing
  <2>1. /\ w' \in Workers /\ w'.owned = w.owned /\ w'.state = w.state /\ w'.stopped = w.stopped
        /\ w'.consuming = w.consuming /\ w'.marketSocket = w.marketSocket /\ w'.tradeSocket \in {"none", "failed"}
        /\ w'.fresh = w.fresh
    BY <1>2, <1>3, <1>4, <1>6, EndParts
  <2>2. /\ resume' = resume /\ \A t \in Tasks \ {"trade"} : pc'[t] = pc[t]
        /\ pc'["trade"] \in {"idle", "degraded"} /\ (w'.tradeSocket = "failed" => pc'["trade"] = "idle")
    BY <1>0, <1>1, <1>2, <1>3, <1>4, <1>6, EndParts DEF Moves
  <2>3. Failed = {"trade"}
    BY <1>0, <1>1, <2>1 DEF Failed
  <2>4. \A t \in Tasks : ~Completes(t)
    BY <2>2 DEF Completes
  <2>5. dirty' = dirty \cup {"trade"}
    BY <2>3, <2>4 DEF Remember
  <2>6. ~Early' /\ pc'["market"] = pc["market"] /\ pc'["start"] = "idle" /\ pc'["stop"] = pc["stop"]
    BY <1>0, <1>1, <2>2 DEF Early
  <2>7. \A t \in Tasks : InHalt(t)' <=> InHalt(t)
    BY <1>1, <2>2 DEF InHalt
  <2>8. HaltsResume' /\ ConsumerReads'
    BY <1>0, <2>1, <2>2, <2>6, <2>7 DEF HaltsResume, ConsumerReads, ReadsMarket
  <2>9. TimersWakeIdle' /\ RecoveryHasNoSocket'
    BY <1>0, <1>1, <2>1, <2>2, <2>6 DEF TimersWakeIdle, RecoveryHasNoSocket
  <2>10. StreamsAreClean' /\ TimersAreClean' /\ ReturnsAreClean'
    BY <1>0, <1>1, <2>1, <2>2, <2>5, <2>6 DEF StreamsAreClean, TimersAreClean, ReturnsAreClean
  <2>11. RecoveryCovers'
    <3> SUFFICES ASSUME NEW s \in Streams, Reconciling(s)' PROVE s \in covers'[s]
      BY DEF RecoveryCovers
    <3>1. s = "market" /\ s \in Tasks
      BY <1>0, <2>2 DEF Reconciling, InHalt
    <3>2. Reconciling("market") /\ (pc'["market"] \in {"row", "equity", "read"} \/ resume'["market"] = "read")
      BY <2>2, <2>6, <3>1 DEF Reconciling, InHalt
    <3> QED
      BY <1>0, <2>3, <2>6, <3>1, <3>2 DEF RecoveryCovers, Remember
  <2>12. Uncalled' /\ StartsFirst' /\ LeaseIsKnown' /\ CheckpointIsOwned' /\ StopIsFinal' /\ StopIsDone'
    BY <1>0, <1>1, <2>1, <2>6 DEF Uncalled, StartsFirst, LeaseIsKnown, CheckpointIsOwned, StopIsFinal, StopIsDone
  <2>13. \A s \in Streams : w'.fresh[s] <= w.fresh[s]
    BY <1>0, <2>1 DEF Workers
  <2>14. OpensNothing
    BY <1>1, <2>1, <2>13 DEF OpensNothing
  <2> QED
    BY <2>8, <2>9, <2>10, <2>11, <2>12, <2>14 DEF LifecycleInv
<1> QED
  BY <1>5, <1>6 DEF LifecycleInv, OpensNothing

----------------------------------------------------------------------------
(* The invariance.                                                          *)

WorkerOK == TypeOK /\ JobTypeOK /\ LifecycleInv

(* Every step of a task keeps the invariant. *)
LEMMA StepKeeps ==
  ASSUME TypeOK, LifecycleInv, w.alive, Remember, NEW t \in Tasks, Step(t)
  PROVE  JobTypeOK' /\ LifecycleInv' /\ OpensNothing
<1>1. ASSUME NEW u \in Tasks, JobTypeOK', w'.alive => Calm(u) PROVE JobTypeOK' /\ LifecycleInv' /\ OpensNothing
  <2>1. CASE w'.alive
    BY <1>1, <2>1, CalmKeepsInv
  <2>2. CASE ~w'.alive
    BY <1>1, <2>2 DEF LifecycleInv, OpensNothing
  <2> QED
    BY <2>1, <2>2
<1>2. CASE t = "start" /\ (Create \/ Acquire \/ Refused \/ ReadCheckpoint \/ Gaps \/ Confirm)
  BY <1>1, <1>2, StartingKeeps
<1>3. CASE t = "start" /\ Connect
  BY <1>3, ConnectKeeps
<1>4. CASE t \in Reconcilers \cup {"start"} /\ (Row(t) \/ Equity(t) \/ Read(t) \/ Save(t) \/ Ready(t))
  BY <1>1, <1>4, ReconcilingKeeps
<1>5. CASE t \in Streams /\ Degraded(t)
  BY <1>1, <1>5, DegradedKeeps
<1>6. CASE t = "market" /\ (Open \/ Bar)
  BY <1>1, <1>6, ConsumerKeeps
<1>7. CASE t = "update" /\ ProjectUpdate
  BY <1>1, <1>7, UpdateKeeps
<1>8. CASE t = "stop" /\ (StopRow \/ StopSave)
  BY <1>1, <1>8, StopKeeps
<1>9. CASE HaltRow(t) \/ HaltSave(t)
  BY <1>1, <1>9, HaltKeeps
<1> QED
  BY <1>2, <1>3, <1>4, <1>5, <1>6, <1>7, <1>8, <1>9 DEF Step

(* So does every step. *)
LEMMA NextKeeps ==
  ASSUME WorkerOK, Next
  PROVE  JobTypeOK' /\ LifecycleInv' /\ OpensNothing
<1>0. TypeOK /\ LifecycleInv /\ w.alive /\ Remember
  BY DEF WorkerOK, Next
<1>1. ASSUME NEW u \in Tasks, JobTypeOK', w'.alive => Calm(u) PROVE JobTypeOK' /\ LifecycleInv' /\ OpensNothing
  <2>1. CASE w'.alive
    BY <1>0, <1>1, <2>1, CalmKeepsInv
  <2>2. CASE ~w'.alive
    BY <1>1, <2>2 DEF LifecycleInv, OpensNothing
  <2> QED
    BY <2>1, <2>2
<1>2. "operator" \in Tasks /\ "stop" \in Tasks /\ "market" \in Tasks /\ "update" \in Tasks
  BY DEF Tasks, Reconcilers, Streams
<1>3. CASE \E t \in Tasks : Step(t)
  BY <1>0, <1>3, StepKeeps
<1>4. CASE Start
  BY <1>0, <1>4, StartKeeps
<1>5. CASE Operator
  BY <1>0, <1>1, <1>2, <1>5, OperatorKeeps
<1>6. CASE Stop
  BY <1>0, <1>1, <1>2, <1>6, StopKeeps
<1>7. CASE BarArrives \/ MarketFails
  BY <1>0, <1>1, <1>2, <1>7, ConsumerKeeps
<1>8. CASE TradeReady
  BY <1>0, <1>8, TradeReadyKeeps
<1>9. CASE TradeUpdate
  BY <1>0, <1>1, <1>2, <1>9, UpdateKeeps
<1>10. CASE TradeFails
  BY <1>0, <1>10, TradeFailsKeeps
<1>11. CASE \E s \in Streams : TimerFires(s)
  BY <1>0, <1>11, TimerKeeps
<1>12. CASE RenewalFires \/ LeaseExpires \/ \E f \in w.floating : FloatingLands(f)
  BY <1>0, <1>1, <1>2, <1>12, BesideKeeps
<1>13. CASE Takeover
  BY <1>0, <1>13, TakeoverKeeps
<1> QED
  BY <1>3, <1>4, <1>5, <1>6, <1>7, <1>8, <1>9, <1>10, <1>11, <1>12, <1>13 DEF Next, Local

(* The counters of the calls only grow. *)
LEMMA CallsGrow ==
  ASSUME TypeOK, Next
  PROVE  calls' \in [{"start", "stop", "operator", "update"} -> Nat]
<1> DEFINE Kinds == {"start", "stop", "operator", "update"}
<1>1. calls' = calls \/ \E c \in Kinds : calls' = [calls EXCEPT ![c] = @ + 1]
  <2>1. ASSUME NEW t \in Tasks, Step(t) PROVE calls' = calls
    <3>1. CASE Create \/ Acquire \/ Refused \/ ReadCheckpoint \/ Gaps \/ Confirm \/ Connect
      BY <3>1 DEF Create, Acquire, Refused, ReadCheckpoint, Gaps, Confirm, Connect
    <3>2. CASE Row(t) \/ Equity(t) \/ Read(t) \/ Save(t) \/ Ready(t)
      BY <3>2 DEF Row, Equity, Read, Save, Ready
    <3>3. CASE Degraded(t) \/ Open \/ Bar \/ ProjectUpdate \/ StopRow \/ StopSave
      BY <3>3 DEF Degraded, Open, Bar, ProjectUpdate, StopRow, StopSave
    <3>4. CASE HaltRow(t) \/ HaltSave(t)
      BY <3>4 DEF HaltRow, HaltSave
    <3> QED
      BY <2>1, <3>1, <3>2, <3>3, <3>4 DEF Step
  <2>2. CASE Start
    <3>1. calls' = [calls EXCEPT !["start"] = calls["start"] + 1]
      BY <2>2 DEF Start
    <3> QED
      BY <3>1
  <2>3. CASE Operator \/ Stop \/ TradeUpdate
    BY <2>3 DEF Operator, Stop, TradeUpdate, Called
  <2>4. CASE BarArrives \/ MarketFails \/ TradeReady \/ TradeFails
    BY <2>4 DEF BarArrives, MarketFails, TradeReady, TradeFails
  <2>5. CASE \/ \E s \in Streams : TimerFires(s)
             \/ RenewalFires \/ LeaseExpires \/ Takeover
             \/ \E f \in w.floating : FloatingLands(f)
    BY <2>5 DEF TimerFires, RenewalFires, LeaseExpires, Takeover, FloatingLands
  <2> QED
    BY <2>1, <2>2, <2>3, <2>4, <2>5 DEF Next, Local
<1> QED
  BY <1>1 DEF TypeOK

(* The invariant holds in every state, and a stopped worker opens nothing in any step. *)
LEMMA WorkerKeeps ==
  ASSUME WorkerOK, [Next]_vars
  PROVE  WorkerOK' /\ (OpensNothing \/ UNCHANGED vars)
<1>1. CASE Next
  <2>1. JobTypeOK' /\ LifecycleInv' /\ OpensNothing
    BY <1>1, NextKeeps
  <2>2. calls' \in [{"start", "stop", "operator", "update"} -> Nat]
    BY <1>1, CallsGrow DEF WorkerOK
  <2>3. dirty' \in SUBSET Streams /\ covers' \in [Tasks -> SUBSET Streams]
    <3>1. Failed \in SUBSET Streams
      BY DEF Failed
    <3> QED
      BY <1>1, <3>1 DEF Next, Remember, WorkerOK, TypeOK
  <2> QED
    BY <2>1, <2>2, <2>3 DEF WorkerOK, JobTypeOK, TypeOK
<1>2. CASE UNCHANGED vars
  <2>1. UNCHANGED <<w, db, pc, resume, dirty, covers, calls>>
    BY <1>2 DEF vars
  <2>2. JobTypeOK' /\ TypeOK'
    BY <2>1 DEF WorkerOK, JobTypeOK, TypeOK
  <2>3. LifecycleInv'
    BY <2>1 DEF WorkerOK, LifecycleInv, Uncalled, StartsFirst, Early, LeaseIsKnown, CheckpointIsOwned, StopIsFinal,
       StopIsDone, HaltsResume, ConsumerReads, ReadsMarket, TimersWakeIdle, RecoveryHasNoSocket, StreamsAreClean,
       TimersAreClean, ReturnsAreClean, RecoveryCovers, Reconciling, InHalt
  <2> QED
    BY <1>2, <2>2, <2>3 DEF WorkerOK
<1> QED
  BY <1>1, <1>2

(* An object that was never started satisfies it. *)
LEMMA WorkerStarts == Init => WorkerOK
<1> SUFFICES ASSUME Init PROVE WorkerOK
  OBVIOUS
<1>1. /\ w = WorkerInit /\ db.lease # "mine" /\ db \in Databases /\ dirty = {}
      /\ pc = [t \in Tasks |-> "idle"] /\ resume = [t \in Tasks |-> "idle"]
      /\ covers = [t \in Tasks |-> {}] /\ calls = [c \in {"start", "stop", "operator", "update"} |-> 0]
  BY DEF Init, Databases
<1>2. TypeOK /\ JobTypeOK
  BY <1>1, EndParts DEF TypeOK, JobTypeOK, Labels, WorkerInit
<1>3. /\ w.state = "STOPPED" /\ ~w.owned /\ ~w.stopped /\ ~w.consuming /\ w.alive
      /\ w.marketSocket = "none" /\ w.tradeSocket = "none" /\ \A s \in Streams : w.fresh[s] = 0
  BY <1>1 DEF WorkerInit
<1>4. \A t \in Tasks : pc[t] = "idle" /\ resume[t] = "idle" /\ ~InHalt(t) /\ ~Reconciling(t)
  BY <1>1 DEF InHalt, Reconciling
<1>5. calls["start"] = 0 /\ calls["stop"] = 0
  BY <1>1
<1>6. "market" \in Streams /\ "trade" \in Streams /\ Streams \subseteq Tasks /\ "start" \in Tasks /\ "stop" \in Tasks
  BY DEF Streams, Tasks, Reconcilers
<1>7. Uncalled /\ StartsFirst /\ LeaseIsKnown /\ CheckpointIsOwned /\ StopIsFinal /\ StopIsDone
  BY <1>1, <1>3, <1>4, <1>5, <1>6 DEF Uncalled, StartsFirst, LeaseIsKnown, CheckpointIsOwned, StopIsFinal, StopIsDone
<1>8. HaltsResume /\ ConsumerReads /\ TimersWakeIdle /\ RecoveryHasNoSocket
  BY <1>3, <1>4, <1>6 DEF HaltsResume, ConsumerReads, ReadsMarket, TimersWakeIdle, RecoveryHasNoSocket
<1>9. StreamsAreClean /\ TimersAreClean /\ ReturnsAreClean /\ RecoveryCovers
  BY <1>3, <1>4, <1>6 DEF StreamsAreClean, TimersAreClean, ReturnsAreClean, RecoveryCovers
<1> QED
  BY <1>2, <1>7, <1>8, <1>9 DEF WorkerOK, LifecycleInv

(* The inductive invariant of the worker: start() is alone with stop() until its streams are     *)
(* connected, the consumer is one task, timers sleep only for idle streams without a socket, and *)
(* what reads a stream or will read it follows a reconciliation that covers its last failure.    *)
THEOREM LifecycleInvariance == Spec => []WorkerOK
<1>1. WorkerOK /\ [Next]_vars => WorkerOK'
  BY WorkerKeeps
<1> QED
  BY <1>1, WorkerStarts, PTL DEF Spec

(* The variables of the worker keep their ranges, for every set of calls and every bound on them. *)
THEOREM LifecycleTypes == Spec => []TypeOK
<1>1. WorkerOK => TypeOK
  BY DEF WorkerOK
<1> QED
  BY <1>1, LifecycleInvariance, PTL

(* A socket is opened to replace one that failed only after a reconciliation that began after *)
(* the failure and was completed.                                                             *)
THEOREM ReplacementsAreReconciled == Spec => []ReplacementIsReconciled
<1>1. WorkerOK => ReplacementIsReconciled
  BY DEF WorkerOK, ReplacementIsReconciled, LifecycleInv, StreamsAreClean, ConsumerReads
<1> QED
  BY <1>1, LifecycleInvariance, PTL

(* One consumer reads the market, and only while it does is its socket open. *)
THEOREM ConsumerIsAlone == Spec => []OneConsumer
<1>1. ASSUME WorkerOK PROVE OneConsumer
  <2> SUFFICES ASSUME w.marketSocket = "open"
               PROVE  w.consuming /\ (pc["market"] \in {"reading", "bar"} \/ resume["market"] = "reading")
    BY DEF OneConsumer
  <2>1. ConsumerReads
    BY <1>1 DEF WorkerOK, JobTypeOK, LifecycleInv
  <2> QED
    BY <2>1 DEF ConsumerReads, ReadsMarket
<1> QED
  BY <1>1, LifecycleInvariance, PTL

(* When stop() and start() have returned and the worker says STOPPED, it holds no lease. *)
THEOREM StopGivesLeaseUp == Spec => []StopFreesLease
<1>1. WorkerOK => StopFreesLease
  BY DEF WorkerOK, LifecycleInv, StopIsDone, StopFreesLease
<1> QED
  BY <1>1, LifecycleInvariance, PTL

(* After stop() or the loss of the lease no reconnect is scheduled and no trade socket or consumer *)
(* begins, whatever is still under way.                                                            *)
THEOREM StoppedStaysQuiet == Spec => StoppedOpensNothing
<1>1. ASSUME WorkerOK, [Next]_vars
      PROVE  [w.stopped /\ w'.stopped /\ w'.alive =>
                /\ w'.tradeSocket # "none" => w.tradeSocket # "none"
                /\ w'.consuming => w.consuming
                /\ \A s \in Streams : w'.fresh[s] <= w.fresh[s]]_vars
  BY <1>1, WorkerKeeps DEF OpensNothing
<1> QED
  BY <1>1, LifecycleInvariance, PTL DEF Spec, StoppedOpensNothing
=============================================================================
