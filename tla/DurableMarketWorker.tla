------------------------ MODULE DurableMarketWorker ------------------------
(***************************************************************************)
(* The read-only BTC/USD evidence worker (durable-market-worker.server.ts),*)
(* its owned writes (writeMarketEvidenceOwned of the SQL store), the REST  *)
(* history it qualifies itself with (alpaca-crypto-historical.server.ts)   *)
(* and the observer's verdict on it (btc-observe.ts).                      *)
(*                                                                         *)
(* Time is counted in minutes; a bar is its minute and a value.  REST says *)
(* "a" for every minute it returns and never takes a minute back; the live *)
(* stream may say "b" instead, at the Contested minutes.  Every await of an operation is a step of   *)
(* its own; the worker runs its operations one at a time (enqueue), so a   *)
(* run has one program counter, and the queue's order is any order.        *)
(***************************************************************************)
EXTENDS Integers, FiniteSets, FiniteSetsExt

CONSTANTS
  NRuns,      \* worker processes started, one after the other; earlier ones may live on
  MaxMinute,  \* the clock stops here
  Window,     \* RECOVERY_WINDOW_MS in minutes
  MinSuffix,  \* MIN_BOOTSTRAP_VERIFIED_MINUTES
  Chunk,      \* bars per owned write of a backfill (32)
  Sparse,     \* the minutes REST may not have yet
  Contested   \* the minutes for which the live stream may say something else than REST

ASSUME Bounds == {NRuns, MaxMinute, Window, MinSuffix, Chunk} \subseteq Nat \ {0} /\ Window <= MaxMinute

VARIABLES
  clock,     \* the last completed minute
  bars,      \* closed_bars: minute -> value
  disputed,  \* minutes with a CONFLICT row in market_bar_observations
  cp,        \* runtime_checkpoint of the worker key
  lease,     \* worker_leases: the last owner, and whether its lease is live
  row,       \* run -> worker_runs.state
  w,         \* run -> the DurableMarketWorker object of that process
  served     \* Sparse minutes REST has returned so far

vars == <<clock, bars, disputed, cp, lease, row, w, served>>

Runs == 1..NRuns
Nil == -1
Minutes == 0..MaxMinute
Ended == {"STOPPED", "HALTED", "SUPERSEDED"}

EmptyEvidence == [cont |-> "UNVERIFIED", lo |-> Nil, hi |-> Nil, kind |-> "NONE", reason |-> "ANY"]
NoJob == [lo |-> Nil, hi |-> Nil, need |-> {}, range |-> {}, got |-> {}, left |-> {}]
NoBar == [t |-> Nil, v |-> "a"]
NewWorker ==
  [pc |-> "new", state |-> "STOPPED", stopped |-> FALSE, ending |-> FALSE, held |-> FALSE, src |-> "IDLE", ev |-> EmptyEvidence,
   latest |-> Nil, why |-> "ANY", job |-> NoJob, bar |-> NoBar, todo |-> {}]

Init ==
  /\ clock = Window - 1
  /\ bars = [m \in {} |-> "a"]
  /\ disputed = {}
  /\ cp = [run |-> 0, ev |-> EmptyEvidence, latest |-> Nil, why |-> "ANY"]
  /\ lease = [run |-> 0, live |-> FALSE]
  /\ row = [r \in Runs |-> "NONE"]
  /\ w = [r \in Runs |-> NewWorker]
  /\ served = {}

----------------------------------------------------------------------------
(* Local code of the worker object, as functions of it.                     *)

Active(x) == ~x.stopped /\ x.state \in {"READY", "STARTING"}
Closed(x) == [x EXCEPT !.src = "CLOSED"]
Idle(x) == [x EXCEPT !.pc = "idle", !.job = NoJob, !.bar = NoBar]
Go(x, pc) == [x EXCEPT !.pc = pc]

\* halt(): its two statements run at once, in either order, and then the release.
Quit(x, why) ==
  [Closed(Idle(x)) EXCEPT !.state = "HALTED", !.why = why, !.pc = "halting",
                          !.todo = {"row"} \cup (IF x.held THEN {"save"} ELSE {})]

\* What nobody reads any more of a halted worker is forgotten.
Spent(x) == [NewWorker EXCEPT !.pc = x.pc, !.state = x.state, !.stopped = x.stopped, !.ending = x.ending, !.held = x.held, !.src = x.src, !.todo = x.todo]
\* Mutant: a stop() that ended in a halt is queued again.
FreedForStop(x) == [Spent(x) EXCEPT !.pc = "idle", !.held = FALSE, !.ending = FALSE]
\* The release is over, done or failed: a halted worker waits for the stop() of its script.
Freed(x) == IF x.ending THEN Go(NewWorker, "done") ELSE [Spent(x) EXCEPT !.pc = "idle", !.held = FALSE]

\* Mutant: the minute that is still running counts as completed.
MinuteInProgress == clock + 1
\* Mutant: the newest completed minute is left to the stream.
MinuteBefore == clock - 1
\* end = Math.floor(now / 60_000) * 60_000 - 60_000
LastCompleted == clock

HasHole(from) == \E m \in DOMAIN bars : m > from /\ m - 1 \notin DOMAIN bars /\ \E k \in DOMAIN bars : from <= k /\ k < m
Marked(x) == [x EXCEPT !.ev.cont = "GAP"]
Distrusted(x) == [x EXCEPT !.why = "BAR_CONFLICT", !.ev.cont = "GAP", !.ev.lo = Nil, !.ev.hi = Nil]

\* The first maximal run of minutes in S: the next HistoricalInterval to request.
FirstRange(S) == {m \in S : Min(S)..m \subseteq S}
\* The newest contiguous suffix of what REST returned (analyzeBootstrapCoverage).
Suffix(S) == {m \in S : m..Max(S) \subseteq S}
FirstOf(S, n) == {m \in S : Cardinality({k \in S : k < m}) < n}

\* The recovery is over: a live bar that waited for it is written, a start goes on.
AfterRecovery(x) == [x EXCEPT !.job = NoJob, !.pc = IF x.bar = NoBar THEN "startSave" ELSE "barWrite"]
NextRange(x) ==
  IF x.job.need = {} THEN Go(x, "final") ELSE [x EXCEPT !.pc = "attempt", !.job.range = FirstRange(x.job.need)]

BeyondHorizon(x, lo, hi) == lo > hi \/ hi - lo + 1 > Window

\* The minutes recoverExactContinuity() requests: all but the stored ones inside the verified bounds.
ToRequest(x, lo, hi) == {m \in lo..hi : ~(m \in DOMAIN bars /\ x.ev.lo # Nil /\ m \in x.ev.lo..x.ev.hi)}

Exact(x, lo, hi) ==
  IF BeyondHorizon(x, lo, hi) THEN Quit(Marked(x), "ANY")
  ELSE NextRange([Marked(x) EXCEPT !.job = [NoJob EXCEPT !.lo = lo, !.hi = hi, !.need = ToRequest(x, lo, hi)]])
Bootstrap(x) ==
  [Marked(x) EXCEPT !.pc = "attempt", !.ev.kind = "BOOTSTRAP", !.ev.reason = "ANY",
                    !.job = [NoJob EXCEPT !.lo = LastCompleted - Window + 1, !.hi = LastCompleted,
                                          !.range = (LastCompleted - Window + 1)..LastCompleted]]
Booting(x) == x.ev.kind = "BOOTSTRAP"

\* A CryptoHistoricalError: the attempt is recorded as failed, then halt().
Failed(x, reason) == [x EXCEPT !.pc = "attemptFailed", !.ev.reason = reason]

----------------------------------------------------------------------------
(* Statements.                                                              *)

Owns(r) == w[r].held /\ lease = [run |-> r, live |-> TRUE]
Cp(r, x) == [run |-> r, ev |-> x.ev, latest |-> x.latest, why |-> x.why]
Becomes(r, x) == w' = [w EXCEPT ![r] = x]
LostOwnership(r) == Becomes(r, Quit(w[r], "ANY"))

\* writeMarketEvidenceOwned() with a checkpoint: fenced, or halt(DURABLE_RUNTIME_OWNERSHIP_LOST).
Save(r, x) ==
  /\ IF Owns(r) THEN Becomes(r, x) /\ cp' = Cp(r, x) ELSE LostOwnership(r) /\ UNCHANGED cp
  /\ UNCHANGED <<clock, bars, disputed, lease, row, served>>
Locally(r, x) == Becomes(r, x) /\ UNCHANGED <<clock, bars, disputed, cp, lease, row, served>>
\* renewForRecovery() and the write after it: a stopped worker gives up quietly.  Nothing but stop() can
\* come between the two, and a stop there is one after the write.
Renewed(r, x) == IF Active(w[r]) THEN Save(r, x) ELSE Locally(r, Idle(w[r]))
RowAccepts(r, s) == row[r] = s \/ row[r] \notin Ended
At(r, pc) == w[r].pc = pc

----------------------------------------------------------------------------
(* start()                                                                  *)

Start(r) ==
  /\ At(r, "new") /\ (r > 1 => w[r - 1].pc # "new")
  /\ ~lease.live  \* an operator starts the next process when the last one has gone or hangs
  /\ row' = [row EXCEPT ![r] = "STARTING"]
  /\ Becomes(r, [w[r] EXCEPT !.pc = "acquire", !.state = "STARTING"])
  /\ UNCHANGED <<clock, bars, disputed, cp, lease, served>>

Acquire(r) ==
  /\ At(r, "acquire")
  /\ IF lease.live
     THEN Becomes(r, Quit(w[r], "ANY")) /\ UNCHANGED <<lease, row>>
     ELSE /\ lease' = [run |-> r, live |-> TRUE]
          /\ row' = [s \in Runs |-> IF s # r /\ row[s] \notin Ended \cup {"NONE"} THEN "SUPERSEDED" ELSE row[s]]
          /\ Becomes(r, [w[r] EXCEPT !.pc = "read", !.held = TRUE])
  /\ UNCHANGED <<clock, bars, disputed, cp, served>>

PriorConflict(c) == c.why = "BAR_CONFLICT" \/ c.ev.reason = "CONFLICT"

\* Reading checkpoint and bars: only a successor could write between the reads, and then the fence ends this run.
ReadBack(r) ==
  LET latest == IF bars = << >> THEN Nil ELSE Max(DOMAIN bars)
      floor == LastCompleted - Window + 1
      ev == IF PriorConflict(cp) THEN [cp.ev EXCEPT !.lo = Nil, !.hi = Nil, !.cont = "GAP"] ELSE cp.ev
      read == [w[r] EXCEPT !.latest = latest,
                 !.ev = IF HasHole(latest - Window + 1) THEN [ev EXCEPT !.cont = "GAP"] ELSE ev]
      first == IF ev.lo # Nil THEN ev.lo
               ELSE Min({m \in DOMAIN bars : m > latest - Window} \cup {IF bars = << >> THEN floor ELSE latest})
  IN /\ At(r, "read")
     /\ Locally(r, IF PriorConflict(cp) \/ ev.lo # Nil \/ ev.kind = "EXACT"
                   THEN Exact(read, Max({floor, first}), LastCompleted)
                   ELSE Bootstrap(read))

StartSave(r) ==
  /\ At(r, "startSave")
  /\ Save(r, [Idle(w[r]) EXCEPT !.src = IF w[r].stopped THEN "CLOSED" ELSE "CONNECTING"])

----------------------------------------------------------------------------
(* qualifyBootstrap() and recoverExactContinuity()                          *)

\* The attempt row and its BACKFILLING checkpoint; a range of an exact recovery renews the lease first.
Attempt(r) ==
  /\ At(r, "attempt")
  /\ IF w[r].job.need = {} THEN Save(r, Go(w[r], "fetch"))
     ELSE Renewed(r, [w[r] EXCEPT !.pc = "fetch", !.ev.kind = "EXACT", !.ev.reason = "ANY"])

\* fetchCompletedBars(): pages, retries and timeouts end in bars or in an error.
Fetch(r) ==
  /\ At(r, "fetch")
  /\ \/ \E S \in SUBSET w[r].job.range :
          /\ w[r].job.range \ (Sparse \ served) \subseteq S
          /\ served' = served \cup (S \cap Sparse)
          /\ Becomes(r, IF Booting(w[r]) \/ S = w[r].job.range
                        THEN [w[r] EXCEPT !.pc = IF S = {} THEN "stored" ELSE "chunk", !.job.got = S, !.job.left = S]
                        ELSE Failed(w[r], "ANY"))
     \/ \E reason \in {"CONFLICT", "ANY"} : Becomes(r, Failed(w[r], reason)) /\ UNCHANGED served
  /\ UNCHANGED <<clock, bars, disputed, cp, lease, row>>

\* recordMarketBar() for each bar of the chunk, and the checkpoint, in one fenced transaction.
ChunkWrite(r) ==
  LET chunk == FirstOf(w[r].job.left, Chunk)
      clash == {m \in chunk \cap DOMAIN bars : bars[m] # "a"}
      rest == [w[r] EXCEPT !.job.left = @ \ chunk]
  IN /\ At(r, "chunk")
     /\ IF Active(w[r]) /\ Owns(r)
        THEN /\ bars' = [m \in DOMAIN bars \cup chunk |-> IF m \in DOMAIN bars THEN bars[m] ELSE "a"]
             /\ disputed' = disputed \cup clash
             /\ cp' = Cp(r, w[r])
             /\ Becomes(r, IF clash # {} THEN Failed(rest, "CONFLICT")
                           ELSE Go(rest, IF rest.job.left = {} THEN "stored" ELSE "chunk"))
        ELSE /\ IF Active(w[r]) THEN LostOwnership(r) ELSE Becomes(r, Idle(w[r]))
             /\ UNCHANGED <<bars, disputed, cp>>
     /\ UNCHANGED <<clock, lease, row, served>>

Verified(x, lo, hi) == [x EXCEPT !.ev.cont = "VERIFIED", !.ev.lo = lo, !.ev.hi = hi, !.latest = Max({@, hi})]
IsStored(S) == \A m \in S : m \in DOMAIN bars /\ bars[m] = "a"

\* The stored bars are read again and must be the returned ones; then the range, or the bootstrap with a
\* long enough suffix, is done.
Stored(r) ==
  LET x == w[r]
      suffix == Suffix(x.job.got)
      next == NextRange([x EXCEPT !.job.need = @ \ x.job.range, !.job.range = {}, !.job.got = {}])
  IN /\ At(r, "stored")
     /\ IF ~IsStored(x.job.got) THEN Locally(r, Failed(x, "CONFLICT"))
        ELSE IF ~Booting(x) THEN Save(r, next)
        ELSE IF Cardinality(suffix) < MinSuffix THEN Locally(r, Failed(x, "ANY"))
        ELSE Save(r, AfterRecovery(Verified(x, Min(suffix), Max(suffix))))

\* A CryptoHistoricalError is written down before the halt.
AttemptFailed(r) ==
  /\ At(r, "attemptFailed")
  /\ cp' = IF Owns(r) THEN Cp(r, w[r]) ELSE cp
  /\ LostOwnership(r)
  /\ UNCHANGED <<clock, bars, disputed, lease, row, served>>

\* The whole interval is read once more before the verified bounds move.
Final(r) ==
  LET x == w[r]
      lo == IF x.ev.lo = Nil THEN x.job.lo ELSE x.ev.lo
  IN /\ At(r, "final")
     /\ IF ~(x.job.lo..x.job.hi \subseteq DOMAIN bars) THEN Locally(r, Quit(x, "ANY"))
        ELSE Renewed(r, AfterRecovery(Verified(x, lo, x.job.hi)))

----------------------------------------------------------------------------
(* processClosedBar()                                                       *)

BarArrives(r, t, v) ==
  LET x == [w[r] EXCEPT !.bar = [t |-> t, v |-> v]]
  IN /\ At(r, "idle") /\ Active(w[r]) /\ w[r].state = "READY" /\ w[r].src = "UP"
     /\ t <= clock
     /\ Locally(r, IF x.latest # Nil /\ t > x.latest + 1 THEN Go(Marked(x), "gapSave") ELSE Go(x, "barWrite"))

GapSave(r) ==
  /\ At(r, "gapSave")
  /\ LET after == Exact(w[r], w[r].latest + 1, w[r].bar.t - 1)
     IN IF Owns(r) THEN cp' = Cp(r, w[r]) /\ Becomes(r, IF Active(w[r]) THEN after ELSE Idle(w[r]))
        ELSE LostOwnership(r) /\ UNCHANGED cp
  /\ UNCHANGED <<clock, bars, disputed, lease, row, served>>

\* Mutant: the loss of trust is left to the halt that follows.
ConflictSavedLater(r) == cp
\* checkpointOnConflict: the loss of trust commits with the observation.
OnConflict(r) == Cp(r, Distrusted(w[r]))

BarWrite(r) ==
  LET x == w[r]
      t == x.bar.t
      next == [x EXCEPT !.pc = "barSave", !.latest = Max({@, t}),
                        !.ev.hi = IF x.ev.cont = "VERIFIED" /\ t = @ + 1 THEN t ELSE @]
  IN /\ At(r, "barWrite")
     /\ IF ~Owns(r) THEN LostOwnership(r) /\ UNCHANGED <<bars, disputed, cp>>
        ELSE IF t \in DOMAIN bars /\ bars[t] # x.bar.v
        THEN /\ disputed' = disputed \cup {t}
             /\ cp' = OnConflict(r)
             /\ Becomes(r, Quit(Distrusted(x), "BAR_CONFLICT"))
             /\ UNCHANGED bars
        ELSE /\ bars' = [m \in DOMAIN bars \cup {t} |-> IF m = t THEN x.bar.v ELSE bars[m]]
             /\ Becomes(r, next)
             /\ UNCHANGED <<disputed, cp>>
     /\ UNCHANGED <<clock, lease, row, served>>

BarSave(r) == At(r, "barSave") /\ Save(r, Idle(w[r]))

----------------------------------------------------------------------------
(* heartbeat(), stop(), halt()                                              *)

\* syncStream(): a first acknowledged subscription makes the run READY.
Sync(r) ==
  /\ At(r, "idle") /\ Active(w[r]) /\ w[r].state = "STARTING" /\ w[r].src = "UP"
  /\ IF RowAccepts(r, "READY")
     THEN row' = [row EXCEPT ![r] = "READY"] /\ Becomes(r, [w[r] EXCEPT !.state = "READY"])
     ELSE UNCHANGED row /\ LostOwnership(r)
  /\ UNCHANGED <<clock, bars, disputed, cp, lease, served>>

\* Mutant: the heartbeat does not look at the clock of the subscription.
NeverTimedOut(x) == FALSE
StartupTimedOut(x) == x.state = "STARTING" /\ x.src = "CONNECTING"

Heartbeat(r) ==
  /\ At(r, "idle") /\ Active(w[r])
  /\ w[r].src # "FAILED"
  /\ Save(r, w[r])

\* syncStream() sees FAILED, or consume() catches it; or no subscription came for a minute.
StreamGivenUp(r) ==
  /\ At(r, "idle") /\ Active(w[r])
  /\ w[r].src = "FAILED" \/ StartupTimedOut(w[r])
  /\ Locally(r, Quit(w[r], "ANY"))

\* The synchronous part of stop(), called by a signal or by the monitor of the script.
StopCalled(r) ==
  /\ ~w[r].stopped /\ w[r].pc \notin {"new", "dead"}
  /\ Locally(r, [Closed(w[r]) EXCEPT !.stopped = TRUE])

StopOp(r) ==
  /\ At(r, "idle") /\ w[r].stopped
  /\ LET x == [w[r] EXCEPT !.ending = TRUE]
     IN IF x.state = "HALTED" THEN Locally(r, Go(x, "release"))
        ELSE IF x.state = "STOPPED" THEN Locally(r, Go(x, "done"))
        ELSE IF Owns(r) THEN Save(r, [x EXCEPT !.state = "STOPPED", !.pc = "stopRow"])
        ELSE Locally(r, Quit(x, "ANY"))

StopRow(r) ==
  /\ At(r, "stopRow")
  /\ IF RowAccepts(r, "STOPPED")
     THEN row' = [row EXCEPT ![r] = "STOPPED"] /\ Becomes(r, Go(w[r], "release"))
     ELSE UNCHANGED row /\ LostOwnership(r)
  /\ UNCHANGED <<clock, bars, disputed, cp, lease, served>>

HaltRow(r) ==
  /\ At(r, "halting") /\ "row" \in w[r].todo
  /\ row' = IF RowAccepts(r, "HALTED") THEN [row EXCEPT ![r] = "HALTED"] ELSE row
  /\ Becomes(r, [w[r] EXCEPT !.todo = @ \ {"row"}])
  /\ UNCHANGED <<clock, bars, disputed, cp, lease, served>>

HaltSave(r) ==
  /\ At(r, "halting") /\ "save" \in w[r].todo
  /\ cp' = IF Owns(r) THEN Cp(r, w[r]) ELSE cp
  /\ Becomes(r, [Spent(w[r]) EXCEPT !.todo = @ \ {"save"}])
  /\ UNCHANGED <<clock, bars, disputed, lease, row, served>>

Release(r) ==
  /\ At(r, "release") \/ (At(r, "halting") /\ w[r].todo = {})
  /\ lease' = IF w[r].held /\ lease.run = r THEN [lease EXCEPT !.live = FALSE] ELSE lease
  /\ Becomes(r, Freed(w[r]))
  /\ UNCHANGED <<clock, bars, disputed, cp, row, served>>
----------------------------------------------------------------------------
(* Faults and surroundings.                                                 *)

\* A statement throws: enqueue() halts; halt() itself goes on (allSettled), and a release is not retried.
StorageFails(r) ==
  /\ w[r].pc \notin {"new", "idle", "fetch", "done", "dead"}
  /\ Locally(r, IF At(r, "halting") /\ w[r].todo # {} THEN [w[r] EXCEPT !.todo = {}]
                ELSE IF At(r, "halting") THEN Freed(w[r])
                ELSE Quit([w[r] EXCEPT !.held = @ /\ ~At(r, "release")], "ANY"))

Crash(r) == w[r].pc \notin {"new", "done", "dead"} /\ Locally(r, Go(NewWorker, "dead"))

LeaseExpires == lease.live /\ lease' = [lease EXCEPT !.live = FALSE] /\ UNCHANGED <<clock, bars, disputed, cp, row, w, served>>
Tick == clock < MaxMinute /\ clock' = clock + 1 /\ UNCHANGED <<bars, disputed, cp, lease, row, w, served>>

\* The states of the source the worker looks at: the moves of MarketFeed, which CryptoStream implements.
SourceMoves(r, from, to) == w[r].src = from /\ Locally(r, [w[r] EXCEPT !.src = to])
SourceUp(r) == SourceMoves(r, "CONNECTING", "UP")
SourceDrops(r) == SourceMoves(r, "UP", "CONNECTING")
SourceFails(r) == SourceMoves(r, "CONNECTING", "FAILED") \/ SourceMoves(r, "UP", "FAILED")

Step(r) ==
  \/ Acquire(r) \/ ReadBack(r) \/ StartSave(r)
  \/ Attempt(r) \/ Fetch(r) \/ ChunkWrite(r) \/ Stored(r) \/ AttemptFailed(r) \/ Final(r)
  \/ GapSave(r) \/ BarWrite(r) \/ BarSave(r) \/ StopRow(r) \/ HaltRow(r) \/ HaltSave(r) \/ Release(r)

Next ==
  \/ \E r \in Runs :
       \/ Step(r) \/ Start(r) \/ Sync(r) \/ Heartbeat(r) \/ StreamGivenUp(r) \/ StopCalled(r) \/ StopOp(r)
       \/ \E t \in Minutes : BarArrives(r, t, "a") \/ (t \in Contested /\ BarArrives(r, t, "b"))
       \/ SourceUp(r) \/ SourceDrops(r) \/ SourceFails(r) \/ StorageFails(r) \/ Crash(r)
  \/ LeaseExpires \/ Tick

\* Statements and requests end (query_timeout, the total timeout of the REST client), the heartbeat timer
\* fires, and the script's monitor stops a halted worker.
Fairness ==
  \A r \in Runs :
    /\ WF_vars(Step(r) \/ StorageFails(r))
    /\ WF_vars(StreamGivenUp(r) \/ Sync(r)) /\ WF_vars(StopOp(r))
    /\ WF_vars(w[r].state = "HALTED" /\ StopCalled(r))

Spec == Init /\ [][Next]_vars
FairSpec == Spec /\ Fairness

----------------------------------------------------------------------------
(* Properties.                                                              *)

Evidence ==
  [cont : {"UNVERIFIED", "GAP", "VERIFIED"}, lo : Minutes \cup {Nil}, hi : Minutes \cup {Nil},
   kind : {"NONE", "BOOTSTRAP", "EXACT"}, reason : {"CONFLICT", "ANY"}]
Reasons == {"BAR_CONFLICT", "ANY"}

\* Types, and that nothing but a live lease of a run that asked for it is ever in force.
TypeOK ==
  /\ clock \in Minutes /\ DOMAIN bars \subseteq 0..clock /\ disputed \subseteq DOMAIN bars /\ served \subseteq 0..clock
  /\ cp \in [run : 0..NRuns, ev : Evidence, latest : Minutes \cup {Nil}, why : Reasons]
  /\ lease \in [run : 0..NRuns, live : BOOLEAN] /\ (lease.live => row[lease.run] # "NONE")
  /\ \A r \in Runs : /\ w[r].ev \in Evidence /\ w[r].why \in Reasons /\ w[r].todo \subseteq {"row", "save"}
                      /\ w[r].state \in {"STOPPED", "STARTING", "READY", "HALTED"}
                      /\ w[r].src \in {"IDLE", "CONNECTING", "UP", "FAILED", "CLOSED"}

Claimed == IF cp.ev.cont = "VERIFIED" THEN cp.ev.lo..cp.ev.hi ELSE {}
Trusted == {m \in Claimed : m > cp.ev.hi - Window}

\* Crashes, takeovers and lost leases between any two writes of a recovery keep the promise of the
\* ledger: bars never change, the minutes of the recovery window presented as VERIFIED are stored, and
\* an observation that contradicts a stored bar ends that claim in its own transaction.
Ledger == INSTANCE EvidenceLedger WITH ledger <- bars, trusted <- Trusted, disputed <- disputed, NoBars <- << >>
LedgerSpec == Ledger!Spec

\* The observer's READY of loadBtcObserverSnapshot, as far as the database decides it (the ages of the
\* checkpoint and of the subscription only make it rarer).
HealthReady ==
  /\ lease.live /\ cp.run = lease.run /\ row[lease.run] = "READY"
  /\ bars # << >> /\ cp.latest = Max(DOMAIN bars) /\ cp.ev.cont = "VERIFIED"

\* A bootstrap whose REST history lacked a minute at its end, beside bars an earlier run had stored: halt()
\* had overwritten the reason for which that run distrusted them, so that they were not verified again.
Lagging == cp.ev.kind = "BOOTSTRAP" /\ \E m \in Sparse : m \in cp.ev.lo..(cp.ev.hi + 1)
\* Whoever is shown as READY has verified everything up to the newest stored bar: no restart, late bar or
\* repair leaves the verified range behind the bars the worker goes on from, unless REST lacked a minute.
ReadyReachesLatest == HealthReady /\ ~Lagging => cp.ev.hi = Max(DOMAIN bars)
WorkerInv == TypeOK /\ ReadyReachesLatest

\* start() does not wait for ever: a subscription, a failure, the timeout, stop() or a crash ends it.
StartupEnds == \A r \in Runs : w[r].state = "STARTING" ~> w[r].state # "STARTING"

\* A worker that was told to stop, or halted, gives its lease back and finishes, whatever fails meanwhile.
WorkerEnds == \A r \in Runs : w[r].stopped \/ w[r].state = "HALTED" ~> w[r].pc \in {"done", "dead"}
=============================================================================
