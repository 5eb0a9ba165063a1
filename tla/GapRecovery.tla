----------------------------- MODULE GapRecovery -----------------------------
(***************************************************************************)
(* Market evidence and decisions of the equity worker                       *)
(* (alpaca-worker.server.ts): live bars one after the other (the queue),    *)
(* gaps and their backfill, the decision buckets built from stored bars, and *)
(* which decisions are handed to the broker.                                *)
(*                                                                         *)
(* A bar is its minute and a value: REST says "a", the stream may say "b" at *)
(* the Contested minutes.  Every awaited statement is a step; the rows of    *)
(* market_gap_recovery_attempts, which no worker reads, go with the          *)
(* checkpoint written after them.  A lost lease ends in halt() and is one of *)
(* the ways a step fails; the order path behind dispatch() is PaperDispatch. *)
(***************************************************************************)
EXTENDS Integers, FiniteSets, FiniteSetsExt

CONSTANTS
  Width,      \* minutes of a decision bucket (15 or 1)
  Obs,        \* completed observations the feature gate needs (21)
  MaxAge,     \* EMA_RSI_V1_MAX_LIVE_BAR_AGE_MS in minutes
  MaxLate,    \* bound: minutes a live bar may wait in the stream or the queue
  MaxMinute,  \* the clock stops here
  Session,    \* minutes of the regular sessions, which begin and end with a bucket
  DayStarts,  \* minutes at which a New York day begins
  Contested   \* minutes for which the stream may contradict REST

\* A live bar is late by less than the horizon reaches back: by hours, it would be older than the
\* horizon of an empty store, and its decision would still be made.
ASSUME GapBounds ==
  /\ {Width, Obs, MaxMinute} \subseteq Nat \ {0} /\ {MaxAge, MaxLate} \subseteq Nat /\ Session \subseteq 0..MaxMinute
  /\ MaxLate < (Obs - 1) * Width

VARIABLES
  clock,      \* minutes that are over: 0..clock-1
  bars,       \* closed_bars: minute -> value
  ck,         \* runtime_checkpoint
  decisions,  \* bucket -> [status of its intent, recovery state when it was submitted]
  wk          \* the worker process; ck in it is its checkpoint in memory

vars == <<clock, bars, ck, decisions, wk>>

None == -1
BucketOf(m) == Width * (m \div Width)
Minutes(b) == b..(b + Width - 1)

\* A session is made of whole buckets and does not reach over midnight, and a live bar is late by less than
\* the night that follows it.
ASSUME SessionBounds ==
  /\ DayStarts \subseteq Nat /\ DayStarts \cap Session = {}
  /\ \A m \in Session : Minutes(BucketOf(m)) \subseteq Session
  /\ \A d \in DayStarts, m \in Session : m < d => d - m >= MaxLate

EmptyCheckpoint == [latest |-> None, cont |-> "REBUILDING", rec |-> "HEALTHY", barrier |-> 0]
Down == [pc |-> "down", boot |-> FALSE, ck |-> EmptyCheckpoint, bar |-> None, val |-> "a", seen |-> 0,
         prior |-> None, gap |-> {}, gaps |-> {}, left |-> {}, todo |-> {}]

Init ==
  /\ clock = 0
  /\ bars = [m \in {} |-> "a"]
  /\ ck = EmptyCheckpoint
  /\ decisions = [b \in {} |-> [status |-> "PENDING", rec |-> "NONE"]]
  /\ wk = Down

----------------------------------------------------------------------------
(* Pure parts.                                                              *)

\* isMarketSessionOpen() and newYorkDate().
Regular(m) == m \in Session
SameDay(a, b) == DayStarts \cap (a + 1)..b = {}

RawFrom(latest) == latest - (Obs + 1) * Width
Raw(latest) == {m \in DOMAIN bars : m >= RawFrom(latest)}
Complete(b) == Minutes(b) \subseteq DOMAIN bars

\* Mutant: a bucket with a missing minute is skipped.
TrailingOverGaps(raw) == {b \in {BucketOf(m) : m \in raw} : Regular(b) /\ Minutes(b) \subseteq raw}
\* The buckets left in trailingContinuous: one unbroken run, which an incomplete regular bucket after it
\* (other than the newest, still filling) empties.
Trailing(raw) ==
  LET buckets == {BucketOf(m) : m \in raw}
      whole == {b \in buckets : Regular(b) /\ Minutes(b) \subseteq raw}
      broken == {b \in buckets : Regular(b) /\ b \notin whole /\ b # Max(buckets)}
  IN {b \in whole : /\ \A c \in broken : c < b
                    /\ \A m \in b..Max(whole) : BucketOf(m) \in whole}

\* computeFeatures(...).warmupComplete of the observation b.
Warm(trail, b) == Cardinality({c \in trail : c <= b}) >= Obs

\* A gap is a live bar that skips regular minutes of its own day: expectedLiveGap().
LiveGap(previous, current) ==
  IF previous = None \/ current <= previous + 1 THEN {}
  ELSE {m \in (previous + 1)..(current - 1) : Regular(m) /\ SameDay(previous, current)}

\* Mutant: the scan goes on to the minute after the newest bar.
StartupGapsBeyond(latest) ==
  LET missing == {m \in RawFrom(latest)..(latest + 1) : Regular(m) /\ m \notin DOMAIN bars}
  IN {{k \in missing : \A j \in Min({k, m})..Max({k, m}) : j \in missing} : m \in missing}
\* The runs of missing regular minutes of the feature horizon: recoverStartupFeatureGaps().
StartupGaps(latest) ==
  LET missing == {m \in RawFrom(latest)..latest : Regular(m) /\ m \notin DOMAIN bars}
  IN {{k \in missing : \A j \in Min({k, m})..Max({k, m}) : j \in missing} : m \in missing}

NextBucket(now) == BucketOf(now) + Width
Stale(x) == clock - (x.ck.latest + 1) > MaxAge

\* Mutant: the barrier is kept for the time of the recovery only.
BarrierOfNow(x, now) == [x EXCEPT !.ck.barrier = 0]
Barred(x, now) == [x EXCEPT !.ck.barrier = Max({@, NextBucket(now)})]

\* recoverGap(), up to its first checkpoint.
Detected(x, gap) == [Barred(x, x.seen) EXCEPT !.pc = "saveGap", !.gap = gap, !.ck.rec = "GAP_DETECTED"]
\* enterRebuilding().
Rebuilding(x) == [x EXCEPT !.pc = "saveRebuilding", !.ck.rec = "REBUILDING", !.ck.cont = "REBUILDING"]
Resting(x) == [x EXCEPT !.pc = IF x.boot THEN "gaps" ELSE "idle", !.bar = None, !.val = "a", !.seen = 0, !.prior = None,
                        !.gap = {}, !.left = {}, !.todo = {}]

\* The first half of processCompletedDecisionBars(): continuity, and a failed repair that has warmed up.
Reevaluated(x, b) ==
  LET trail == Trailing(Raw(x.ck.latest))
      warm == trail # {} /\ Warm(trail, Max(trail))
  IN [x EXCEPT !.ck.cont = IF warm THEN "HEALTHY" ELSE "REBUILDING",
               !.ck.rec = IF @ = "REBUILDING" /\ warm THEN "HEALTHY" ELSE @,
               !.todo = {c \in trail : ~x.boot /\ (b # None => c = b) /\ c >= x.ck.barrier}]
Evaluate(x, b) == IF Raw(x.ck.latest) = {} THEN x ELSE Reevaluated(x, b)

----------------------------------------------------------------------------
(* Statements.                                                              *)
At(pc) == wk.pc = pc
Goes(x) == wk' = x /\ UNCHANGED <<clock, bars, ck, decisions>>
\* persistCheckpoint()
Saves(x) == wk' = x /\ ck' = wk.ck /\ UNCHANGED <<clock, bars, decisions>>

\* recordMarketBar(): the first observation of a minute is the one that stays.
Recorded(m, v) == [k \in DOMAIN bars \cup {m} |-> IF k \in DOMAIN bars THEN bars[k] ELSE v]
Clashes(m, v) == m \in DOMAIN bars /\ bars[m] # v

----------------------------------------------------------------------------
(* start(): reconcile (see Reconcile), repair the horizon, READY.            *)
Start == At("down") /\ Goes([Down EXCEPT !.pc = "scan", !.boot = TRUE, !.ck = ck])

Scan ==
  /\ At("scan")
  /\ IF DOMAIN bars = {} THEN Goes([wk EXCEPT !.pc = "ready", !.boot = FALSE])
     ELSE LET latest == Max(DOMAIN bars)
          IN Goes([wk EXCEPT !.pc = "gaps", !.ck.latest = Max({@, latest}), !.gaps = StartupGaps(latest)])

NextGap ==
  /\ At("gaps")
  /\ IF wk.gaps = {} THEN Goes([Evaluate(wk, None) EXCEPT !.pc = "ready", !.boot = FALSE])
     ELSE LET gap == CHOOSE g \in wk.gaps : \A h \in wk.gaps : Min(g) <= Min(h)
          IN Goes(Detected([wk EXCEPT !.gaps = @ \ {gap}, !.seen = clock], gap))
Ready == At("ready") /\ Saves(Resting(wk))

----------------------------------------------------------------------------
(* processRawBarInternal(), for a bar that came live.                       *)
BarArrives(t, v) ==
  /\ At("idle") /\ t < clock /\ clock <= t + 1 + MaxLate
  /\ Goes([wk EXCEPT !.pc = "record", !.bar = t, !.val = v, !.seen = clock])

Record ==
  /\ At("record")
  /\ bars' = Recorded(wk.bar, wk.val)
  /\ wk' = IF Clashes(wk.bar, wk.val) THEN Rebuilding(wk)
           ELSE IF wk.bar \in DOMAIN bars THEN Resting(wk)
           ELSE [wk EXCEPT !.pc = "saveLatest", !.prior = wk.ck.latest, !.ck.latest = Max({@, wk.bar})]
  /\ UNCHANGED <<clock, ck, decisions>>

SaveLatest ==
  /\ At("saveLatest")
  /\ LET gap == LiveGap(wk.prior, wk.bar)
     IN Saves(IF gap # {} THEN Detected(wk, gap)
              ELSE [Evaluate(wk, BucketOf(wk.bar)) EXCEPT !.pc = "decide"])

----------------------------------------------------------------------------
(* recoverGap().                                                            *)
SaveGap == At("saveGap") /\ Saves([wk EXCEPT !.pc = "saveRequest", !.ck.rec = "BACKFILLING"])
SaveRequest == At("saveRequest") /\ Saves([wk EXCEPT !.pc = "fetch"])
\* The provider returns the whole gap, or less, or fails.
Fetch ==
  /\ At("fetch")
  /\ \/ Goes([wk EXCEPT !.pc = "saveVerifying", !.ck.rec = "VERIFYING", !.left = wk.gap])
     \/ Goes(Rebuilding(wk))
SaveVerifying == At("saveVerifying") /\ Saves([wk EXCEPT !.pc = "backfill"])

Backfill ==
  /\ At("backfill") /\ wk.left # {}
  /\ LET m == Min(wk.left)
     IN /\ bars' = Recorded(m, "a")
        /\ wk' = IF Clashes(m, "a") THEN Rebuilding(wk) ELSE [wk EXCEPT !.left = @ \ {m}]
  /\ UNCHANGED <<clock, ck, decisions>>
BackfillDone == At("backfill") /\ wk.left = {} /\ Goes([Evaluate(Barred(wk, clock), None) EXCEPT !.pc = "decide"])

\* After its decisions, if there were any.
Restored ==
  /\ At("decide") /\ wk.todo = {} /\ wk.gap # {}
  /\ Goes([wk EXCEPT !.pc = "saveRestored", !.ck.rec = IF wk.ck.cont = "HEALTHY" THEN "HEALTHY" ELSE "REBUILDING"])
SaveRestored == At("saveRestored") /\ Saves(Resting(wk))
SaveRebuilding == At("saveRebuilding") /\ Saves(Resting(wk))
\* A statement or the request throws inside the try block.
RecoveryFails ==
  /\ wk.gap # {} /\ wk.pc \notin {"saveGap", "saveRebuilding"}
  /\ Goes(Rebuilding(wk))

----------------------------------------------------------------------------
(* The decision loop of processCompletedDecisionBars().                     *)

\* dispatchBlockReasonFor() is null; reconciliation is complete and the lease held whenever bars are read.
Eligible(b) ==
  /\ Regular(b) /\ wk.ck.rec = "HEALTHY" /\ wk.ck.cont = "HEALTHY"
  /\ Warm(Trailing(Raw(wk.ck.latest)), b) /\ ~Stale(wk)

Decide ==
  /\ At("decide") /\ wk.todo # {}
  /\ LET b == Min(wk.todo)
         pending == Eligible(b)
     IN IF b \in DOMAIN decisions THEN Goes([wk EXCEPT !.todo = @ \ {b}])
        ELSE /\ decisions' = [c \in DOMAIN decisions \cup {b} |->
                                IF c = b THEN [status |-> IF pending THEN "PENDING" ELSE "CANCELLED", rec |-> "NONE"] ELSE decisions[c]]
             /\ wk' = [wk EXCEPT !.pc = IF pending THEN "dispatch" ELSE "saveDecision"]
             /\ UNCHANGED <<clock, bars, ck>>
DecideDone == At("decide") /\ wk.todo = {} /\ wk.gap = {} /\ Goes(Resting(wk))
SaveDecision == At("saveDecision") /\ Saves([wk EXCEPT !.pc = "decide", !.todo = @ \ {Min(@)}])

\* dispatch(): a stale newest bar cancels, an open order leaves the intent PENDING.
Dispatch(b, x) ==
  /\ \/ Stale(wk) /\ decisions' = [decisions EXCEPT ![b].status = "CANCELLED"]
     \/ ~Stale(wk) /\ UNCHANGED decisions
     \/ ~Stale(wk) /\ decisions' = [decisions EXCEPT ![b] = [status |-> "SUBMITTED", rec |-> wk.ck.rec]]
  /\ wk' = x /\ UNCHANGED <<clock, bars, ck>>
DispatchDecision ==
  LET b == Min(wk.todo) IN
  /\ At("dispatch")
  /\ IF decisions[b].status = "PENDING" THEN Dispatch(b, [wk EXCEPT !.pc = "saveDecision"])
     ELSE Goes([wk EXCEPT !.pc = "saveDecision"])
\* reconcileInternal(), at the start and after a stream failed, takes up what is PENDING.
Reconcile == \E b \in DOMAIN decisions : ~At("down") /\ decisions[b].status = "PENDING" /\ Dispatch(b, wk)

----------------------------------------------------------------------------
Tick == clock < MaxMinute /\ clock' = clock + 1 /\ UNCHANGED <<bars, ck, decisions, wk>>
\* halt() writes the checkpoint in memory if it still may; a crash does not.
Halt == ~At("down") /\ Saves(Down)
Crash == ~At("down") /\ Goes(Down)

Work ==
  \/ Scan \/ NextGap \/ Ready \/ Record \/ SaveLatest
  \/ SaveGap \/ SaveRequest \/ Fetch \/ SaveVerifying \/ Backfill \/ BackfillDone \/ Restored \/ SaveRestored \/ SaveRebuilding
  \/ Decide \/ DecideDone \/ SaveDecision \/ DispatchDecision
Next ==
  \/ Work \/ Start \/ RecoveryFails \/ Reconcile \/ Tick \/ Halt \/ Crash
  \/ \E t \in 0..MaxMinute : BarArrives(t, "a") \/ (t \in Contested /\ BarArrives(t, "b"))

Spec == Init /\ [][Next]_vars

----------------------------------------------------------------------------
Recoveries == {"HEALTHY", "GAP_DETECTED", "BACKFILLING", "VERIFYING", "REBUILDING"}
TypeOK ==
  /\ clock \in 0..MaxMinute /\ DOMAIN bars \subseteq 0..(clock - 1)
  /\ \A c \in {ck, wk.ck} : c.latest < clock /\ c.cont \in {"HEALTHY", "REBUILDING"} /\ c.rec \in Recoveries /\ c.barrier \in Nat
  /\ \A b \in DOMAIN decisions : decisions[b].status \in {"PENDING", "CANCELLED", "SUBMITTED"}

Dispatchable(b) == b \in DOMAIN decisions /\ decisions[b].status # "CANCELLED"

\* No decision that may reach the broker bridges a gap: every minute of the observations behind it was
\* stored, in one session, whatever was lost, repaired or restarted before.
WindowIsWhole ==
  \A b \in DOMAIN decisions : Dispatchable(b) =>
    \A m \in (b - (Obs - 1) * Width)..(b + Width - 1) : m \in DOMAIN bars /\ Regular(m)
RecoveryInv == TypeOK /\ WindowIsWhole

\* A decision that may reach the broker is about the newest bucket that is complete: neither a late bar, nor a
\* backfill, nor a restart turns history into an order.
NeverRetroactive ==
  [][\A b \in DOMAIN decisions' \ DOMAIN decisions :
       decisions'[b].status = "PENDING" => 
         \A c \in {BucketOf(m) : m \in DOMAIN bars} : c > b => ~(Complete(c) /\ Regular(c)) /\ c \notin DOMAIN decisions]_vars

\* "dispatch remains blocked until feature warmup completes", and no longer: a warmed up worker that waits
\* for bars is not kept from dispatching by its recovery.  A crash between the backfill and its last
\* checkpoint refutes it: the restart finds no gap and keeps VERIFYING.
WarmupUnblocks == At("idle") /\ wk.ck.cont = "HEALTHY" => wk.ck.rec = "HEALTHY"

\* "Market-data gaps [...] must be recovered and verified before dispatch resumes."  A PENDING intent that
\* reconcile() takes up after a gap refutes it.
SubmittedWhenHealthy == \A b \in DOMAIN decisions : decisions[b].status = "SUBMITTED" => decisions[b].rec = "HEALTHY"
=============================================================================
