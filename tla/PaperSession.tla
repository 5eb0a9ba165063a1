----------------------------- MODULE PaperSession -----------------------------
(***************************************************************************)
(* The research over a PAPER session: what the worker stored of its bars    *)
(* and ema_rsi_v1 decisions (alpaca-worker.server.ts), the frozen export of *)
(* an interval (paper-session-store.ts), the replay that must agree with    *)
(* the live decisions, and the comparison of V1 with V2 (paper-session.ts,  *)
(* ema-rsi-v1.ts, ema-rsi-v2.ts).                                           *)
(*                                                                         *)
(* The indicators are abstracted to a class per minute, of the bars that    *)
(* end there; minutes are consecutive regular ones.                         *)
(***************************************************************************)
EXTENDS Naturals, Sequences, FiniteSets

CONSTANTS
  MaxMinute,  \* bound: minutes of the market
  MaxTrouble, \* bound: missed bars, crashes and drawdowns
  FeatureBars, \* completed bars the features need (21)
  Width       \* the longest window a decision sees (23)

VARIABLES
  market,     \* minute -> class of its bar
  at,         \* minute -> when its row was stored (received_at), or Never
  decisions,  \* the rows of decisions, in the order of their bars
  saved,      \* priorRiskApprovedTarget of the checkpoint row
  runId

vars == <<market, at, decisions, saved, runId>>

(* "strong": spread up by entryStrength with RSI over its entry level;
   "weak": V1 enters, V2 does not; "dip": the averages crossed but not by exitStrength;
   "down": both leave; "neutral": neither level is met. *)
Classes == {"strong", "weak", "neutral", "dip", "down"}
Never == 0
now == Len(market)
\* A bar that is live is stored and decided upon in its minute, a backfill between two minutes.
Live(t) == 2 * t
Between(t) == 2 * t + 1

Init == market = <<>> /\ at = <<>> /\ decisions = <<>> /\ saved = 0 /\ runId = 1

Minutes == 1..now
\* Missed bars, crashes and drawdowns so far.
trouble ==
  (now - Len(decisions)) + (runId - 1) + Cardinality({i \in DOMAIN decisions : decisions[i].drawdown})
Stored(received, time) == {t \in DOMAIN received : received[t] # Never /\ received[t] <= time}

\* continuousPrefix(): the minutes that end at t without a gap.
ContinuousPrefix(rows, t) == {u \in rows : u <= t /\ u..t \subseteq rows}
\* slice(-23)
Slice(prefix, t) == {u \in prefix : u + Width > t}

(* V1: enter, leave, or retain the prior target. *)
V1(window, class, prior) ==
  IF Cardinality(window) < FeatureBars \/ class = "neutral" THEN prior
  ELSE IF class \in {"strong", "weak"} THEN 1 ELSE 0

\* Mutant of V2: no hysteresis, the entry gate must be met in every minute.
V2Twitchy(prefix, class, before, prior) ==
  IF Cardinality(prefix) < FeatureBars + 1 THEN prior ELSE IF class = "strong" THEN 1 ELSE 0
\* Mutant of V2: the confirmation looks at the previous bar only.
V2Stale(prefix, class, before, prior) ==
  IF Cardinality(prefix) < FeatureBars + 1 THEN prior
  ELSE IF prior = 1 THEN (IF class = "down" THEN 0 ELSE 1)
  ELSE IF before = "strong" THEN 1 ELSE 0
(* V2: enter when two bars in a row meet the gate, leave only on a real reversal. *)
V2(prefix, class, before, prior) ==
  IF Cardinality(prefix) < FeatureBars + 1 THEN prior
  ELSE IF prior = 1 THEN (IF class = "down" THEN 0 ELSE 1)
  ELSE IF class = "strong" /\ before = "strong" THEN 1 ELSE 0

\* evaluateRisk(): warm-up and an equity drawdown over its limit are flat.
RiskTarget(target, window, drawdown) ==
  IF Cardinality(window) < FeatureBars \/ drawdown THEN 0 ELSE target

----------------------------------------------------------------------------
(* The worker and its rows. *)

\* A live bar: its row, its decision, and the checkpoint, which a crash before it loses.
LiveBar(class, drawdown, checkpointed) ==
  LET t == now + 1
      received == Append(at, Live(t))
      window == Slice(ContinuousPrefix(Stored(received, Live(t)), t), t)
      target == V1(window, class, saved)
      final == RiskTarget(target, window, drawdown)
  IN /\ t <= MaxMinute /\ trouble + (IF drawdown THEN 1 ELSE 0) + (IF checkpointed THEN 0 ELSE 1) <= MaxTrouble
     /\ market' = Append(market, class) /\ at' = received
     /\ decisions' = Append(decisions, [bar |-> t, prior |-> saved, proposed |-> target, final |-> final,
          count |-> Cardinality(window), drawdown |-> drawdown, run |-> runId])
     /\ saved' = IF checkpointed THEN final ELSE saved
     /\ runId' = IF checkpointed THEN runId ELSE runId + 1

\* The bar never reached the worker.
MissedBar(class) ==
  /\ now < MaxMinute /\ trouble < MaxTrouble
  /\ market' = Append(market, class) /\ at' = Append(at, Never)
  /\ UNCHANGED <<decisions, saved, runId>>

\* A gap recovery stores a missed bar; no decision is made for it.
Backfill(t) ==
  /\ at[t] = Never /\ at' = [at EXCEPT ![t] = Between(now)]
  /\ UNCHANGED <<market, decisions, saved, runId>>

Next ==
  \/ \E class \in Classes : MissedBar(class) \/ \E d, c \in BOOLEAN : LiveBar(class, d, c)
  \/ \E t \in Minutes : Backfill(t)
Spec == Init /\ [][Next]_vars

----------------------------------------------------------------------------
(* The frozen session and its analysis. *)

\* exportPaperSession(): one snapshot of the decisions of an interval, of one run if asked for,
\* with the bars they may have seen.
Export(first, run) ==
  LET asked(d) == d.bar >= first /\ (run = 0 \/ d.run = run)
      rows[i \in 0..Len(decisions)] ==
        IF i = 0 THEN <<>> ELSE IF asked(decisions[i]) THEN Append(rows[i - 1], decisions[i]) ELSE rows[i - 1]
  IN [decisions |-> rows[Len(decisions)],
      received |-> [t \in Minutes |-> IF t + Width < first THEN Never ELSE at[t]]]
Sessions == {Export(first, run) : first \in Minutes, run \in 0..runId}

\* Mutant of Available: every row of the export is used.
AllRows(session, d) == Stored(session.received, Between(MaxMinute))
\* The rows that were there at the decision.
Available(session, d) == Stored(session.received, Live(d.bar))

(* signalParity(): each decision is made again, from the target the one before it left. *)
SignalParity(session) ==
  LET ds == session.decisions
      Window(d) == Slice(ContinuousPrefix(Available(session, d), d.bar), d.bar)
      replayed[i \in 0..Len(ds)] ==
        IF i = 0 THEN [prior |-> 0, target |-> 0]
        ELSE LET d == ds[i]
                 prior == IF i = 1 THEN d.prior ELSE replayed[i - 1].target
                 target == V1(Window(d), market[d.bar], prior)
             IN [proposed |-> target, target |-> RiskTarget(target, Window(d), d.drawdown)]
  IN [i \in DOMAIN ds |->
       /\ ds[i].count = Cardinality(Window(ds[i]))
       /\ i > 1 => /\ ds[i].bar = ds[i - 1].bar + 1
                   /\ ds[i].prior = replayed[i - 1].target
       /\ replayed[i].proposed = ds[i].proposed /\ replayed[i].target = ds[i].final]

\* What analyzePaperSession() asks before it compares strategies.
Passed(session) ==
  session.decisions # <<>> /\ \A i \in DOMAIN session.decisions : SignalParity(session)[i]

(* compareStrategies(): both strategies over the session's minutes, flat at first. The element
   before the first minute is the flat start. *)
Targets(strategy, session) ==
  LET ds == session.decisions
      rows == Stored(session.received, Between(MaxMinute))
      f[t \in (ds[1].bar - 1)..ds[Len(ds)].bar] ==
        IF t < ds[1].bar THEN 0
        ELSE LET prefix == ContinuousPrefix(rows, t)
             IN IF strategy = "v1" THEN V1(Slice(prefix, t), market[t], f[t - 1])
                ELSE V2(prefix, market[t], IF t - 1 \in prefix THEN market[t - 1] ELSE "none", f[t - 1])
  IN f
SignalFlips(strategy, session) ==
  LET f == Targets(strategy, session) IN Cardinality({t \in DOMAIN f : t - 1 \in DOMAIN f /\ f[t] # f[t - 1]})
\* Minutes whose close fills an entry that the bar before did not support by entryStrength.
WeakEntries(strategy, session) ==
  LET f == Targets(strategy, session)
      rows == Stored(session.received, Between(MaxMinute))
      filled == {t \in DOMAIN f : {t - 2, t - 1} \subseteq DOMAIN f /\ f[t - 1] = 1 /\ f[t - 2] = 0}
  IN {t \in filled : ~ (Cardinality(ContinuousPrefix(rows, t - 1)) >= FeatureBars /\ market[t - 1] = "strong")}

----------------------------------------------------------------------------
\* The replay of a session passes exactly when every live decision started from the target of the
\* decision of the minute before: a backfill that was stored later raises no false alarm, and a
\* target that a crash lost, or a missing decision, never passes for parity.
ParityIsExact ==
  \A session \in Sessions :
    LET ds == session.decisions
    IN (\A i \in DOMAIN ds : SignalParity(session)[i])
         <=> \A i \in 2..Len(ds) : ds[i].bar = ds[i - 1].bar + 1 /\ ds[i].prior = ds[i - 1].final

\* What the second strategy is for: over the same session it never changes its target more often
\* than the first one does.
HysteresisDamps ==
  \A session \in Sessions : Passed(session) => SignalFlips("v2", session) <= SignalFlips("v1", session)

\* No entry of V2 is filled on the strength of an older bar.
NoWeakEntry ==
  \A session \in Sessions : Passed(session) => WeakEntries("v2", session) = {}

----------------------------------------------------------------------------
(* The inductive invariant: what a decision was made of is still there. *)

Decisions ==
  [bar : Nat, prior : {0, 1}, proposed : {0, 1}, final : {0, 1}, count : Nat, drawdown : BOOLEAN, run : Nat]
TypeOK ==
  /\ market \in Seq(Classes) /\ now <= MaxMinute
  /\ at \in Seq(Nat) /\ Len(at) = now
  /\ decisions \in Seq(Decisions)
  /\ saved \in {0, 1} /\ runId \in Nat

\* The window of a decision, of the rows that were there when it was made: a row that is stored
\* later does not join it.
Seen(d) == Slice(ContinuousPrefix(Stored(at, Live(d.bar)), d.bar), d.bar)
MadeOf(d) ==
  /\ d.bar \in Minutes /\ at[d.bar] = Live(d.bar)
  /\ d.count = Cardinality(Seen(d))
  /\ d.proposed = V1(Seen(d), market[d.bar], d.prior)
  /\ d.final = RiskTarget(d.proposed, Seen(d), d.drawdown)
SessionInv == TypeOK /\ \A i \in DOMAIN decisions : MadeOf(decisions[i])
=============================================================================
