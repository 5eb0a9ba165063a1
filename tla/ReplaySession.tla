--------------------------- MODULE ReplaySession ---------------------------
(***************************************************************************)
(* One replay session (pipeline.ts runSession): per closed bar the fills of *)
(* the bar before, the signal, the policy of the arm, the risk check and a  *)
(* new intent (execution.ts, policy.ts), and the metrics of its ledger.     *)
(*                                                                         *)
(* Equity is kept as its logarithm in whole units, a bar as the logarithm   *)
(* of its return.  Features are the classes the thresholds cut them into.   *)
(***************************************************************************)
EXTENDS Integers, Sequences, FiniteSetsExt

CONSTANTS
  NBars,    \* bars of the series
  Warmup,   \* index of the first bar whose features are complete
  Moves,    \* returns of a bar
  Cost,     \* transaction cost and slippage of one unit of turnover
  MaxLoss,  \* THRESHOLDS.maxDrawdown
  Sessions  \* the arm and the strategy of the sessions run

VARIABLES
  session,   \* the arm and the strategy
  candles,   \* the return of each bar so far
  execution, \* the ReplayExecution object
  evidence,  \* the latest evidence
  actions    \* the actions of all of them

vars == <<session, candles, execution, evidence, actions>>

Actions == {"LONG", "SHORT", "FLAT"}
Regimes == {"trend_up", "trend_down", "mean_reverting", "ambiguous"}

\* The size of |s|/vol against emaSignalEnterZ, the sign of s, displacementZ by sign and by |z| >= 1.2,
\* RSI against its two bands; calm: realizedVol and the drawdown of the price are within their limits.
Features == [size : {"below", "at", "above"}, s : {-1, 1}, z : -2..2, rsi : {"low", "mid", "high"},
             calm : BOOLEAN]

----------------------------------------------------------------------------
(* policy.ts *)

Regime(f, warm) ==
  LET trendish == f.size \in {"at", "above"}
      stretched == f.z \in {-2, 2} \/ f.rsi # "mid"
  IN CASE ~warm -> "ambiguous"
       [] warm /\ trendish /\ f.s > 0 /\ f.z >= 0 -> "trend_up"
       [] warm /\ trendish /\ f.s < 0 /\ f.z <= 0 -> "trend_down"
       [] warm /\ ~trendish /\ stretched -> "mean_reverting"
       [] OTHER -> "ambiguous"

EmaTrend(f) == IF f.size # "above" THEN "FLAT" ELSE IF f.s > 0 THEN "LONG" ELSE "SHORT"
RsiMeanReversion(f) == CASE f.rsi = "low" -> "LONG" [] f.rsi = "high" -> "SHORT" [] OTHER -> "FLAT"
Signal(strategy, f, warm) ==
  CASE ~warm -> "FLAT" [] warm /\ strategy = "ema_trend" -> EmaTrend(f) [] OTHER -> RsiMeanReversion(f)

RegimeAligned(strategy, desired, regime) ==
  \/ desired = "FLAT"
  \/ strategy = "ema_trend" /\ regime = (IF desired = "LONG" THEN "trend_up" ELSE "trend_down")
  \/ strategy = "rsi_mean_reversion" /\ regime = "mean_reverting"

\* mockClassify(): its numbers matter only through the floors of THRESHOLDS; before the warm-up is
\* complete it calls every market hostile.
JevAnswers(warm) ==
  [usable : IF warm THEN BOOLEAN ELSE {FALSE}, regime : Regimes, confident : BOOLEAN,
   passes : SUBSET {"LONG", "SHORT", "TREND", "MEAN_REVERSION"}]

JevAllows(strategy, desired, a) ==
  /\ a.usable
  /\ \/ desired = "FLAT"
     \/ /\ desired \in a.passes
        /\ (IF strategy = "ema_trend" THEN "TREND" ELSE "MEAN_REVERSION") \in a.passes
        /\ a.confident => RegimeAligned(strategy, desired, a.regime)

\* Mutant: arm C takes the regime for the trade.
PolicyOfRegime(arm, strategy, signal, regime, allowed) ==
  IF arm # "C" THEN signal
  ELSE CASE regime = "trend_up" -> "LONG" [] regime = "trend_down" -> "SHORT" [] OTHER -> signal
Policy(arm, strategy, signal, regime, allowed) ==
  CASE arm = "A" -> "LONG"
    [] arm = "B" -> signal
    [] arm = "C" -> IF RegimeAligned(strategy, signal, regime) THEN signal ELSE "FLAT"
    [] arm = "D" -> IF allowed THEN signal ELSE "FLAT"

\* Mutant: only the market's own limits count.
RiskOfMarket(desired, limits, loss) == IF limits.warm /\ limits.calm THEN desired ELSE "FLAT"
Risk(desired, limits, loss) ==
  IF ~limits.warm \/ (desired # "FLAT" /\ (~limits.calm \/ loss > MaxLoss)) THEN "FLAT" ELSE desired

\* What the features and the answers of one bar can come to.
Evaluations(arm, strategy, warm) ==
  LET verdicts == [desired \in Actions |-> {JevAllows(strategy, desired, a) : a \in JevAnswers(warm)}]
      views == {[signal |-> Signal(strategy, f, warm), regime |-> Regime(f, warm), calm |-> f.calm] : f \in Features}
  IN UNION {{[signal |-> v.signal, desired |-> Policy(arm, strategy, v.signal, v.regime, allowed),
              limits |-> [warm |-> warm, calm |-> v.calm]]
             : allowed \in IF arm = "D" THEN verdicts[v.signal] ELSE {FALSE}}
            : v \in views}

----------------------------------------------------------------------------
(* execution.ts *)

ToPosition(action) == CASE action = "LONG" -> 1 [] action = "SHORT" -> -1 [] OTHER -> 0
Size(n) == IF n < 0 THEN -n ELSE n

NewExecution == [position |-> 0, equity |-> 0, spent |-> 0, intents |-> << >>, transitions |-> << >>, points |-> << >>]

\* Mutant: an intent is filled at the close it was created at.
FillAtOnce(x, intent, i) ==
  [x EXCEPT !.intents = Append(@, intent),
            !.position = IF intent.status = "PENDING" /\ intent.at \in {i, i - 1} THEN intent.desired ELSE @]
\* The loop body of advanceBar(): x holds the intents before this one, and what they cost.
Fill(x, intent, i) ==
  CASE intent.status # "PENDING" \/ intent.at + 1 # i -> [x EXCEPT !.intents = Append(@, intent)]
    [] OTHER ->
         IF intent.desired = x.position
         THEN [x EXCEPT !.intents = Append(@, [intent EXCEPT !.status = "CANCELLED"])]
         ELSE [x EXCEPT !.intents = Append(@, [intent EXCEPT !.status = "FILLED"]), !.position = intent.desired,
                        !.spent = @ + Cost * Size(intent.desired - x.position),
                        !.transitions = Append(@, [at |-> i, before |-> x.position, after |-> intent.desired])]

AdvanceBar(x, i, move) ==
  LET filled[k \in 0..Len(x.intents)] ==
        IF k = 0 THEN [x EXCEPT !.intents = << >>, !.spent = 0] ELSE Fill(filled[k - 1], x.intents[k], i)
      y == filled[Len(x.intents)]
      equity == x.equity + x.position * move - y.spent
  IN [y EXCEPT !.equity = equity,
               !.points = Append(@, [applied |-> x.position, cost |-> y.spent, equity |-> equity])]

CreateIntent(x, i, action) ==
  IF ToPosition(action) = x.position THEN x
  ELSE [x EXCEPT !.intents = Append(@, [at |-> i, desired |-> ToPosition(action), status |-> "PENDING"])]

\* currentDrawdown: the peak starts at the initial equity.
Drawdown(x) == Max({0} \cup {x.points[k].equity : k \in DOMAIN x.points}) - x.equity

----------------------------------------------------------------------------
Init ==
  /\ session \in Sessions
  /\ candles = << >> /\ actions = << >>
  /\ evidence = [action |-> "FLAT", signal |-> "FLAT", abstained |-> FALSE]
  /\ execution = NewExecution

\* One turn of the loop of runSession().
Bar ==
  /\ Len(candles) < NBars
  /\ \E move \in IF candles = << >> THEN {0} ELSE Moves :
     \E e \in Evaluations(session.arm, session.strategy, Len(candles) >= Warmup) :
       LET i == Len(candles)
           x == AdvanceBar(execution, i, move)
           action == Risk(e.desired, e.limits, Drawdown(x))
       IN /\ candles' = Append(candles, move)
          /\ execution' = CreateIntent(x, i, action)
          /\ actions' = Append(actions, action)
          /\ evidence' = [action |-> action, signal |-> e.signal,
                          abstained |-> e.desired # action \/ (action = "FLAT" /\ e.signal # "FLAT")]
  /\ UNCHANGED session

Next == Bar
Spec == Init /\ [][Next]_vars

----------------------------------------------------------------------------
\* Mutant: the peak is not carried along.
WorstOfBar(acc, p) == [peak |-> p.equity, loss |-> IF acc.peak - p.equity > acc.loss THEN acc.peak - p.equity ELSE acc.loss]
\* computePathMetrics(), from the ledger alone.
Worst(acc, p) ==
  LET peak == IF p.equity > acc.peak THEN p.equity ELSE acc.peak
  IN [peak |-> peak, loss |-> IF peak - p.equity > acc.loss THEN peak - p.equity ELSE acc.loss]
MaxDrawdown(points) ==
  LET worst[k \in 0..Len(points)] == IF k = 0 THEN [peak |-> 0, loss |-> 0] ELSE Worst(worst[k - 1], points[k])
  IN worst[Len(points)].loss
\* terms[from] + ... + terms[to]
Total(from, to, terms) ==
  LET sum[k \in 0..to] == IF k < from THEN 0 ELSE sum[k - 1] + terms[k] IN sum[to]
Turnover(transitions) ==
  Total(1, Len(transitions), [k \in DOMAIN transitions |-> Size(transitions[k].after - transitions[k].before)])
PathMetrics(x) ==
  [trades |-> Len(x.transitions), turnover |-> Turnover(x.transitions),
   exposure |-> Total(2, Len(x.points), [k \in DOMAIN x.points |-> Size(x.points[k].applied)]),
   maxDrawdown |-> MaxDrawdown(x.points)]

----------------------------------------------------------------------------
\* The target decided after a bar; none before the first.
Target(k) == IF k \in DOMAIN actions THEN ToPosition(actions[k]) ELSE 0

\* A decision after bar t is filled at the close of t+1 and earns from there on: the interval that ends at
\* a bar belongs to the decision two bars before it, and the cost of a change to the bar of its fill.
NextBarClose ==
  \A k \in DOMAIN execution.points :
    LET p == execution.points[k]
        before == IF k = 1 THEN 0 ELSE execution.points[k - 1].equity
    IN /\ p.applied = Target(k - 2)
       /\ p.cost = Cost * Size(Target(k - 1) - Target(k - 2))
       /\ p.equity = before + Target(k - 2) * candles[k] - p.cost

\* The metrics say of a session what its decisions and its candles say of it.
MetricsAgree ==
  LET m == PathMetrics(execution)
      n == Len(actions)
      eq(k) == IF k = 0 THEN 0 ELSE execution.points[k].equity
  IN /\ m.turnover = Total(1, n, [k \in 1..n |-> Size(Target(k - 1) - Target(k - 2))])
     /\ m.exposure = Total(1, n, [k \in 1..n |-> Size(Target(k - 2))])
     /\ m.maxDrawdown = Max({eq(p[1]) - eq(p[2]) : p \in {q \in (0..n) \X (0..n) : q[1] <= q[2]}})

\* An arm that follows a signal trades with it or abstains and says so; it never trades on its own.
AbstentionIsTold ==
  session.arm # "A" => (evidence.abstained <=> evidence.action # evidence.signal)

\* A session that is flat below its drawdown limit, with nothing left to fill, never trades again.
DrawdownAt(j) == Max({0} \cup {execution.points[i].equity : i \in 1..j}) - execution.points[j].equity
RuinIsFinal ==
  \A j \in DOMAIN execution.points :
    DrawdownAt(j) > MaxLoss /\ Target(j - 1) = 0 /\ Target(j) = 0 => \A k \in j..Len(actions) : Target(k) = 0

----------------------------------------------------------------------------
(* The inductive invariant: only the last intent can be open, and it is the  *)
(* newest decision where that one differs from the one before.               *)

Positions == {-1, 0, 1}
Intents == [at : Nat, desired : Positions, status : {"PENDING", "CANCELLED", "FILLED"}]
Transitions == [at : Nat, before : Positions, after : Positions]
Points == [applied : Positions, cost : Int, equity : Int]
Executions ==
  [position : Positions, equity : Int, spent : Int, intents : Seq(Intents), transitions : Seq(Transitions), points : Seq(Points)]
TypeOK ==
  /\ session \in Sessions /\ candles \in Seq(Int) /\ actions \in Seq(Actions)
  /\ execution \in Executions
  /\ evidence \in [action : Actions, signal : Actions, abstained : BOOLEAN]
  /\ Len(candles) = Len(actions) /\ Len(execution.points) = Len(actions)

InStep ==
  LET n == Len(actions)
      x == execution
  IN /\ x.position = Target(n - 1)
     /\ x.equity = IF n = 0 THEN 0 ELSE x.points[n].equity
     /\ Target(n) # Target(n - 1) => x.intents # << >>
     /\ \A k \in DOMAIN x.intents :
          IF k = Len(x.intents) /\ Target(n) # Target(n - 1)
          THEN x.intents[k] = [at |-> n - 1, desired |-> Target(n), status |-> "PENDING"]
          ELSE x.intents[k].status # "PENDING"
     /\ Turnover(x.transitions) = Total(1, n, [k \in 1..n |-> Size(Target(k - 1) - Target(k - 2))])

\* A session in its ruin stays as it is.
RuinedStays ==
  \A j \in DOMAIN execution.points :
    DrawdownAt(j) > MaxLoss /\ Target(j - 1) = 0 /\ Target(j) = 0 =>
      \A k \in j..Len(actions) : Target(k) = 0 /\ execution.points[k].equity = execution.points[j].equity

ExecutionInv == TypeOK /\ InStep /\ NextBarClose /\ AbstentionIsTold /\ RuinedStays
=============================================================================
