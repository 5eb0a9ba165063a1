------------------------------- MODULE MCFeeds -------------------------------
(***************************************************************************)
(* The market data of both workers and what is kept of it: checked for      *)
(* safety in one run of TLC.  part says whose behaviour it is, the others   *)
(* rest in an initial state.                                                *)
(***************************************************************************)
EXTENDS DurableMarketWorker

CONSTANTS
  MaxBars, MaxFrames,
  Stamps, MaxExpected, MaxRows,
  DecisionRows, TapeRows, Limit, MaxWrites

VARIABLES
  part,
  market, reader, trade,
  asked, answer, result,
  newest, decisions, orders, updates, recovery, script, seen, first, told, again

stockVars == <<market, reader, trade>>
historyVars == <<asked, answer, result>>
observerVars == <<newest, decisions, orders, updates, recovery, script, seen, first, told, again>>

Stock == INSTANCE StockStreams WITH MaxInbox <- MaxFrames
History == INSTANCE StockHistory
Watch == INSTANCE Observer WITH bar <- newest, reader <- script

\* The minutes of a stock request are numbers.
ASSUME StampsAreNumbers == Stamps \subseteq Nat
\* The detector remembers more than the keys of one kind that can be in a snapshot with a row, before it or after it:
\* the rows on both sides of it, an intent with three statuses.
ASSUME MemoryIsEnough ==
  /\ DecisionRows \in Nat \ {0} /\ TapeRows \in Nat \ {0} /\ Limit \in Nat
  /\ Limit > 2 * (TapeRows - 1) /\ Limit > 3 * (2 * (DecisionRows - 1))

Parts == {"btc", "market", "trade", "history", "observer"}

\* A part that rests has one initial state.
FeedsInit ==
  /\ part \in Parts
  /\ Init /\ Stock!Init /\ Watch!Init
  /\ History!Init /\ (part # "history" => asked = CHOOSE a \in [start : Stamps, end : Stamps] : TRUE)

Rests(parts, its) == IF part \in parts THEN TRUE ELSE UNCHANGED its
Others ==
  /\ UNCHANGED part
  /\ Rests({"btc"}, vars) /\ Rests({"market", "trade"}, stockVars)
  /\ Rests({"history"}, historyVars) /\ Rests({"observer"}, observerVars)

FeedsNext ==
  \/ part = "btc" /\ Next /\ Others
  \/ part = "market" /\ Stock!MarketNext /\ Others
  \/ part = "trade" /\ Stock!TradeNext /\ Others
  \/ part = "history" /\ History!Next /\ Others
  \/ part = "observer" /\ Watch!Next /\ Others
FeedsSpec == FeedsInit /\ [][FeedsNext]_<<part, vars, stockVars, historyVars, observerVars>>

\* The stock transport: bars in their order, no update lost in silence, no page with a hole in it.
StockInv ==
  /\ part = "market" => Stock!BarsInOrder
  /\ part = "trade" => Stock!NoSilentLoss /\ Stock!ReadyIsSubscribed
  /\ part = "history" => History!PageIsWhole

\* The tape of the observer: everything once.
TapeInv == part = "observer" => Watch!ToldOnce /\ Watch!TapeIsExact
=============================================================================
