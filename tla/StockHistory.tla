---------------------------- MODULE StockHistory ----------------------------
(***************************************************************************)
(* The one-shot read of historical minute bars that the worker's backfill  *)
(* trusts: AlpacaHistoricalStockBars.bars.  A page is all of the window,   *)
(* in order, or it is an error.                                            *)
(***************************************************************************)
EXTENDS Naturals, Sequences, FiniteSets

CONSTANTS
  Stamps,      \* the minutes a row of an answer may carry
  MaxExpected,  \* 390 in the code: the most minutes one request may ask for
  MaxRows       \* bound: rows in an answer

VARIABLES
  asked,   \* the request: [start, end)
  answer,  \* the body of the response, a sequence of rows
  result   \* what bars() resolves or rejects with

vars == <<asked, answer, result>>

Pending == [is |-> "pending", bars |-> << >>]
Error(kind) == [is |-> kind, bars |-> << >>]
Page(bars) == [is |-> "page", bars |-> bars]

Row == [t : Stamps, ok : BOOLEAN]    \* ok: the prices are finite and in order, the minute is a whole one

Init ==
  /\ \E from, to \in Stamps : asked = [start |-> from, end |-> to]
  /\ answer = << >>
  /\ result = Pending

\* The range is looked at before anything is fetched.
Rejected ==
  /\ result = Pending
  /\ \/ asked.start >= asked.end /\ result' = Error("INVALID_HISTORICAL_BAR_RANGE")
     \/ asked.start < asked.end /\ asked.end - asked.start > MaxExpected /\ result' = Error("HISTORICAL_BAR_RANGE_UNBOUNDED")
  /\ UNCHANGED <<asked, answer>>

Fetched == result = Pending /\ asked.start < asked.end /\ asked.end - asked.start <= MaxExpected /\ UNCHANGED asked

\* A timeout, a status, a body that is not a list of bars.
FetchFails ==
  /\ Fetched
  /\ \E kind \in {"TIMEOUT", "HTTP_FAILURE", "AUTHENTICATION_FAILURE", "PROTOCOL_FAILURE"} : result' = Error(kind)
  /\ UNCHANGED answer

\* strictHistoricalBar()
Strict(row) == row.ok /\ asked.start <= row.t /\ row.t < asked.end

\* Mutant: the rows that came are all there is.
AnyOfThem(rows) == TRUE
\* Every minute of the window is there.
Complete(rows) == \A t \in asked.start .. asked.end - 1 : \E i \in DOMAIN rows : rows[i].t = t

Doubled(rows) == Cardinality({rows[i].t : i \in DOMAIN rows}) # Len(rows)

\* sort()
InOrder(rows) ==
  CHOOSE s \in [DOMAIN rows -> {rows[i].t : i \in DOMAIN rows}] : \A i, j \in DOMAIN s : i < j => s[i] < s[j]

\* bars(), from the response on.
Answered ==
  /\ Fetched
  /\ \E rows \in UNION {[1..n -> Row] : n \in 0..MaxRows} :
       /\ answer' = rows
       /\ result' = IF (\E i \in DOMAIN rows : ~Strict(rows[i])) \/ Doubled(rows) \/ ~Complete(rows)
                    THEN Error("PROTOCOL_FAILURE") ELSE Page(InOrder(rows))

Next == Rejected \/ FetchFails \/ Answered

Spec == Init /\ [][Next]_vars

----------------------------------------------------------------------------
(* Properties                                                               *)

\* A page is the whole window, minute by minute: a backfill cannot store a hole, an order of its own, or a row from outside.
PageIsWhole ==
  result.is = "page" =>
    /\ Len(result.bars) = asked.end - asked.start
    /\ \A i \in DOMAIN result.bars : result.bars[i] = asked.start + i - 1
=============================================================================
