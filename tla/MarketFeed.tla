----------------------------- MODULE MarketFeed -----------------------------
(***************************************************************************)
(* What a worker relies on of a live bar source: it comes up, may drop and   *)
(* come up again by itself, and gives up at most once.  Bars are handed out  *)
(* only while it is up, and failing or closing is final.                    *)
(***************************************************************************)
EXTENDS Integers

VARIABLES
  feed,    \* "IDLE", "CONNECTING", "UP", "FAILED" or "CLOSED"
  handed   \* bars taken over from the present connection and not consumed yet

Init == feed = "IDLE" /\ handed = 0

Moves == {
  <<"IDLE", "CONNECTING">>, <<"IDLE", "FAILED">>, <<"IDLE", "CLOSED">>,
  <<"CONNECTING", "UP">>, <<"UP", "CONNECTING">>,
  <<"CONNECTING", "FAILED">>, <<"UP", "FAILED">>, <<"CONNECTING", "CLOSED">>, <<"UP", "CLOSED">>}

\* A connection that goes takes its bars along.
Move == <<feed, feed'>> \in Moves /\ handed' = 0
Bar == feed = "UP" /\ UNCHANGED feed /\ handed' \in {handed - 1, handed + 1}

Spec == Init /\ [][Move \/ Bar]_<<feed, handed>>
=============================================================================
