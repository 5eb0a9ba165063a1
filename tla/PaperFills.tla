------------------------------ MODULE PaperFills ------------------------------
(***************************************************************************)
(* The fills of a PAPER session and the round trips made of them            *)
(* (paper-session.ts): the broker fills orders, with equal time stamps at   *)
(* times, trade updates are stored in any order, more than once or not at   *)
(* all, and the analysis reads what is stored.                              *)
(*                                                                         *)
(* A fill is its place in the broker's history; the exact decimals of the   *)
(* time stamp are a number, the P&L of a trip is the set of its fills.      *)
(***************************************************************************)
EXTENDS Naturals, Sequences, FiniteSets

CONSTANTS
  MaxFills,     \* bound: fills of the broker
  MaxPosition,  \* bound: shares held
  MaxLost,      \* bound: fills whose updates never arrive
  End           \* the session is [1, End)

VARIABLES
  history,  \* the broker's fills in the order they happened
  stored,   \* the trade_updates rows, in the order they arrived
  lost      \* fills whose updates never arrive

vars == <<history, stored, lost>>

Init == history = <<>> /\ stored = <<>> /\ lost = {}

Last(s) == s[Len(s)]
Position == IF history = <<>> THEN 0 ELSE Last(history).after
Clock == IF history = <<>> THEN 0 ELSE Last(history).time

\* The broker fills an order, or a part of one, at the time of the last fill or after it.
Fill ==
  /\ Len(history) < MaxFills
  /\ \E after \in 0..MaxPosition \ {Position}, time \in Clock..(Clock + 1) :
       history' = Append(history, [id |-> Len(history) + 1, before |-> Position, after |-> after, time |-> time])
  /\ UNCHANGED <<stored, lost>>

\* Its trade update is stored; a second copy of it is another row.
Store(f) ==
  /\ f.id \notin lost
  /\ Cardinality({i \in DOMAIN stored : stored[i] = f}) <= (IF f.id = 1 THEN 1 ELSE 0)
  /\ stored' = Append(stored, f)
  /\ UNCHANGED <<history, lost>>

Lose(f) ==
  /\ Cardinality(lost) < MaxLost /\ \A i \in DOMAIN stored : stored[i] # f
  /\ lost' = lost \cup {f.id}
  /\ UNCHANGED <<history, stored>>

Fills == {history[i] : i \in DOMAIN history}
Next == Fill \/ \E f \in Fills : Store(f) \/ Lose(f)
Spec == Init /\ [][Next]_vars

----------------------------------------------------------------------------
(* extractFills(): copies are one fill, and fills outside the session are left out. *)
InSession(f) == f.time >= 1 /\ f.time < End
Extracted == {f \in {stored[i] : i \in DOMAIN stored} : InSession(f)}

Tied(S, f) == {g \in S : g.time = f.time}
\* Mutant of Candidates: of fills with one time stamp any may come first.
AnyOfTied(group, done) == {CHOOSE f \in group : \A g \in group : f.after <= g.after}
\* Who may come next among fills with one time stamp: the one that starts at the position the
\* last one left or, before any, one that follows no other.
Candidates(group, done) ==
  IF done = <<>> THEN {f \in group : ~ \E g \in group \ {f} : g.after = f.before}
  ELSE {f \in group : f.before = Last(done).after}

(* orderFills(): by time, ties by the only path through the positions; ok is FALSE when it throws. *)
OrderFills(S) ==
  LET step[n \in 0..Cardinality(S)] ==
        IF n = 0 THEN [ok |-> TRUE, seq |-> <<>>]
        ELSE LET done == step[n - 1].seq
                 left == S \ {done[i] : i \in DOMAIN done}
                 group == {f \in left : \A g \in left : f.time <= g.time}
                 next == IF \A f \in group : Tied(S, f) = {f} THEN group ELSE Candidates(group, done)
             IN IF step[n - 1].ok /\ Cardinality(next) = 1
                THEN [ok |-> TRUE, seq |-> Append(done, CHOOSE f \in next : TRUE)]
                ELSE [ok |-> FALSE, seq |-> done]
  IN step[Cardinality(S)]

\* Mutant of Broken: a fill may be missing between two.
Unbroken(previous, f) == FALSE
\* The position before a fill is not the one the last fill left: something is missing.
Broken(previous, f) == previous # <<>> /\ f.before # Last(previous).after

(* roundTrips(): from an entry at zero to the next zero; a gap drops the cycle. *)
RoundTrips(fills) ==
  LET step[n \in 0..Len(fills)] ==
        IF n = 0 THEN [cycle |-> <<>>, trips |-> <<>>]
        ELSE LET f == fills[n]
                 opens == f.before = 0
                 kept == IF opens \/ Broken(SubSeq(fills, 1, n - 1), f) THEN <<>> ELSE step[n - 1].cycle
                 cycle == IF opens \/ kept # <<>> THEN Append(kept, f) ELSE kept
             IN IF f.after = 0 /\ cycle # <<>>
                THEN [cycle |-> <<>>, trips |-> Append(step[n - 1].trips, cycle)]
                ELSE [cycle |-> cycle, trips |-> step[n - 1].trips]
  IN step[Len(fills)].trips

Ordered == OrderFills(Extracted)
Trips == IF Ordered.ok THEN RoundTrips(Ordered.seq) ELSE <<>>

----------------------------------------------------------------------------
\* What really happened from one fill to another.
Between(f, g) == SubSeq(history, f.id, g.id)
InOrder(fills) == \A i, j \in DOMAIN fills : i < j => fills[i].id < fills[j].id

\* A round trip that is reported is a stretch of the broker's history from flat to flat: no trip
\* spans the hole that one update leaves that is lost or still under way. (With equal time stamps
\* this holds only while nothing is missing: a hole can leave the tie one path, the wrong one.)
TripsAreReal ==
  LET missing == {f \in Fills : InSession(f)} \ Extracted
      tied == \E f \in Extracted : Tied(Extracted, f) # {f}
  IN Cardinality(missing) <= (IF tied THEN 0 ELSE 1) =>
       \A i \in DOMAIN Trips :
         /\ Trips[i] = Between(Trips[i][1], Last(Trips[i]))
         /\ Trips[i][1].before = 0 /\ Last(Trips[i]).after = 0

\* When every update is stored, in whatever order and with copies, the analysis has the broker's
\* order, or it says that equal time stamps leave it open.
OrderIsTrue ==
  (\A f \in Fills : InSession(f) => f \in Extracted) =>
    (Ordered.ok => InOrder(Ordered.seq) /\ {Ordered.seq[i] : i \in DOMAIN Ordered.seq} = {f \in Fills : InSession(f)})

----------------------------------------------------------------------------
(* The inductive invariant: each fill starts where the one before it left the position, no earlier
   than it, and moves it; a row is a fill. *)

TypeOK ==
  /\ history \in Seq([id : Nat, before : Nat, after : Nat, time : Nat])
  /\ stored \in Seq(Fills) /\ lost \subseteq Nat
FillsInv ==
  /\ TypeOK
  /\ \A i \in DOMAIN history :
       /\ history[i].id = i /\ history[i].after # history[i].before
       /\ i > 1 => history[i].before = history[i - 1].after /\ history[i - 1].time <= history[i].time
=============================================================================
