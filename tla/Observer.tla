------------------------------ MODULE Observer ------------------------------
(***************************************************************************)
(* The terminal observer of the PAPER worker: alpaca-observe.ts and its    *)
(* script, next to a worker that keeps writing evidence.                   *)
(*                                                                         *)
(* A snapshot is a sequence of queries of one READ COMMITTED transaction,  *)
(* each of which sees what is committed when it runs; the change detector  *)
(* tells what a snapshot shows for the first time.  Rows only the header   *)
(* shows (checkpoint, lease, run, position, last update) are left out.     *)
(***************************************************************************)
EXTENDS Naturals, Sequences, Functions, Folds

CONSTANTS
  DecisionRows,   \* the LIMIT of the query for decisions and their intents
  TapeRows,       \* the LIMIT of the queries for broker orders and for trade updates
  Limit,          \* BoundedSeen's limit
  MaxWrites       \* bound: rows written and changed by the worker

VARIABLES
  bar,        \* closed_bars: the newest timestamp_ms, 0 when there is none
  decisions,  \* decisions with their execution_intents: a status each, in the order of their bars
  orders,     \* broker_orders: how many rows
  updates,    \* trade_updates: how many rows
  recovery,   \* the newest market_gap_recovery_attempts row: a position in RecoveryStates, 0 when there is none
  reader,     \* the script: where it is, the query it runs next, what the ones before returned, and whether it has seen a snapshot
  seen,       \* ObserverChangeDetector: what each BoundedSeen remembers, in the order it came
  first,      \* history: what the first snapshot showed
  told,       \* history: the events that were printed
  again       \* history: the events that were printed more than once

evidence == <<bar, decisions, orders, updates, recovery>>
vars == <<bar, decisions, orders, updates, recovery, reader, seen, first, told, again>>

RecoveryStates == <<"GAP_DETECTED", "BACKFILLING", "VERIFYING", "HEALTHY">>
\* The statuses of an intent in the order it takes them, after that of the rows that never change.
Rank == [WRITTEN |-> 0, PENDING |-> 1, SUBMISSION_ATTEMPTED |-> 2, FILLED |-> 3]

Kinds == {"bar", "decision", "intent", "broker", "trade-update", "recovery"}
Nothing == [k \in Kinds |-> << >>]

Init ==
  /\ bar = 0 /\ decisions = << >> /\ orders = 0 /\ updates = 0 /\ recovery = 0
  /\ reader = [at |-> "waiting", next |-> 1, snap |-> Nothing, initialized |-> FALSE]
  /\ seen = Nothing
  /\ first = {} /\ told = {} /\ again = {}

----------------------------------------------------------------------------
(* The worker, statement by statement of its store; what it writes after the observer's end does not matter here. *)

Written == bar + orders + updates + recovery + FoldFunction(LAMBDA d, n : n + Rank[d.status], 0, decisions)
Writes == Written < MaxWrites /\ reader.at # "failed" /\ UNCHANGED <<reader, seen, first, told, again>>

BarStored ==
  /\ Writes
  /\ bar' = bar + 1
  /\ UNCHANGED <<decisions, orders, updates, recovery>>

\* persistDecisionAndIntent()
Decided ==
  /\ Writes
  /\ bar > 0 /\ \A i \in DOMAIN decisions : decisions[i].bar < bar
  /\ decisions' = Append(decisions, [bar |-> bar, status |-> "PENDING"])
  /\ UNCHANGED <<bar, orders, updates, recovery>>

\* claimIntentForDispatch()
Claimed ==
  /\ Writes
  /\ \E i \in DOMAIN decisions :
       /\ decisions[i].status = "PENDING"
       /\ decisions' = [decisions EXCEPT ![i].status = "SUBMISSION_ATTEMPTED"]
  /\ UNCHANGED <<bar, orders, updates, recovery>>

\* recordBrokerOrder(): the event, and the intent when its status changes, in one transaction.
OrderRecorded ==
  /\ Writes
  /\ \E i \in DOMAIN decisions, status \in {"SUBMISSION_ATTEMPTED", "FILLED"} :
       /\ Rank[decisions[i].status] >= 2 /\ Rank[status] >= Rank[decisions[i].status]
       /\ decisions' = [decisions EXCEPT ![i].status = status]
  /\ orders' = orders + 1
  /\ UNCHANGED <<bar, updates, recovery>>

UpdateStored ==
  /\ Writes
  /\ updates' = updates + 1
  /\ UNCHANGED <<bar, decisions, orders, recovery>>

\* createGapRecoveryAttempt(), updateGapRecoveryAttempt()
RecoveryMoves ==
  /\ Writes
  /\ recovery < Len(RecoveryStates) /\ recovery' = recovery + 1
  /\ UNCHANGED <<bar, decisions, orders, updates>>

----------------------------------------------------------------------------
(* One snapshot.                                                            *)

\* The rows of a kind are numbered in the order they were written; a recovery is known by how far it got.
Size(kind) ==
  CASE kind = "bar" -> bar [] kind \in {"decision", "intent"} -> Len(decisions) [] kind = "broker" -> orders
    [] kind = "trade-update" -> updates [] kind = "recovery" -> recovery
Width(kind) ==
  CASE kind \in {"decision", "intent"} -> DecisionRows [] kind \in {"broker", "trade-update"} -> TapeRows [] OTHER -> 1
Row(kind, i) == [id |-> i, status |-> IF kind = "intent" THEN decisions[i].status ELSE "WRITTEN"]
\* ORDER BY ... DESC LIMIT ...
Newest(kind) == [j \in 1..(IF Size(kind) < Width(kind) THEN Size(kind) ELSE Width(kind)) |-> Row(kind, Size(kind) + 1 - j)]

\* loadObserverSnapshot(): its queries in their order, and what each one is for.
Queries == <<{"bar"}, {"decision", "intent"}, {"broker"}, {"trade-update"}, {"recovery"}>>

Begins ==
  /\ reader.at = "waiting"
  /\ reader' = [reader EXCEPT !.at = "reading", !.next = 1, !.snap = Nothing]
  /\ UNCHANGED <<bar, decisions, orders, updates, recovery, seen, first, told, again>>

Reads ==
  /\ reader.at = "reading" /\ reader.next <= Len(Queries)
  /\ reader' = [reader EXCEPT !.next = @ + 1,
                              !.snap = [k \in Kinds |-> IF k \in Queries[reader.next] THEN Newest(k) ELSE @[k]]]
  /\ UNCHANGED <<bar, decisions, orders, updates, recovery, seen, first, told, again>>

\* A query, or the connection, fails: ROLLBACK, and the script ends.
Fails ==
  /\ reader.at = "reading"
  /\ reader' = [reader EXCEPT !.at = "failed"]
  /\ UNCHANGED <<bar, decisions, orders, updates, recovery, seen, first, told, again>>

----------------------------------------------------------------------------
(* The change detector.                                                     *)

\* Mutant: it remembers no more than a snapshot shows.
KeptWindow(queue) == IF Len(queue) > TapeRows THEN Tail(queue) ELSE queue
\* BoundedSeen.add()
Kept(queue) == IF Len(queue) > Limit THEN Tail(queue) ELSE queue

\* Mutant: an intent is known by its decision.
KeyWithoutStatus(row) == [row EXCEPT !.status = "WRITTEN"]
\* What an event is known by: of an intent its status is part.
Key(row) == row

\* add(): what is remembered, and what is new.
Add(kind, acc, row) ==
  IF Key(row) \in Range(acc.queue) THEN acc
  ELSE [queue |-> Kept(Append(acc.queue, Key(row))), new |-> acc.new \cup {<<kind, row>>}]
Noted(kind, rows) ==
  LET noted[j \in 0..Len(rows)] == IF j = 0 THEN [queue |-> seen[kind], new |-> {}] ELSE Add(kind, noted[j - 1], rows[j])
  IN noted[Len(rows)]

Shown(snap) == UNION {{k} \X Range(snap[k]) : k \in Kinds}

\* observe(): the first snapshot only seeds what is remembered.
Observes ==
  /\ reader.at = "reading" /\ reader.next > Len(Queries)
  /\ LET noted == [k \in Kinds |-> Noted(k, reader.snap[k])]
         events == UNION {noted[k].new : k \in Kinds}
     IN /\ seen' = [k \in Kinds |-> noted[k].queue]
        /\ IF reader.initialized
           THEN told' = told \cup events /\ again' = again \cup (told \cap events) /\ UNCHANGED first
           ELSE first' = Shown(reader.snap) /\ UNCHANGED <<told, again>>
  /\ reader' = [reader EXCEPT !.at = "waiting", !.initialized = TRUE]
  /\ UNCHANGED <<bar, decisions, orders, updates, recovery>>

Next == BarStored \/ Decided \/ Claimed \/ OrderRecorded \/ UpdateStored \/ RecoveryMoves \/ Begins \/ Reads \/ Fails \/ Observes

Spec == Init /\ [][Next]_vars

----------------------------------------------------------------------------
(* Properties                                                               *)

\* Nothing is told twice, although the detector forgets the oldest of what it has seen.
ToldOnce == again = {}

\* After a poll every row and every status the snapshot shows was told, unless the first snapshot showed it: and then it was not.
TapeIsExact ==
  /\ told \cap first = {}
  /\ reader.at = "waiting" => Shown(reader.snap) \subseteq told \cup first

----------------------------------------------------------------------------
(* The inductive invariant: what was told and can be shown again is still    *)
(* remembered.                                                               *)

Rows == [id : Nat \ {0}, status : DOMAIN Rank]
Decisions == [bar : Nat, status : DOMAIN Rank \ {"WRITTEN"}]
TypeOK ==
  /\ bar \in Nat /\ orders \in Nat /\ updates \in Nat /\ recovery \in Nat
  /\ decisions \in Seq(Decisions)
  /\ reader \in [at : {"waiting", "reading", "failed"}, next : 1..(Len(Queries) + 1), snap : [Kinds -> Seq(Rows)],
                 initialized : BOOLEAN]
  /\ seen \in [Kinds -> Seq(Rows)]
  /\ first \subseteq Kinds \X Rows /\ told \subseteq Kinds \X Rows

\* The rows of a kind that a snapshot has shown.
Known(kind) == {event[2] : event \in {e \in first \cup told : e[1] = kind}}
\* The snapshot that is being read has the rows of the kind.
Answered(kind) == reader.at = "reading" /\ \E query \in 1..(reader.next - 1) : kind \in Queries[query]

\* A row as it is, or as it was with an earlier status.
Stored(kind, row) ==
  /\ row.id <= Size(kind) /\ (row.status # "WRITTEN" <=> kind = "intent")
  /\ Rank[row.status] <= Rank[Row(kind, row.id).status]
\* No query shows this row again.
Past(kind, row) == row.id + Width(kind) <= Size(kind) \/ Rank[row.status] < Rank[Row(kind, row.id).status]

\* What is remembered came in some order: no row after one that was already out of its window, no status after a later one.
InOrder(queue, width) ==
  \A i, j \in DOMAIN queue :
    i < j => /\ queue[j].id + width > queue[i].id
             /\ queue[j].id = queue[i].id => Rank[queue[i].status] < Rank[queue[j].status]
\* The newest rows, all of them or as many as are asked for.
IsWindow(rows, width) ==
  /\ \A j \in DOMAIN rows : rows[j].id = rows[1].id + 1 - j
  /\ rows # << >> => Len(rows) = IF rows[1].id < width THEN rows[1].id ELSE width

Remembers(kind) ==
  /\ Len(seen[kind]) <= Limit /\ InOrder(seen[kind], Width(kind))
  /\ Range(seen[kind]) \subseteq Known(kind)
  /\ \A row \in Known(kind) : Stored(kind, row) /\ (row \in Range(seen[kind]) \/ Past(kind, row))
\* Nothing that was shown is newer than the snapshot that is being read.
Compares(kind) ==
  LET rows == reader.snap[kind]
  IN Answered(kind) =>
       /\ IsWindow(rows, Width(kind)) /\ \A j \in DOMAIN rows : Stored(kind, rows[j])
       /\ \A row \in Known(kind) :
            /\ rows # << >> /\ row.id <= rows[1].id
            /\ \A j \in DOMAIN rows : row.id = rows[j].id => Rank[row.status] <= Rank[rows[j].status]
            /\ row \in Range(rows) => row \in Range(seen[kind])

ObserverInv ==
  /\ TypeOK
  /\ \A kind \in Kinds : Remembers(kind) /\ Compares(kind)
  /\ reader.initialized \/ first \cup told = {}
  /\ ToldOnce /\ TapeIsExact
=============================================================================
