---------------------------- MODULE BrokerProjection ----------------------------
(***************************************************************************)
(* How one broker observation advances the durable status of an intent:    *)
(* projectedBrokerStatus of alpaca-worker-store.server.ts, the function    *)
(* recordBrokerOrder applies to every lookup, submit result and trade      *)
(* update.                                                                 *)
(***************************************************************************)

Final == {"FILLED", "REJECTED", "CANCELLED"}
Acknowledged == {"ACCEPTED", "PARTIALLY_FILLED"}
ExecutionStatus == {"PENDING", "SUBMISSION_ATTEMPTED", "UNKNOWN"} \cup Acknowledged \cup Final

\* BrokerOrderState, its identifiers reduced to "does it carry a broker order id or raw status".
BrokerOrderState ==
  [lookup : {"FOUND", "ABSENT", "UNRESOLVED"}, status : ExecutionStatus, identified : BOOLEAN]

\* What submit() returns when the reconciled position already is the target: no order was sent.
NoOrderNeeded(current, seen) ==
  current = "SUBMISSION_ATTEMPTED" /\ seen.status = "CANCELLED" /\ ~seen.identified

FinalRegresses(current, seen) ==
  \/ seen.lookup = "ABSENT" /\ ~NoOrderNeeded(current, seen)
  \/ seen.status \in {"PENDING", "SUBMISSION_ATTEMPTED"}
  \/ seen.status = "UNKNOWN" /\ current \in Acknowledged
AbsenceReopens(current, seen) ==
  \/ current \in Final
  \/ seen.lookup = "UNRESOLVED" /\ seen.status \notin {"REJECTED", "CANCELLED", "UNKNOWN"}
\* The early returns of projectedBrokerStatus that keep the current status.
KeepsStatus(current, seen) ==
  \/ current \in Final
  \/ seen.lookup = "ABSENT" /\ ~NoOrderNeeded(current, seen)
  \/ seen.status \in {"PENDING", "SUBMISSION_ATTEMPTED"}
  \/ seen.status = "UNKNOWN" /\ current \in Acknowledged
  \/ seen.lookup = "UNRESOLVED" /\ seen.status \notin {"REJECTED", "CANCELLED", "UNKNOWN"}
  \/ seen.lookup = "UNRESOLVED" /\ current \in Acknowledged
  \/ seen.status = "ACCEPTED" /\ current = "PARTIALLY_FILLED"

ProjectedStatus(current, seen) == IF KeepsStatus(current, seen) THEN current ELSE seen.status
=============================================================================
