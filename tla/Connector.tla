----------------------------- MODULE Connector -----------------------------
(***************************************************************************)
(* A connector call of an app in the preview: callTool() on the app server  *)
(* (app-data/client.server.ts), and the hook that waits for the connector   *)
(* token (use-connector-readiness.ts).  Two queries of the page call; the   *)
(* hook waits for the first.  The gate, the preview panel that pushes       *)
(* tokens, and the query library are external.                             *)
(***************************************************************************)
EXTENDS Naturals

CONSTANT MaxToken   \* bound: tokens the panel pushes, all of one user

VARIABLES
  header,    \* the token the proxy puts on requests, 0 for none
  expired,   \* tokens the gate no longer takes
  rejected,  \* rejectedTokenDigest, 0 for null
  memo,      \* failureMemo holds a failure of this user that is younger than its TTL
  call,      \* query -> its call of callTool()
  result,    \* query -> what it got last
  hook       \* the effect of useRefetchWhenConnectorReady

vars == <<header, expired, rejected, memo, call, result, hook>>

Queries == {"main", "other"}
NoHook == [on |-> FALSE, refetching |-> FALSE, probe |-> "over", late |-> FALSE]
NoCall == [at |-> "idle", token |-> 0, status |-> "ok"]

Init ==
  /\ header = 0 /\ expired = {} /\ rejected = 0 /\ memo = FALSE
  /\ call = [q \in Queries |-> NoCall]
  /\ result = [q \in Queries |-> "none"]
  /\ hook = NoHook

\* The panel pushes a fresh token; the gate stops taking one; the memo's TTL runs out.
Push == header < MaxToken /\ header' = header + 1 /\ UNCHANGED <<expired, rejected, memo, call, result, hook>>
Expire == header \notin expired \cup {0} /\ expired' = expired \cup {header} /\ UNCHANGED <<header, rejected, memo, call, result, hook>>
MemoExpires == memo /\ memo' = FALSE /\ UNCHANGED <<header, expired, rejected, call, result, hook>>

----------------------------------------------------------------------------
(* callTool()                                                               *)

\* The result reaches the query.  The effect of the hook follows result = "pending".
Answered(q, r) ==
  /\ result' = [result EXCEPT ![q] = r]
  /\ call' = [call EXCEPT ![q] = NoCall]
  /\ hook' = IF q = "main" /\ r # "pending" THEN NoHook ELSE hook

\* The request, up to the gate: no token, a memoized failure, or a post.
Call(q) ==
  /\ call[q].at = "asked"
  /\ IF header = 0 THEN Answered(q, "pending")
     ELSE IF memo THEN Answered(q, "error")
     ELSE call' = [call EXCEPT ![q].at = "sent", ![q].token = header] /\ UNCHANGED <<result, hook>>
  /\ UNCHANGED <<header, expired, rejected, memo>>

Gate(q, status) ==
  /\ call[q].at = "sent"
  /\ status = "401" <=> call[q].token \in expired
  /\ call' = [call EXCEPT ![q].at = "answered", ![q].status = status]
  /\ UNCHANGED <<header, expired, rejected, memo, result, hook>>

\* Mutant: the token is read again after the await.
HeaderToken(q) == header
Refused(q) == call[q].token

\* The rest of callTool() with the answer, or with the failure of the fetch.
Return(q) ==
  /\ call[q].at = "answered"
  /\ rejected' = CASE call[q].status = "401" -> Refused(q)
                   [] call[q].status \in {"ok", "fail"} /\ rejected = call[q].token -> 0
                   [] OTHER -> rejected
  /\ memo' = (memo \/ call[q].status \in {"fail", "throw"})
  /\ Answered(q, CASE call[q].status = "401" -> "pending" [] call[q].status = "ok" -> "ok" [] OTHER -> "error")
  /\ UNCHANGED <<header, expired>>

----------------------------------------------------------------------------
(* The hook.                                                                *)

Ready == header # 0 /\ header # rejected
\* refetch() joins a call that is under way.
Refetch(q) == call' = [call EXCEPT ![q].at = IF @ = "idle" THEN "asked" ELSE @]

\* The page asks by itself, or the user does.
Ask(q) ==
  /\ call[q].at = "idle" /\ Refetch(q)
  /\ UNCHANGED <<header, expired, rejected, memo, result, hook>>

Mount ==
  /\ result["main"] = "pending" /\ ~hook.on
  /\ hook' = [NoHook EXCEPT !.on = TRUE, !.probe = "timer"]
  /\ UNCHANGED <<header, expired, rejected, memo, call, result>>
Deadline == hook.on /\ ~hook.late /\ hook' = [hook EXCEPT !.late = TRUE] /\ UNCHANGED <<header, expired, rejected, memo, call, result>>

Probe ==
  /\ hook.probe = "timer"
  /\ hook' = [hook EXCEPT !.probe = IF hook.late THEN "over" ELSE "asked"]
  /\ UNCHANGED <<header, expired, rejected, memo, call, result>>

\* Mutant: a probe that finds a refetch under way waits for it to schedule the next.
BusyStops == "over"
Busy == "timer"
\* isConnectorReady() answered, or timed out and says no.
Probed(ready) ==
  /\ hook.probe = "asked"
  /\ ready => Ready
  /\ IF ready /\ ~hook.refetching
     THEN hook' = [hook EXCEPT !.probe = "refetch", !.refetching = TRUE] /\ Refetch("main")
     ELSE hook' = [hook EXCEPT !.probe = IF ready THEN Busy ELSE "timer"] /\ UNCHANGED call
  /\ UNCHANGED <<header, expired, rejected, memo, result>>
\* The bridge event of the preview chrome.
TokenReady ==
  /\ hook.on /\ ~hook.refetching
  /\ hook' = [hook EXCEPT !.refetching = TRUE] /\ Refetch("main")
  /\ UNCHANGED <<header, expired, rejected, memo, result>>
Refetched ==
  /\ hook.refetching /\ call["main"].at = "idle"
  /\ hook' = [hook EXCEPT !.refetching = FALSE, !.probe = IF @ = "refetch" THEN "timer" ELSE @]
  /\ UNCHANGED <<header, expired, rejected, memo, call, result>>

----------------------------------------------------------------------------
Serves(q) == Call(q) \/ (\E status \in {"ok", "401", "fail", "throw"} : Gate(q, status)) \/ Return(q)
Next ==
  \/ Push \/ Expire \/ MemoExpires \/ Mount \/ Deadline \/ TokenReady \/ Probe \/ Refetched
  \/ \E ready \in BOOLEAN : Probed(ready)
  \/ \E q \in Queries : Ask(q) \/ Serves(q)

\* Timers fire, the server answers requests, and the readiness probe gets through now and then.
Fairness ==
  /\ WF_vars(Mount) /\ WF_vars(Probe) /\ WF_vars(Refetched) /\ WF_vars(Probed(FALSE)) /\ SF_vars(Probed(TRUE))
  /\ \A q \in Queries : WF_vars(Serves(q))
Spec == Init /\ [][Next]_vars
FairSpec == Spec /\ Fairness

----------------------------------------------------------------------------
\* A token is held back only when the gate refused that very token, whatever was pushed during the call.
HeldBackIsRefused == rejected # 0 => rejected \in expired

\* A query that waits gets its data, or an error that is not about the token, once the page has a token the
\* gate takes, or else the hook reaches its deadline; events dropped during a refetch do not matter before it.
Loads == <>[](header \notin expired \cup {0}) => [](result["main"] = "pending" ~> result["main"] # "pending" \/ hook.late)

----------------------------------------------------------------------------
(* The inductive invariant of HeldBackIsRefused.                            *)

CallTypeOK == call \in [Queries -> [at : {"idle", "asked", "sent", "answered"}, token : Nat, status : {"ok", "401", "fail", "throw"}]]
\* An answer 401 is about a token that the gate no longer takes, and never will again.
RefusalsAreReal == \A q \in Queries : call[q].at = "answered" /\ call[q].status = "401" => call[q].token \in expired
ConnectorInv == header \in Nat /\ CallTypeOK /\ RefusalsAreReal /\ HeldBackIsRefused
=============================================================================
