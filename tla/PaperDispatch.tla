------------------------------ MODULE PaperDispatch ------------------------------
(***************************************************************************)
(* The order path of the Alpaca PAPER worker: one worker key, several runs *)
(* of it one after another (or, after a lease expires, side by side), the  *)
(* durable intents, and the broker at the other end of an HTTP connection. *)
(*                                                                         *)
(* A run is a Node process: between two awaits nothing else of the same    *)
(* run happens, at an await everything may.  Its concurrent handlers are   *)
(* the activities: "bars" (the serialized bar queue), "updates" (trade     *)
(* update callbacks) and the reconcilers (start(), and reconcile() called  *)
(* by either stream's recovery or by the operator).  One action is the     *)
(* effect of one store statement or broker call together with the local    *)
(* code up to the next await.  A paused process is one that takes no step. *)
(***************************************************************************)
EXTENDS WorkerLease, BrokerProjection, Integers, FiniteSets

CONSTANTS
  Intents,        \* decisions that may become intents; the client order id is the intent
  Longs,          \* the intents whose desiredPosition is 1, the others' is 0
  Reconcilers,    \* reconcile() calls of one run that may overlap
  MaxReconciles,  \* bound: reconcile() calls of a run after its start()
  GatewayErrors,  \* whether something between worker and broker may answer a POST with an error
  NoIntent,       \* "no intent": an activity that handles none
  NoOne           \* "nobody waits for this reply": a request whose caller gave up or died

ASSUME DispatchAssumption ==
  /\ Longs \subseteq Intents /\ NoIntent \notin Intents
  /\ Reconcilers \cap {"bars", "updates"} = {}
  /\ MaxReconciles \in Nat /\ GatewayErrors \in BOOLEAN
  /\ NoOne \notin Runs \X ({"bars", "updates"} \cup Reconcilers)

Kinds == {"bars", "updates"} \cup Reconcilers
Activities == Runs \X Kinds
Run(a) == a[1]
Kind(a) == a[2]
Desired(i) == IF i \in Longs THEN 1 ELSE 0

VARIABLES
  intent,      \* execution_intents.status, "NONE" before the row exists
  order,       \* the broker's order for the client order id
  quantity,    \* its signed quantity
  position,    \* the broker's position
  requests,    \* POSTs on the way to the broker, or answered and on the way back
  state,       \* AlpacaPaperWorker.state, "DOWN" without a process
  owns,        \* AlpacaPaperWorker.ownership is not null
  stopped,     \* AlpacaPaperWorker.stopped
  started,     \* start() reached its end: streams connected
  uncertain,   \* AlpacaPaperExecution.uncertainClientOrderIds
  reconciles,  \* reconcile() calls so far, for MaxReconciles
  pc,          \* where an activity waits
  handled,     \* the intent its dispatch or reconcile iteration is about
  local,       \* its local variables: position read, observation read, intents listed,
               \* whether the halt() it is in was awaited by dispatch(), which then returns
  posts,       \* history: POSTs sent for the intent
  rewound      \* history: an unfenced putIntent overwrote a row that had left PENDING

brokerVars == <<order, quantity, position, requests>>
memVars == <<state, owns, stopped, started, uncertain, reconciles>>
jobVars == <<pc, handled, local>>
historyVars == <<posts, rewound>>
vars == <<storeVars, intent, brokerVars, memVars, jobVars, historyVars>>

Rows == ExecutionStatus \cup {"NONE"}
OrderStates == {"NONE", "ACCEPTED", "FILLED", "CANCELLED"}
WorkerStates == {"DOWN", "STARTING", "RECONCILING", "READY", "HALTED"}
Labels ==
  {"idle", "acquire", "row", "equity", "list", "next", "note", "confirm", "save", "ready", "connect",
   "enter", "orders", "putStale", "putBack", "lookup", "noteBefore", "claim", "guard", "submit",
   "posted", "threw", "noteAfter", "persist", "haltRow", "haltSave", "haltRelease"}
AboutAnIntent ==
  {"note", "enter", "orders", "putStale", "putBack", "lookup", "noteBefore", "claim", "guard",
   "submit", "posted", "noteAfter"}

Nothing == [lookup |-> "ABSENT", status |-> "PENDING", identified |-> FALSE]
NoLocals ==
  [snapshot |-> 0, seen |-> Nothing, listed |-> [i \in Intents |-> "NONE"], resumes |-> FALSE]

Init ==
  /\ LeaseInit
  /\ intent = [i \in Intents |-> "NONE"]
  /\ order = [i \in Intents |-> "NONE"]
  /\ quantity = [i \in Intents |-> 0]
  /\ position = 0
  /\ requests = {}
  /\ state = [r \in Runs |-> "DOWN"]
  /\ owns = [r \in Runs |-> FALSE]
  /\ stopped = [r \in Runs |-> FALSE]
  /\ started = [r \in Runs |-> FALSE]
  /\ uncertain = [r \in Runs |-> {}]
  /\ reconciles = [r \in Runs |-> 0]
  /\ pc = [a \in Activities |-> "idle"]
  /\ handled = [a \in Activities |-> NoIntent]
  /\ local = [a \in Activities |-> NoLocals]
  /\ posts = [i \in Intents |-> 0]
  /\ rewound = [i \in Intents |-> FALSE]

----------------------------------------------------------------------------
(* What handlers share: control, failure, loss of ownership.                *)

Goto(a, label) == pc' = [pc EXCEPT ![a] = label] /\ UNCHANGED <<handled, local>>
GotoWith(a, label, l) ==
  pc' = [pc EXCEPT ![a] = label] /\ local' = [local EXCEPT ![a] = l] /\ UNCHANGED handled
\* The handler returned: its local variables are gone.
Done(a) ==
  /\ pc' = [pc EXCEPT ![a] = "idle"]
  /\ handled' = [handled EXCEPT ![a] = NoIntent]
  /\ local' = [local EXCEPT ![a] = NoLocals]
\* dispatch() returned: to the checkpoint write of the bar, or to the reconcile loop.
DispatchReturns(a) == Goto(a, IF Kind(a) = "bars" THEN "persist" ELSE "next")

StoreUnchanged == UNCHANGED storeVars
MemUnchanged == UNCHANGED memVars
WorldUnchanged == UNCHANGED <<intent, brokerVars, historyVars>>

\* loseOwnership: the run stops locally and tries to end its row; the lease row is not touched.
LoseOwnership(r) ==
  /\ owns' = [owns EXCEPT ![r] = FALSE]
  /\ stopped' = [stopped EXCEPT ![r] = owns[r] \/ state[r] # "HALTED" \/ @]
  /\ state' = [state EXCEPT ![r] = "HALTED"]
  /\ \/ MayUpdateRun(r, "HALTED") /\ runState' = [runState EXCEPT ![r] = "HALTED"]
     \/ ~MayUpdateRun(r, "HALTED") /\ UNCHANGED runState
  /\ UNCHANGED <<leaseVars, runToken, checkpoint, started, uncertain, reconciles>>

\* halt: without ownership it is loseOwnership; otherwise the row, the checkpoint and the lease follow.
Halt(a) ==
  \/ ~owns[Run(a)] /\ LoseOwnership(Run(a)) /\ Done(a)
  \/ /\ owns[Run(a)]
     /\ state' = [state EXCEPT ![Run(a)] = "HALTED"]
     /\ Goto(a, "haltRow")
     /\ UNCHANGED <<owns, stopped, started, uncertain, reconciles>>
     /\ StoreUnchanged

\* A handler threw: its catch halts the worker; that of start() and reconcile() checks stopped first.
Throw(a) ==
  \/ /\ Kind(a) \in Reconcilers /\ stopped[Run(a)]
     /\ Done(a) /\ MemUnchanged /\ StoreUnchanged
  \/ ~(Kind(a) \in Reconcilers /\ stopped[Run(a)]) /\ Halt(a)

\* loseOwnership followed by a throw: nothing is left to halt.
LoseAndThrow(a) == LoseOwnership(Run(a)) /\ Done(a)

\* persistCheckpoint, then the label: throws without ownership, loses it if the write is fenced off.
PersistUnfenced(a, continue) ==
  \/ ~owns[Run(a)] /\ Throw(a)
  \/ /\ owns[Run(a)] /\ continue
     /\ checkpoint' = runToken[Run(a)] /\ UNCHANGED <<leaseVars, runState, runToken>>
PersistThen(a, continue) ==
  \/ ~owns[Run(a)] /\ Throw(a)
  \/ owns[Run(a)] /\ ~Holds(Run(a)) /\ LoseAndThrow(a)
  \/ owns[Run(a)] /\ WriteCheckpointOwned(Run(a)) /\ continue

\* recordBrokerOrder takes the lease row lock and finds the credential current.
MayRecord(r) == RowUnlocked /\ Holds(r)
RecordRefused(r) == RowUnlocked /\ ~Holds(r)
Record(i, seen) == intent' = [intent EXCEPT ![i] = ProjectedStatus(@, seen)]

(* AlpacaPaperExecution.reconcile: the order if the broker has it; if not,  *)
(* the caller's own status, or UNKNOWN for an uncertain submission.         *)
Found(status) == [lookup |-> "FOUND", status |-> status, identified |-> TRUE]
Missing(lookup, status) == [lookup |-> lookup, status |-> status, identified |-> FALSE]
LookUp(r, i, status) ==
  IF order[i] # "NONE" THEN Found(order[i])
  ELSE Missing("ABSENT", IF status = "UNKNOWN" \/ i \in uncertain[r] THEN "UNKNOWN" ELSE status)
Remembered(r, i) ==
  uncertain' = [uncertain EXCEPT ![r] = IF order[i] # "NONE" THEN @ \ {i} ELSE @]

----------------------------------------------------------------------------
(* start(): a new run row, the lease, then reconcileInternal.               *)

Start(a) ==
  /\ Kind(a) \in Reconcilers /\ state[Run(a)] = "DOWN"
  /\ CreateRun(Run(a))
  /\ state' = [state EXCEPT ![Run(a)] = "STARTING"]
  /\ Goto(a, "acquire")
  /\ UNCHANGED <<owns, stopped, started, uncertain, reconciles>>
  /\ WorldUnchanged

TakeLease(a) ==
  /\ pc[a] = "acquire"
  /\ Acquire(Run(a))
  /\ owns' = [owns EXCEPT ![Run(a)] = TRUE]
  /\ state' = [state EXCEPT ![Run(a)] = "RECONCILING"]
  /\ Goto(a, "row")
  /\ UNCHANGED <<stopped, started, uncertain, reconciles>>
  /\ WorldUnchanged

\* acquireOwnership returned null: a live owner exists.  The updateRun is not in a try block.
LeaseRefused(a) ==
  /\ pc[a] = "acquire"
  /\ ttl > 0 /\ RowUnlocked
  /\ state' = [state EXCEPT ![Run(a)] = "HALTED"]
  /\ \/ UpdateRun(Run(a), "HALTED")
     \/ ~MayUpdateRun(Run(a), "HALTED") /\ StoreUnchanged
  /\ Done(a)
  /\ UNCHANGED <<owns, stopped, started, uncertain, reconciles>>
  /\ WorldUnchanged

----------------------------------------------------------------------------
(* reconcileInternal                                                        *)

\* reconcile(), called after start() by a stream recovery or by the operator.
Reconcile(a) ==
  /\ Kind(a) \in Reconcilers /\ pc[a] = "idle"
  /\ started[Run(a)] /\ state[Run(a)] # "HALTED" /\ ~stopped[Run(a)]
  /\ reconciles[Run(a)] < MaxReconciles
  /\ reconciles' = [reconciles EXCEPT ![Run(a)] = @ + 1]
  /\ state' = [state EXCEPT ![Run(a)] = "RECONCILING"]
  /\ Goto(a, "row")
  /\ UNCHANGED <<owns, stopped, started, uncertain>>
  /\ StoreUnchanged /\ WorldUnchanged

RowReconciling(a) ==
  /\ pc[a] = "row"
  /\ \/ UpdateRun(Run(a), "RECONCILING") /\ Goto(a, "equity") /\ MemUnchanged
     \/ ~MayUpdateRun(Run(a), "RECONCILING") /\ LoseAndThrow(a)
  /\ WorldUnchanged

\* refreshPaperEquity: the high-water is persisted before any broker command.
SaveEquity(a) ==
  /\ pc[a] = "equity"
  /\ PersistThen(a, Goto(a, "list") /\ MemUnchanged)
  /\ WorldUnchanged

\* position, open orders and listIntents; every open order has a listed intent.
ListIntents(a) ==
  /\ pc[a] = "list"
  /\ \/ stopped[Run(a)] /\ Done(a)
     \/ /\ ~stopped[Run(a)]
        /\ GotoWith(a, "next",
             [local[a] EXCEPT !.listed =
                [i \in Intents |-> IF intent[i] \in Final THEN "NONE" ELSE intent[i]]])
  /\ MemUnchanged /\ StoreUnchanged /\ WorldUnchanged

MarkerIgnored(stored, seen) == FALSE
\* An absent order is not permission to post again.
MarkerBlocks(stored, seen) == stored = "SUBMISSION_ATTEMPTED" /\ seen.lookup = "ABSENT"

\* The next non-terminal intent of the listing is looked up by its client order id.
LookUpListed(a, i) ==
  LET stored == local[a].listed[i]
      seen == LookUp(Run(a), i, stored)
  IN
  /\ pc[a] = "next" /\ stored # "NONE"
  /\ \/ MarkerBlocks(stored, seen) /\ Throw(a)
     \/ /\ ~MarkerBlocks(stored, seen)
        /\ pc' = [pc EXCEPT ![a] = "note"]
        /\ handled' = [handled EXCEPT ![a] = i]
        /\ local' = [local EXCEPT ![a].seen = seen, ![a].listed[i] = "NONE"]
        /\ Remembered(Run(a), i)
        /\ UNCHANGED <<state, owns, stopped, started, reconciles>>
        /\ StoreUnchanged
  /\ WorldUnchanged

NoteListed(a) ==
  LET seen == local[a].seen IN
  /\ pc[a] = "note"
  /\ \/ (~owns[Run(a)] \/ RecordRefused(Run(a))) /\ Throw(a) /\ UNCHANGED intent
     \/ /\ owns[Run(a)] /\ MayRecord(Run(a))
        /\ Record(handled[a], seen)
        /\ \/ seen.status = "UNKNOWN" /\ Throw(a)
           \/ /\ seen.status # "UNKNOWN"
              /\ Goto(a, IF seen.lookup = "ABSENT" /\ seen.status = "PENDING" THEN "enter" ELSE "next")
              /\ MemUnchanged /\ StoreUnchanged
  /\ UNCHANGED <<brokerVars, historyVars>>

\* The loop is over.  start() confirms its lease before READY, reconcile() does not.
LoopEnds(a) ==
  /\ pc[a] = "next" /\ \A i \in Intents : local[a].listed[i] = "NONE"
  /\ \/ stopped[Run(a)] /\ Done(a) /\ MemUnchanged
     \/ ~stopped[Run(a)] /\ ~started[Run(a)] /\ Goto(a, "confirm") /\ MemUnchanged
     \/ /\ ~stopped[Run(a)] /\ started[Run(a)]
        /\ state' = [state EXCEPT ![Run(a)] = "READY"]
        /\ Goto(a, "save")
        /\ UNCHANGED <<owns, stopped, started, uncertain, reconciles>>
  /\ StoreUnchanged /\ WorldUnchanged

\* confirmCurrentOwnership
Confirm(a) ==
  /\ pc[a] = "confirm"
  /\ \/ (~owns[Run(a)] \/ stopped[Run(a)]) /\ Done(a) /\ MemUnchanged /\ StoreUnchanged
     \/ /\ owns[Run(a)] /\ ~stopped[Run(a)] /\ RowUnlocked /\ ~Holds(Run(a))
        /\ LoseAndThrow(a)
     \/ /\ owns[Run(a)] /\ ~stopped[Run(a)] /\ Renew(Run(a))
        /\ state' = [state EXCEPT ![Run(a)] = "READY"]
        /\ Goto(a, "save")
        /\ UNCHANGED <<owns, stopped, started, uncertain, reconciles>>
  /\ WorldUnchanged

SaveReady(a) ==
  /\ pc[a] = "save"
  /\ PersistThen(a, Goto(a, "ready") /\ MemUnchanged)
  /\ WorldUnchanged

RowReady(a) ==
  /\ pc[a] = "ready"
  /\ \/ /\ UpdateRun(Run(a), "READY")
        /\ IF started[Run(a)] THEN Done(a) ELSE Goto(a, "connect")
        /\ MemUnchanged
     \/ ~MayUpdateRun(Run(a), "READY") /\ Throw(a)
  /\ WorldUnchanged

\* The second confirmCurrentOwnership of start(), then both streams are connected.
Connect(a) ==
  /\ pc[a] = "connect"
  /\ \/ (~owns[Run(a)] \/ stopped[Run(a)]) /\ Done(a) /\ MemUnchanged /\ StoreUnchanged
     \/ /\ owns[Run(a)] /\ ~stopped[Run(a)] /\ RowUnlocked /\ ~Holds(Run(a))
        /\ LoseAndThrow(a)
     \/ /\ owns[Run(a)] /\ ~stopped[Run(a)] /\ Renew(Run(a))
        /\ started' = [started EXCEPT ![Run(a)] = TRUE]
        /\ Done(a)
        /\ UNCHANGED <<state, owns, stopped, uncertain, reconciles>>
  /\ WorldUnchanged

----------------------------------------------------------------------------
(* A closed decision bar: evidence and intent in one insert-once            *)
(* transaction.  It is not fenced.                                          *)

Decide(a, i) ==
  /\ Kind(a) = "bars" /\ pc[a] = "idle" /\ started[Run(a)]
  /\ intent[i] = "NONE"
  /\ \/ \* dispatchBlockReasonFor is null
        /\ state[Run(a)] = "READY" /\ owns[Run(a)]
        /\ intent' = [intent EXCEPT ![i] = "PENDING"]
        /\ pc' = [pc EXCEPT ![a] = "enter"]
     \/ \* blocked: the intent is born terminal
        /\ state[Run(a)] # "HALTED"
        /\ intent' = [intent EXCEPT ![i] = "CANCELLED"]
        /\ pc' = [pc EXCEPT ![a] = "persist"]
  /\ handled' = [handled EXCEPT ![a] = i]
  /\ UNCHANGED local
  /\ StoreUnchanged /\ MemUnchanged /\ UNCHANGED <<brokerVars, historyVars>>

\* The checkpoint write after a bar or a trade update.
Persist(a) ==
  /\ pc[a] = "persist"
  /\ PersistThen(a, Done(a) /\ MemUnchanged)
  /\ WorldUnchanged

----------------------------------------------------------------------------
(* dispatch(intent), with the PENDING intent its caller holds in memory     *)

StaleBar(a) ==
  /\ pc[a] = "enter"
  /\ Goto(a, "putStale")
  /\ MemUnchanged /\ StoreUnchanged /\ WorldUnchanged

ReadPosition(a) ==
  /\ pc[a] = "enter"
  /\ GotoWith(a, "orders", [local[a] EXCEPT !.snapshot = position])
  /\ MemUnchanged /\ StoreUnchanged /\ WorldUnchanged

ReadOpenOrders(a) ==
  /\ pc[a] = "orders"
  /\ Goto(a, IF \E i \in Intents : order[i] = "ACCEPTED" THEN "putBack" ELSE "lookup")
  /\ MemUnchanged /\ StoreUnchanged /\ WorldUnchanged

\* putIntent: an unconditional upsert of the status the caller has in memory, without the lease.
PutIntent(a) ==
  /\ pc[a] \in {"putStale", "putBack"}
  /\ intent' = [intent EXCEPT ![handled[a]] = IF pc[a] = "putStale" THEN "CANCELLED" ELSE "PENDING"]
  /\ rewound' = [rewound EXCEPT ![handled[a]] = @ \/ intent[handled[a]] # "PENDING"]
  /\ DispatchReturns(a)
  /\ MemUnchanged /\ StoreUnchanged /\ UNCHANGED <<brokerVars, posts>>

LookUpBefore(a) ==
  /\ pc[a] = "lookup"
  /\ GotoWith(a, "noteBefore", [local[a] EXCEPT !.seen = LookUp(Run(a), handled[a], "PENDING")])
  /\ Remembered(Run(a), handled[a])
  /\ UNCHANGED <<state, owns, stopped, started, reconciles>>
  /\ StoreUnchanged /\ WorldUnchanged

NoteBefore(a) ==
  LET seen == local[a].seen IN
  /\ pc[a] = "noteBefore"
  /\ \/ (~owns[Run(a)] \/ RecordRefused(Run(a))) /\ Throw(a) /\ UNCHANGED intent
     \/ /\ owns[Run(a)] /\ MayRecord(Run(a))
        /\ Record(handled[a], seen)
        /\ IF seen.lookup = "FOUND" \/ seen.status # "PENDING"
             THEN DispatchReturns(a)
             ELSE Goto(a, "claim")
        /\ MemUnchanged /\ StoreUnchanged
  /\ UNCHANGED <<brokerVars, historyVars>>

AcceptedTooEarly == "ACCEPTED"
OutsideTheCheckConstraint == "SUBMITTED"
\* The durable pre-POST marker
Marker == "SUBMISSION_ATTEMPTED"

ClaimUnconditionally(r, i) == Holds(r)
\* claimIntentForDispatch's where clause
MayClaim(r, i) == Holds(r) /\ intent[i] = "PENDING"

Claim(a) ==
  /\ pc[a] = "claim"
  /\ \/ /\ MayClaim(Run(a), handled[a])
        /\ intent' = [intent EXCEPT ![handled[a]] = Marker]
        /\ Goto(a, "guard")
        /\ MemUnchanged /\ StoreUnchanged
     \/ ~MayClaim(Run(a), handled[a]) /\ LoseAndThrow(a) /\ UNCHANGED intent
  /\ UNCHANGED <<brokerVars, historyVars>>

\* withDispatchAuthority locks the lease row and requires the durable marker.
EnterGuard(a) ==
  /\ pc[a] = "guard"
  /\ \/ /\ LockForSubmit(Run(a)) /\ intent[handled[a]] = Marker
        /\ Goto(a, "submit") /\ MemUnchanged
     \/ /\ RowUnlocked /\ (~Holds(Run(a)) \/ intent[handled[a]] # Marker)
        /\ LoseAndThrow(a)
  /\ WorldUnchanged

\* submit() returns a state: the guard's transaction commits.
SubmitReturns(a, seen) ==
  /\ GotoWith(a, "noteAfter", [local[a] EXCEPT !.seen = seen])
  /\ CommitSubmit(Run(a))

\* submit() sends nothing when the position it was given already is the target.
AtTarget(i, snapshot) == Desired(i) = snapshot

\* AlpacaPaperExecution.submit up to its POST: the order or an uncertainty ends it first.
Submit(a) ==
  LET i == handled[a]
      seen == LookUp(Run(a), i, "PENDING")
      delta == Desired(i) - local[a].snapshot
  IN
  /\ pc[a] = "submit"
  /\ Remembered(Run(a), i)
  /\ \/ /\ seen.lookup = "FOUND" \/ seen.status = "UNKNOWN"
        /\ SubmitReturns(a, seen)
        /\ UNCHANGED <<requests, posts>>
     \/ /\ seen.lookup = "ABSENT" /\ seen.status = "PENDING" /\ AtTarget(i, local[a].snapshot)
        /\ SubmitReturns(a, Missing("ABSENT", "CANCELLED"))
        /\ UNCHANGED <<requests, posts>>
     \/ /\ seen.lookup = "ABSENT" /\ seen.status = "PENDING" /\ ~AtTarget(i, local[a].snapshot)
        /\ posts' = [posts EXCEPT ![i] = @ + 1]
        /\ requests' = requests \cup {[by |-> a, about |-> i, delta |-> delta, at |-> "sent"]}
        /\ Goto(a, "posted")
        /\ StoreUnchanged
  /\ UNCHANGED <<state, owns, stopped, started, reconciles, intent, order, quantity, position, rewound>>

\* Nobody waits for these requests any more.  An answer is lost; a POST still on its way may arrive.
LeftBehind(callers) ==
  {q \in requests : q.by \notin callers} \cup
  {[q EXCEPT !.by = NoOne] : q \in {p \in requests : p.by \in callers /\ p.at = "sent"}}

PostAnswered(a) ==
  /\ pc[a] = "posted"
  /\ \E q \in requests :
       /\ q.by = a
       /\ \/ q.at = "accepted" /\ SubmitReturns(a, Found("ACCEPTED"))
          \/ q.at = "refused" /\ SubmitReturns(a, Missing("UNRESOLVED", "REJECTED"))
          \/ \* 401 or 403: submit() throws
             q.at = "refused" /\ RollbackSubmit(Run(a)) /\ Goto(a, "threw")
       /\ requests' = requests \ {q}
  /\ MemUnchanged /\ UNCHANGED <<intent, order, quantity, position, historyVars>>

RejectedOnTimeout == "REJECTED"
\* What submit() returns when it cannot know.
TimeoutStatus == "UNKNOWN"

NeverGivesUp(a) == FALSE
\* The 25 second limit of a POST, or its connection broke.
GivesUp(a) == pc[a] = "posted"

PostUnanswered(a) ==
  /\ GivesUp(a)
  /\ SubmitReturns(a, Missing("UNRESOLVED", TimeoutStatus))
  /\ uncertain' = [uncertain EXCEPT ![Run(a)] = @ \cup {handled[a]}]
  /\ requests' = LeftBehind({a})
  /\ UNCHANGED <<state, owns, stopped, started, reconciles, intent, order, quantity, position, historyVars>>

\* Any other HTTP status is recorded as a rejection, whoever it came from: a gateway may answer
\* 502 or 504 for a POST that the broker has or will accept.
PostAnsweredByGateway(a) ==
  /\ GatewayErrors
  /\ pc[a] = "posted"
  /\ SubmitReturns(a, Missing("UNRESOLVED", "REJECTED"))
  /\ requests' = LeftBehind({a})
  /\ MemUnchanged /\ UNCHANGED <<intent, order, quantity, position, historyVars>>

NoteAfter(a) ==
  LET seen == local[a].seen IN
  /\ pc[a] = "noteAfter"
  /\ \/ (~owns[Run(a)] \/ RecordRefused(Run(a))) /\ Throw(a) /\ UNCHANGED intent
     \/ /\ owns[Run(a)] /\ MayRecord(Run(a))
        /\ Record(handled[a], seen)
        /\ \/ /\ seen.status = "UNKNOWN"
              /\ state' = [state EXCEPT ![Run(a)] = "HALTED"]
              /\ GotoWith(a, "haltRow", [local[a] EXCEPT !.resumes = TRUE])
              /\ UNCHANGED <<owns, stopped, started, uncertain, reconciles>>
              /\ StoreUnchanged
           \/ seen.status # "UNKNOWN" /\ DispatchReturns(a) /\ MemUnchanged /\ StoreUnchanged
  /\ UNCHANGED <<brokerVars, historyVars>>

----------------------------------------------------------------------------
(* halt(), after its synchronous part.  Awaited by a catch block it ends    *)
(* the handler; awaited by dispatch() it returns or throws into it.         *)

HaltRow(a) ==
  /\ pc[a] = "haltRow"
  /\ \/ UpdateRun(Run(a), "HALTED") /\ Goto(a, "haltSave")
     \/ ~MayUpdateRun(Run(a), "HALTED") /\ Goto(a, "haltRelease") /\ StoreUnchanged
  /\ MemUnchanged /\ WorldUnchanged

\* Ownership lost here is not released: the lease is somebody else's or has expired.
HaltSave(a) ==
  /\ pc[a] = "haltSave"
  /\ \/ ~owns[Run(a)] /\ local[a].resumes /\ Throw(a)
     \/ ~owns[Run(a)] /\ ~local[a].resumes /\ Done(a) /\ MemUnchanged /\ StoreUnchanged
     \/ owns[Run(a)] /\ WriteCheckpointOwned(Run(a)) /\ Goto(a, "haltRelease") /\ MemUnchanged
     \/ owns[Run(a)] /\ ~Holds(Run(a)) /\ LoseAndThrow(a)
  /\ WorldUnchanged

HaltRelease(a) ==
  /\ pc[a] = "haltRelease"
  /\ \/ owns[Run(a)] /\ Release(Run(a))
     \/ (~owns[Run(a)] \/ owner # Run(a)) /\ StoreUnchanged
  /\ owns' = [owns EXCEPT ![Run(a)] = FALSE]
  /\ IF local[a].resumes THEN DispatchReturns(a) ELSE Done(a)
  /\ UNCHANGED <<state, stopped, started, uncertain, reconciles>>
  /\ WorldUnchanged

----------------------------------------------------------------------------
(* Callbacks, failures and the outside                                      *)

\* A trade update, late or repeated or out of order: any state the order has been in.
WasIn(i, status) ==
  /\ order[i] # "NONE"
  /\ status \in {"ACCEPTED", order[i]}

TradeUpdate(a, i, status) ==
  /\ Kind(a) = "updates" /\ pc[a] = "idle" /\ started[Run(a)]
  /\ owns[Run(a)] /\ ~stopped[Run(a)] /\ state[Run(a)] # "HALTED"
  /\ WasIn(i, status)
  /\ \/ /\ MayRecord(Run(a))
        /\ Record(i, Found(status))
        /\ Goto(a, "persist") /\ MemUnchanged /\ StoreUnchanged
     \/ RecordRefused(Run(a)) /\ Throw(a) /\ UNCHANGED intent
  /\ UNCHANGED <<brokerVars, historyVars>>

\* The renewal timer
RenewTimer(r) ==
  /\ owns[r] /\ ~stopped[r] /\ state[r] # "HALTED"
  /\ \/ Renew(r) /\ MemUnchanged
     \/ RowUnlocked /\ ~Holds(r) /\ LoseOwnership(r)
  /\ UNCHANGED jobVars /\ WorldUnchanged

\* A broker read fails (network, HTTP status, invalid body): the handler throws.
ReadFails(a) ==
  /\ \/ pc[a] \in {"list", "enter", "orders", "lookup"}
     \/ pc[a] = "next" /\ \E i \in Intents : local[a].listed[i] # "NONE"
  /\ Throw(a)
  /\ WorldUnchanged

\* The lookup inside the guard fails: submit() throws, the database rolls back, the marker stays.
SubmitLookupFails(a) ==
  /\ pc[a] = "submit"
  /\ RollbackSubmit(Run(a))
  /\ Goto(a, "threw")
  /\ MemUnchanged /\ WorldUnchanged

SubmitThrew(a) ==
  /\ pc[a] = "threw"
  /\ Throw(a)
  /\ WorldUnchanged

\* The process dies: the database rolls its transaction back, its POST may still be on its way.
Crash(r) ==
  /\ state[r] # "DOWN"
  /\ \/ RollbackSubmit(r)
     \/ locker # r /\ StoreUnchanged
  /\ state' = [state EXCEPT ![r] = "DOWN"]
  /\ owns' = [owns EXCEPT ![r] = FALSE]
  /\ stopped' = [stopped EXCEPT ![r] = FALSE]
  /\ started' = [started EXCEPT ![r] = FALSE]
  /\ uncertain' = [uncertain EXCEPT ![r] = {}]
  /\ pc' = [a \in Activities |-> IF Run(a) = r THEN "idle" ELSE pc[a]]
  /\ handled' = [a \in Activities |-> IF Run(a) = r THEN NoIntent ELSE handled[a]]
  /\ local' = [a \in Activities |-> IF Run(a) = r THEN NoLocals ELSE local[a]]
  /\ requests' = LeftBehind({r} \X Kinds)
  /\ UNCHANGED <<reconciles, intent, order, quantity, position, historyVars>>

\* The broker takes one order per client order id, and may refuse any.
Arrive(q) ==
  /\ q.at = "sent"
  /\ \/ /\ order[q.about] = "NONE"
        /\ order' = [order EXCEPT ![q.about] = "ACCEPTED"]
        /\ quantity' = [quantity EXCEPT ![q.about] = q.delta]
        /\ requests' = (requests \ {q}) \cup {p \in {[q EXCEPT !.at = "accepted"]} : p.by # NoOne}
     \/ /\ requests' = (requests \ {q}) \cup {p \in {[q EXCEPT !.at = "refused"]} : p.by # NoOne}
        /\ UNCHANGED <<order, quantity>>
  /\ UNCHANGED <<storeVars, intent, position, memVars, jobVars, historyVars>>

\* A request that never reaches the broker.
LoseRequest(q) ==
  /\ q.at = "sent"
  /\ requests' = requests \ {q}
  /\ UNCHANGED <<storeVars, intent, order, quantity, position, memVars, jobVars, historyVars>>

\* An open order fills, or is cancelled or expires.
SettleOrder(i) ==
  /\ order[i] = "ACCEPTED"
  /\ \/ /\ order' = [order EXCEPT ![i] = "FILLED"]
        /\ position' = position + quantity[i]
     \/ order' = [order EXCEPT ![i] = "CANCELLED"] /\ UNCHANGED position
  /\ UNCHANGED <<storeVars, intent, quantity, requests, memVars, jobVars, historyVars>>

TimePasses ==
  /\ Tick
  /\ UNCHANGED <<intent, brokerVars, memVars, jobVars, historyVars>>

Dispatch(a) ==
  \/ StaleBar(a) \/ ReadPosition(a) \/ ReadOpenOrders(a) \/ PutIntent(a)
  \/ LookUpBefore(a) \/ NoteBefore(a) \/ Claim(a) \/ EnterGuard(a) \/ Submit(a)
  \/ PostAnswered(a) \/ PostUnanswered(a) \/ PostAnsweredByGateway(a) \/ NoteAfter(a)
  \/ SubmitLookupFails(a) \/ SubmitThrew(a)

ReconcileLoop(a) ==
  \/ Start(a) \/ TakeLease(a) \/ LeaseRefused(a) \/ Reconcile(a) \/ RowReconciling(a)
  \/ SaveEquity(a) \/ ListIntents(a) \/ (\E i \in Intents : LookUpListed(a, i)) \/ NoteListed(a)
  \/ LoopEnds(a) \/ Confirm(a) \/ SaveReady(a) \/ RowReady(a) \/ Connect(a)

Next ==
  \/ \E a \in Activities : Dispatch(a)
  \/ \E a \in Activities : ReconcileLoop(a)
  \/ \E a \in Activities, i \in Intents : Decide(a, i)
  \/ \E a \in Activities : Persist(a)
  \/ \E a \in Activities : HaltRow(a) \/ HaltSave(a) \/ HaltRelease(a)
  \/ \E a \in Activities, i \in Intents, s \in OrderStates : TradeUpdate(a, i, s)
  \/ \E a \in Activities : ReadFails(a)
  \/ \E r \in Runs : RenewTimer(r)
  \/ \E r \in Runs : Crash(r)
  \/ \E q \in requests : Arrive(q) \/ LoseRequest(q)
  \/ \E i \in Intents : SettleOrder(i)
  \/ TimePasses

Spec == Init /\ [][Next]_vars

(* The event loop runs every handler whose await has settled, and every     *)
(* broker call of the guarded section carries a 25 second abort signal, so  *)
(* a dispatch that can go on does.  Streams, the operator, restarts, the    *)
(* clock and the broker owe nothing.                                        *)
FairSpec == Spec /\ \A a \in Activities : WF_vars(Dispatch(a))

----------------------------------------------------------------------------
Requests == [by : Activities \cup {NoOne}, about : Intents, delta : Int, at : {"sent", "accepted", "refused"}]
Locals ==
  [snapshot : Int, seen : BrokerOrderState, listed : [Intents -> Rows], resumes : BOOLEAN]

WorldTypeOK ==
  /\ intent \in [Intents -> Rows]
  /\ order \in [Intents -> OrderStates]
  /\ quantity \in [Intents -> Int] /\ position \in Int
  /\ requests \subseteq Requests
  /\ posts \in [Intents -> Nat]
  /\ rewound \in [Intents -> BOOLEAN]

MemTypeOK ==
  /\ state \in [Runs -> WorkerStates]
  /\ owns \in [Runs -> BOOLEAN] /\ stopped \in [Runs -> BOOLEAN] /\ started \in [Runs -> BOOLEAN]
  /\ uncertain \in [Runs -> SUBSET Intents]
  /\ reconciles \in [Runs -> Nat]

JobTypeOK ==
  /\ pc \in [Activities -> Labels]
  /\ handled \in [Activities -> Intents \cup {NoIntent}]
  /\ local \in [Activities -> Locals]
  /\ \A a \in Activities : pc[a] \in AboutAnIntent => handled[a] \in Intents

(* Type invariant; the last conjunct of JobTypeOK says that a handler which *)
(* is about an intent knows which one.                                      *)
TypeOK == LeaseTypeOK /\ WorldTypeOK /\ MemTypeOK /\ JobTypeOK

(* No intent is POSTed twice, by whatever runs, crashes, timeouts and       *)
(* reconciliations handle it, unless the unfenced putIntent of dispatch()   *)
(* has written over a status that had already left PENDING.                 *)
AtMostOncePost == \A i \in Intents : posts[i] > 1 => rewound[i]

(* A POST is awaited only by the run that owns the lease, and by one        *)
(* activity at a time: neither an expired owner nor the other handlers of   *)
(* the same process are inside withDispatchAuthority with it.               *)
OnePostUnderLease ==
  \A a, b \in Activities :
    pc[a] = "posted" /\ pc[b] \in {"submit", "posted"} =>
      a = b /\ owner = Run(a) /\ token = runToken[Run(a)]

(* What the two properties above are proved from: the lease row is locked   *)
(* by the one activity inside withDispatchAuthority, and a claim that still *)
(* may post is the only one of its intent and nothing was posted before it. *)
InGuard == {"submit", "posted"}
Claimed == {"guard", "submit"}
Claimable == {"NONE", "PENDING"}

GuardIsExclusive ==
  \A a \in Activities :
    pc[a] \in InGuard => /\ locker = Run(a)
                        /\ \A b \in Activities : pc[b] \in InGuard => a = b

ClaimComesOnce ==
  \A i \in Intents :
    ~rewound[i] =>
      /\ posts[i] <= 1
      /\ intent[i] \in Claimable => posts[i] = 0
      /\ \A a \in Activities :
           handled[a] = i /\ pc[a] \in Claimed =>
             /\ posts[i] = 0 /\ intent[i] \notin Claimable
             /\ \A b \in Activities : handled[b] = i /\ pc[b] \in Claimed => a = b

DispatchInv == GuardIsExclusive /\ ClaimComesOnce

(* The durable projection never says more than the broker: an intent is     *)
(* FILLED only if its order filled, ACCEPTED only if the broker has it      *)
(* (recordBrokerOrder over lookups, submit results and trade updates in any *)
(* order).                                                                  *)
ProjectionIsReal ==
  \A i \in Intents :
    /\ intent[i] = "FILLED" => order[i] = "FILLED"
    /\ intent[i] = "ACCEPTED" => order[i] # "NONE"

(* A CANCELLED or REJECTED intent is over: the broker has no open or filled *)
(* order for it and no POST about it is still on its way.                   *)
SettledMeansNoOrder ==
  \A i \in Intents :
    intent[i] \in {"CANCELLED", "REJECTED"} /\ ~rewound[i] =>
      /\ order[i] \in {"NONE", "CANCELLED"}
      /\ \A q \in requests : q.about = i => q.at = "refused"

(* What is durable of an intent only moves on, whatever lookups and trade    *)
(* updates still say of its order, as long as no putIntent wrote over it:    *)
(* one whose marker was written is never claimable again, and one that is   *)
(* FILLED, CANCELLED or REJECTED keeps that status (README.md:48,            *)
(* projectedBrokerStatus).                                                  *)
StatusNeverRegresses ==
  [][\A i \in Intents : ~rewound'[i] =>
       /\ intent[i] \in {"SUBMISSION_ATTEMPTED", "UNKNOWN"} => intent'[i] # "PENDING"
       /\ intent[i] \in Final => intent'[i] = intent[i]]_vars

(* When start() is about to connect its streams, with the lease its own, no *)
(* submission of the past is open: each was found at the broker or the      *)
(* worker halted (README.md:46, "recovery fail[s] closed").                 *)
StartupResolvesUncertainty ==
  \A a \in Activities :
    pc[a] = "connect" /\ ~started[Run(a)] /\ Holds(Run(a)) =>
      \A i \in Intents : intent[i] \notin {"SUBMISSION_ATTEMPTED", "UNKNOWN"}

(* The guarded section ends: the lease row does not stay locked, and a      *)
(* successor does not wait for it forever.                                  *)
SubmitEnds == locker # NoRun ~> locker = NoRun

(* Only the run that holds the lease changes an intent that exists          *)
(* (docs/BTC_PAPER_RUNTIME.md:401, "stale fencing tokens cannot mutate      *)
(* dispatch state or checkpoints").                                         *)
StaleTokensCannotMutate ==
  [][\A a \in Activities, i \in Intents :
       pc'[a] # pc[a] /\ intent[i] # "NONE" /\ intent'[i] # intent[i] => Holds(Run(a))]_vars

(* The targets are 0 and 1 and each order closes the distance to one, so    *)
(* the position is one of them (dispatch(): "never stack a new target       *)
(* behind any open SPY paper order").                                       *)
PositionIsATarget == position \in {0, 1}

=============================================================================
