-------------------------- MODULE PaperDispatch_proofs --------------------------
(* Proofs about WorkerLease and PaperDispatch: the lease protocol and what  *)
(* follows from its invariant; that PaperDispatch implements it; its type   *)
(* invariant, the exclusive guarded POST and at most one POST per intent;   *)
(* what the durable status of an intent says of the broker's order, and how *)
(* it may change.                                                           *)
EXTENDS PaperDispatch, TLAPS

----------------------------------------------------------------------------
(* The lease protocol.                                                      *)

(* Before any row exists nothing is owned, granted or written. *)
LEMMA LeaseInitEstablishes == LeaseInit => LeaseInv
  BY NoRunAssumption, LeaseTicksAssumption
  DEF LeaseInit, LeaseInv, LeaseTypeOK, LeaseHistory, TokensIdentifyRuns,
      LiveRunOwnsLease, SubmitPinsOwner, RunStates, Active, Terminal

(* No statement of the store breaks the invariant. *)
LEMMA LeaseNextPreserves == LeaseInv /\ [LeaseNext]_storeVars => LeaseInv'
<1> SUFFICES ASSUME LeaseInv, [LeaseNext]_storeVars
             PROVE  LeaseInv'
  OBVIOUS
<1> USE NoRunAssumption, LeaseTicksAssumption
    DEF LeaseInv, LeaseTypeOK, LeaseHistory, TokensIdentifyRuns, LiveRunOwnsLease,
        SubmitPinsOwner, RunStates, Active, Terminal, leaseVars
<1>1. ASSUME NEW r \in Runs, CreateRun(r) PROVE LeaseInv'
  BY <1>1 DEF CreateRun
<1>2. ASSUME NEW r \in Runs, Acquire(r) PROVE LeaseInv'
  <2>1. LeaseTypeOK'
    BY <1>2 DEF Acquire, NextToken, Superseding
  <2>2. LeaseHistory'
    BY <1>2 DEF Acquire, NextToken, Superseding
  <2>3. TokensIdentifyRuns'
    BY <1>2 DEF Acquire, NextToken
  <2>4. LiveRunOwnsLease'
    BY <1>2 DEF Acquire, Superseding
  <2>5. SubmitPinsOwner'
    BY <1>2 DEF Acquire, RowUnlocked
  <2> QED
    BY <2>1, <2>2, <2>3, <2>4, <2>5
<1>3. ASSUME NEW r \in Runs, Renew(r) PROVE LeaseInv'
  BY <1>3 DEF Renew, Holds
<1>4. ASSUME NEW r \in Runs, Release(r) PROVE LeaseInv'
  BY <1>4 DEF Release
<1>5. ASSUME NEW r \in Runs, NEW s \in RunStates \ {"NONE"}, UpdateRun(r, s) PROVE LeaseInv'
  BY <1>5 DEF UpdateRun, MayUpdateRun
<1>6. ASSUME NEW r \in Runs, WriteCheckpointOwned(r) PROVE LeaseInv'
  BY <1>6 DEF WriteCheckpointOwned, Holds
<1>7. ASSUME NEW r \in Runs, LockForSubmit(r) PROVE LeaseInv'
  BY <1>7 DEF LockForSubmit, Holds
<1>8. ASSUME NEW r \in Runs, CommitSubmit(r) PROVE LeaseInv'
  BY <1>8 DEF CommitSubmit
<1>9. ASSUME NEW r \in Runs, RollbackSubmit(r) PROVE LeaseInv'
  BY <1>9 DEF RollbackSubmit
<1>10. ASSUME Tick PROVE LeaseInv'
  BY <1>10 DEF Tick
<1>11. ASSUME UNCHANGED storeVars PROVE LeaseInv'
  BY <1>11 DEF storeVars
<1> QED
  BY <1>1, <1>2, <1>3, <1>4, <1>5, <1>6, <1>7, <1>8, <1>9, <1>10, <1>11 DEF LeaseNext

(* LeaseInv holds in every reachable state, for any set of runs and any     *)
(* lease length.                                                            *)
THEOREM LeaseInvariance == LeaseSpec => []LeaseInv
<1>1. LeaseInit => LeaseInv
  BY LeaseInitEstablishes
<1>2. LeaseInv /\ [LeaseNext]_storeVars => LeaseInv'
  BY LeaseNextPreserves
<1> QED
  BY <1>1, <1>2, PTL DEF LeaseSpec

(* A fencing token is never granted to two runs. *)
THEOREM TokensNeverShared == LeaseSpec => []TokensIdentifyRuns
<1>1. LeaseInv => TokensIdentifyRuns
  BY DEF LeaseInv
<1> QED
  BY <1>1, LeaseInvariance, PTL

(* A predecessor of the current owner stays ended in worker_runs. *)
THEOREM PredecessorsStayEnded == LeaseSpec => []LiveRunOwnsLease
<1>1. LeaseInv => LiveRunOwnsLease
  BY DEF LeaseInv
<1> QED
  BY <1>1, LeaseInvariance, PTL

(* Nobody takes the lease over while its holder is inside the guarded POST. *)
THEOREM SubmitExcludesTakeover == LeaseSpec => []SubmitPinsOwner
<1>1. LeaseInv => SubmitPinsOwner
  BY DEF LeaseInv
<1> QED
  BY <1>1, LeaseInvariance, PTL

(* A fenced-out run never overwrites the checkpoint of its successor. *)
THEOREM CheckpointIsFenced == LeaseSpec => CheckpointNeverRegresses
<1>1. LeaseInv /\ [LeaseNext]_storeVars => [checkpoint' >= checkpoint]_storeVars
  <2> SUFFICES ASSUME LeaseInv, LeaseNext
               PROVE  checkpoint' >= checkpoint
    OBVIOUS
  <2> USE DEF LeaseInv, LeaseTypeOK
  <2>1. ASSUME NEW r \in Runs, WriteCheckpointOwned(r) PROVE checkpoint' >= checkpoint
    BY <2>1 DEF WriteCheckpointOwned, Holds, LeaseHistory
  <2>2. ASSUME checkpoint' = checkpoint PROVE checkpoint' >= checkpoint
    BY <2>2
  <2> QED
    BY <2>1, <2>2 DEF LeaseNext, CreateRun, Acquire, Renew, Release, UpdateRun, LockForSubmit,
       CommitSubmit, RollbackSubmit, Tick
<1> QED
  BY <1>1, LeaseInvariance, PTL DEF LeaseSpec, CheckpointNeverRegresses

----------------------------------------------------------------------------
(* Refinement: what a handler does to the store is one statement of it.     *)

(* An activity is a handler of a run. *)
LEMMA ActivityParts == \A a \in Activities : Run(a) \in Runs /\ Kind(a) \in Kinds
  BY DEF Activities, Run, Kind

(* loseOwnership() writes at most the row of its run. *)
LEMMA LoseOwnershipIsAStatement ==
  ASSUME NEW r \in Runs, LoseOwnership(r)
  PROVE  [LeaseNext]_storeVars
<1>1. CASE MayUpdateRun(r, "HALTED") /\ runState' = [runState EXCEPT ![r] = "HALTED"]
  <2>1. UpdateRun(r, "HALTED")
    BY <1>1 DEF LoseOwnership, UpdateRun, MayUpdateRun, Active
  <2>2. "HALTED" \in RunStates \ {"NONE"}
    BY DEF RunStates, Terminal
  <2> QED
    BY <2>1, <2>2 DEF LeaseNext
<1>2. CASE UNCHANGED runState
  BY <1>2 DEF LoseOwnership, storeVars, leaseVars
<1> QED
  BY <1>1, <1>2 DEF LoseOwnership

(* So does halt() up to its first await. *)
LEMMA HaltIsAStatement ==
  ASSUME NEW a \in Activities, Halt(a)
  PROVE  [LeaseNext]_storeVars
  BY LoseOwnershipIsAStatement, ActivityParts DEF Halt, StoreUnchanged

(* So does a handler that throws. *)
LEMMA ThrowIsAStatement ==
  ASSUME NEW a \in Activities, Throw(a)
  PROVE  [LeaseNext]_storeVars
  BY HaltIsAStatement DEF Throw, StoreUnchanged

(* So does losing the ownership and then throwing. *)
LEMMA LoseAndThrowIsAStatement ==
  ASSUME NEW a \in Activities, LoseAndThrow(a)
  PROVE  [LeaseNext]_storeVars
  BY LoseOwnershipIsAStatement, ActivityParts DEF LoseAndThrow

(* Each fenced write a handler shares with others is one statement. *)
LEMMA StatementsOfTheStore ==
  ASSUME NEW r \in Runs,
         \/ CreateRun(r) \/ Acquire(r) \/ Renew(r) \/ Release(r) \/ WriteCheckpointOwned(r)
         \/ LockForSubmit(r) \/ CommitSubmit(r) \/ RollbackSubmit(r)
         \/ UpdateRun(r, "RECONCILING") \/ UpdateRun(r, "READY") \/ UpdateRun(r, "HALTED")
         \/ Tick \/ StoreUnchanged
  PROVE  [LeaseNext]_storeVars
<1>1. {"RECONCILING", "READY", "HALTED"} \subseteq RunStates \ {"NONE"}
  BY DEF RunStates, Active, Terminal
<1> QED
  BY <1>1 DEF LeaseNext, StoreUnchanged

(* Every step of the worker, of the broker and of the clock is a statement  *)
(* of the store or leaves it alone.                                         *)
LEMMA StepIsAStatement == [Next]_vars => [LeaseNext]_storeVars
<1> SUFFICES ASSUME [Next]_vars PROVE [LeaseNext]_storeVars
  OBVIOUS
<1> USE ActivityParts
<1>1. ASSUME NEW a \in Activities, Dispatch(a) PROVE [LeaseNext]_storeVars
  <2>1. CASE StaleBar(a) \/ ReadPosition(a) \/ ReadOpenOrders(a) \/ PutIntent(a) \/ LookUpBefore(a)
    BY <2>1, StatementsOfTheStore
    DEF StaleBar, ReadPosition, ReadOpenOrders, PutIntent, LookUpBefore
  <2>2. CASE NoteBefore(a)
    BY <2>2, StatementsOfTheStore, ThrowIsAStatement DEF NoteBefore
  <2>3. CASE Claim(a)
    BY <2>3, StatementsOfTheStore, LoseAndThrowIsAStatement DEF Claim
  <2>4. CASE EnterGuard(a)
    BY <2>4, StatementsOfTheStore, LoseAndThrowIsAStatement DEF EnterGuard
  <2>5. CASE Submit(a)
    BY <2>5, StatementsOfTheStore DEF Submit, SubmitReturns
  <2>6. CASE PostAnswered(a) \/ PostUnanswered(a) \/ PostAnsweredByGateway(a)
    BY <2>6, StatementsOfTheStore
    DEF PostAnswered, PostUnanswered, PostAnsweredByGateway, SubmitReturns
  <2>7. CASE NoteAfter(a)
    BY <2>7, StatementsOfTheStore, ThrowIsAStatement DEF NoteAfter
  <2>8. CASE SubmitLookupFails(a) \/ SubmitThrew(a)
    BY <2>8, StatementsOfTheStore, ThrowIsAStatement DEF SubmitLookupFails, SubmitThrew
  <2> QED
    BY <1>1, <2>1, <2>2, <2>3, <2>4, <2>5, <2>6, <2>7, <2>8 DEF Dispatch
<1>2. ASSUME NEW a \in Activities, ReconcileLoop(a) PROVE [LeaseNext]_storeVars
  <2>1. CASE Start(a) \/ TakeLease(a) \/ LeaseRefused(a) \/ Reconcile(a)
    BY <2>1, StatementsOfTheStore DEF Start, TakeLease, LeaseRefused, Reconcile
  <2>2. CASE RowReconciling(a)
    BY <2>2, StatementsOfTheStore, LoseAndThrowIsAStatement DEF RowReconciling
  <2>3. CASE SaveEquity(a) \/ SaveReady(a)
    BY <2>3, StatementsOfTheStore, LoseAndThrowIsAStatement, ThrowIsAStatement
    DEF SaveEquity, SaveReady, PersistThen
  <2>4. CASE ListIntents(a) \/ LoopEnds(a)
    BY <2>4, StatementsOfTheStore DEF ListIntents, LoopEnds
  <2>5. ASSUME NEW i \in Intents, LookUpListed(a, i) PROVE [LeaseNext]_storeVars
    BY <2>5, StatementsOfTheStore, ThrowIsAStatement DEF LookUpListed
  <2>6. CASE NoteListed(a)
    BY <2>6, StatementsOfTheStore, ThrowIsAStatement DEF NoteListed
  <2>7. CASE Confirm(a) \/ Connect(a)
    BY <2>7, StatementsOfTheStore, LoseAndThrowIsAStatement DEF Confirm, Connect
  <2>8. CASE RowReady(a)
    BY <2>8, StatementsOfTheStore, ThrowIsAStatement DEF RowReady
  <2> QED
    BY <1>2, <2>1, <2>2, <2>3, <2>4, <2>5, <2>6, <2>7, <2>8 DEF ReconcileLoop
<1>3. ASSUME NEW a \in Activities, HaltRow(a) \/ HaltSave(a) \/ HaltRelease(a)
      PROVE  [LeaseNext]_storeVars
  BY <1>3, StatementsOfTheStore, LoseAndThrowIsAStatement, ThrowIsAStatement
  DEF HaltRow, HaltSave, HaltRelease
<1>4. ASSUME NEW a \in Activities, Persist(a) \/ ReadFails(a) PROVE [LeaseNext]_storeVars
  BY <1>4, StatementsOfTheStore, LoseAndThrowIsAStatement, ThrowIsAStatement
  DEF Persist, PersistThen, ReadFails
<1>5. ASSUME NEW a \in Activities, NEW i \in Intents, Decide(a, i) PROVE [LeaseNext]_storeVars
  BY <1>5, StatementsOfTheStore DEF Decide
<1>6. ASSUME NEW a \in Activities, NEW i \in Intents, NEW s \in OrderStates, TradeUpdate(a, i, s)
       PROVE  [LeaseNext]_storeVars
  BY <1>6, StatementsOfTheStore, ThrowIsAStatement DEF TradeUpdate
<1>7. ASSUME NEW r \in Runs, RenewTimer(r) \/ Crash(r) PROVE [LeaseNext]_storeVars
  BY <1>7, StatementsOfTheStore, LoseOwnershipIsAStatement DEF RenewTimer, Crash
<1>8. ASSUME NEW q \in requests, Arrive(q) \/ LoseRequest(q) PROVE [LeaseNext]_storeVars
  BY <1>8 DEF Arrive, LoseRequest
<1>9. ASSUME NEW i \in Intents, SettleOrder(i) PROVE [LeaseNext]_storeVars
  BY <1>9 DEF SettleOrder
<1>10. CASE TimePasses
  BY <1>10 DEF TimePasses, LeaseNext
<1>11. CASE UNCHANGED vars
  BY <1>11 DEF vars, storeVars
<1> QED
  BY <1>1, <1>2, <1>3, <1>4, <1>5, <1>6, <1>7, <1>8, <1>9, <1>10, <1>11 DEF Next

(* The order path implements the lease protocol: its store variables evolve *)
(* as WorkerLease says, so every theorem about LeaseSpec holds of it.       *)
THEOREM DispatchImplementsLease == Spec => LeaseSpec
<1>1. Init => LeaseInit
  BY DEF Init
<1>2. [Next]_vars => [LeaseNext]_storeVars
  BY StepIsAStatement
<1> QED
  BY <1>1, <1>2, PTL DEF Spec, LeaseSpec

----------------------------------------------------------------------------
(* Types                                                                    *)

(* loseOwnership() keeps the types of the process memory. *)
LEMMA LoseOwnershipTypes ==
  ASSUME MemTypeOK, NEW r \in Runs, LoseOwnership(r)
  PROVE  MemTypeOK'
  BY DEF MemTypeOK, LoseOwnership, WorkerStates

(* A handler that goes on knows its intent if the next step needs one. *)
LEMMA GotoTypes ==
  ASSUME JobTypeOK, NEW a \in Activities, NEW label \in Labels, Goto(a, label),
         label \in AboutAnIntent => handled[a] \in Intents
  PROVE  JobTypeOK'
  BY DEF JobTypeOK, Goto

(* The same when it stores something in its local variables. *)
LEMMA GotoWithTypes ==
  ASSUME JobTypeOK, NEW a \in Activities, NEW label \in Labels, NEW l \in Locals,
         GotoWith(a, label, l), label \in AboutAnIntent => handled[a] \in Intents
  PROVE  JobTypeOK'
  BY DEF JobTypeOK, GotoWith

(* The local variables of an idle handler. *)
LEMMA NoLocalsType == NoLocals \in Locals
  BY DEF NoLocals, Locals, Nothing, BrokerOrderState, ExecutionStatus, Rows, Final, Acknowledged

(* A handler that returned is idle, with no local variables. *)
LEMMA DoneTypes ==
  ASSUME JobTypeOK, NEW a \in Activities, Done(a)
  PROVE  JobTypeOK'
  BY NoLocalsType DEF JobTypeOK, Done, Labels, AboutAnIntent

(* halt() keeps the types. *)
LEMMA HaltTypes ==
  ASSUME MemTypeOK, JobTypeOK, NEW a \in Activities, Halt(a)
  PROVE  MemTypeOK' /\ JobTypeOK'
<1>1. CASE ~owns[Run(a)]
  BY <1>1, LoseOwnershipTypes, DoneTypes, ActivityParts DEF Halt
<1>2. CASE owns[Run(a)]
  <2>1. MemTypeOK'
    BY <1>2 DEF Halt, MemTypeOK, WorkerStates
  <2>2. JobTypeOK'
    BY <1>2, GotoTypes DEF Halt, Labels, AboutAnIntent
  <2> QED
    BY <2>1, <2>2
<1> QED
  BY <1>1, <1>2

(* A step that leaves the process memory alone keeps its types. *)
LEMMA UnchangedMemTypes == MemTypeOK /\ MemUnchanged => MemTypeOK'
  BY DEF MemTypeOK, MemUnchanged, memVars

(* A throw keeps the types. *)
LEMMA ThrowTypes ==
  ASSUME MemTypeOK, JobTypeOK, NEW a \in Activities, Throw(a)
  PROVE  MemTypeOK' /\ JobTypeOK'
  BY HaltTypes, DoneTypes, UnchangedMemTypes DEF Throw

(* Losing the ownership keeps the types. *)
LEMMA LoseAndThrowTypes ==
  ASSUME MemTypeOK, JobTypeOK, NEW a \in Activities, LoseAndThrow(a)
  PROVE  MemTypeOK' /\ JobTypeOK'
  BY LoseOwnershipTypes, DoneTypes, ActivityParts DEF LoseAndThrow

(* dispatch() returns to a place that needs no intent. *)
LEMMA DispatchReturnsTypes ==
  ASSUME JobTypeOK, NEW a \in Activities, DispatchReturns(a)
  PROVE  JobTypeOK'
<1>1. PICK label \in {"persist", "next"} : Goto(a, label)
  BY DEF DispatchReturns
<1> QED
  BY <1>1, GotoTypes DEF Labels, AboutAnIntent

(* A step that leaves intents and broker alone keeps their types. *)
LEMMA UnchangedWorldTypes == WorldTypeOK /\ WorldUnchanged => WorldTypeOK'
  BY DEF WorldTypeOK, WorldUnchanged, brokerVars, historyVars

(* A lookup returns a BrokerOrderState. *)
LEMMA LookUpType ==
  ASSUME WorldTypeOK, NEW r \in Runs, NEW i \in Intents, NEW status \in ExecutionStatus
  PROVE  LookUp(r, i, status) \in BrokerOrderState
  BY DEF WorldTypeOK, LookUp, Found, Missing, BrokerOrderState, OrderStates, ExecutionStatus,
         Final, Acknowledged

(* recordBrokerOrder writes a status. *)
LEMMA RecordTypes ==
  ASSUME WorldTypeOK, NEW i, NEW seen \in BrokerOrderState, Record(i, seen),
         UNCHANGED <<brokerVars, historyVars>>
  PROVE  WorldTypeOK'
  BY DEF WorldTypeOK, Record, ProjectedStatus, BrokerOrderState, Rows, brokerVars, historyVars

DispatchTypeOK == WorldTypeOK /\ MemTypeOK /\ JobTypeOK

(* The types of what one handler holds. *)
LEMMA TypesOfAHandler ==
  ASSUME JobTypeOK, NEW a \in Activities
  PROVE  /\ local[a].seen \in BrokerOrderState /\ local[a].snapshot \in Int
         /\ local[a].listed \in [Intents -> Rows] /\ local[a].resumes \in BOOLEAN
         /\ local[a] \in Locals
         /\ handled[a] \in Intents \cup {NoIntent}
         /\ pc[a] \in AboutAnIntent => handled[a] \in Intents
  BY DEF JobTypeOK, Locals

(* A submit result: the guard's transaction has committed. *)
LEMMA SubmitReturnsTypes ==
  ASSUME JobTypeOK, NEW a \in Activities, NEW seen \in BrokerOrderState, SubmitReturns(a, seen),
         handled[a] \in Intents
  PROVE  JobTypeOK'
<1>1. [local[a] EXCEPT !.seen = seen] \in Locals
  BY TypesOfAHandler DEF Locals
<1> QED
  BY <1>1, GotoWithTypes DEF SubmitReturns, Labels

(* Requests nobody waits for are requests. *)
LEMMA LeftBehindTypes ==
  ASSUME WorldTypeOK, NEW callers
  PROVE  LeftBehind(callers) \subseteq Requests
  BY DEF WorldTypeOK, LeftBehind, Requests

(* Every step of dispatch() keeps the types. *)
LEMMA DispatchKeepsTypes ==
  ASSUME DispatchTypeOK, NEW a \in Activities, Dispatch(a)
  PROVE  DispatchTypeOK'
<1> USE DEF DispatchTypeOK
<1> USE ActivityParts
<1> USE TypesOfAHandler, UnchangedMemTypes, UnchangedWorldTypes
<1>1. CASE StaleBar(a)
  BY <1>1, GotoTypes DEF StaleBar, Labels, AboutAnIntent
<1>2. CASE ReadPosition(a)
  <2>1. [local[a] EXCEPT !.snapshot = position] \in Locals
    BY DEF Locals, WorldTypeOK
  <2> QED
    BY <1>2, <2>1, GotoWithTypes DEF ReadPosition, Labels, AboutAnIntent
<1>3. CASE ReadOpenOrders(a)
  <2>1. PICK label \in {"putBack", "lookup"} : Goto(a, label)
    BY <1>3 DEF ReadOpenOrders
  <2> QED
    BY <1>3, <2>1, GotoTypes DEF ReadOpenOrders, Labels, AboutAnIntent
<1>4. CASE PutIntent(a)
  <2>1. WorldTypeOK'
    BY <1>4 DEF PutIntent, WorldTypeOK, brokerVars, Rows, ExecutionStatus, Final
  <2> QED
    BY <1>4, <2>1, DispatchReturnsTypes DEF PutIntent
<1>5. CASE LookUpBefore(a)
  <2>1. handled[a] \in Intents
    BY <1>5 DEF LookUpBefore, AboutAnIntent
  <2>2. [local[a] EXCEPT !.seen = LookUp(Run(a), handled[a], "PENDING")] \in Locals
    BY <2>1, LookUpType DEF Locals, ExecutionStatus
  <2>3. JobTypeOK'
    BY <1>5, <2>1, <2>2, GotoWithTypes DEF LookUpBefore, Labels
  <2>4. MemTypeOK'
    BY <1>5 DEF LookUpBefore, MemTypeOK, Remembered
  <2> QED
    BY <1>5, <2>3, <2>4 DEF LookUpBefore
<1>6. CASE NoteBefore(a)
  <2>1. WorldTypeOK'
    BY <1>6, RecordTypes DEF NoteBefore, WorldTypeOK, brokerVars, historyVars
  <2>2. MemTypeOK' /\ JobTypeOK'
    BY <1>6, ThrowTypes, DispatchReturnsTypes, GotoTypes DEF NoteBefore, Labels, AboutAnIntent
  <2> QED
    BY <2>1, <2>2
<1>7. CASE Claim(a)
  <2>1. WorldTypeOK'
    BY <1>7 DEF Claim, WorldTypeOK, brokerVars, historyVars, Marker, Rows, ExecutionStatus
  <2>2. MemTypeOK' /\ JobTypeOK'
    BY <1>7, LoseAndThrowTypes, GotoTypes DEF Claim, Labels, AboutAnIntent
  <2> QED
    BY <2>1, <2>2
<1>8. CASE EnterGuard(a)
  BY <1>8, LoseAndThrowTypes, GotoTypes DEF EnterGuard, Labels, AboutAnIntent
<1>9. CASE Submit(a)
  <2>1. handled[a] \in Intents
    BY <1>9 DEF Submit, AboutAnIntent
  <2>2. /\ LookUp(Run(a), handled[a], "PENDING") \in BrokerOrderState
        /\ Missing("ABSENT", "CANCELLED") \in BrokerOrderState
    BY <2>1, LookUpType DEF Missing, BrokerOrderState, ExecutionStatus, Final
  <2>3. JobTypeOK'
    BY <1>9, <2>1, <2>2, SubmitReturnsTypes, GotoTypes DEF Submit, Labels
  <2>4. MemTypeOK'
    BY <1>9 DEF Submit, MemTypeOK, Remembered
  <2>5. [by |-> a, about |-> handled[a], delta |-> Desired(handled[a]) - local[a].snapshot,
         at |-> "sent"] \in Requests
    BY <2>1 DEF Requests, Desired
  <2>6. WorldTypeOK'
    BY <1>9, <2>1, <2>5 DEF Submit, WorldTypeOK
  <2> QED
    BY <2>3, <2>4, <2>6
<1>10. CASE PostAnswered(a)
  <2>1. handled[a] \in Intents
    BY <1>10 DEF PostAnswered, AboutAnIntent
  <2>2. /\ Found("ACCEPTED") \in BrokerOrderState
        /\ Missing("UNRESOLVED", "REJECTED") \in BrokerOrderState
    BY DEF Found, Missing, BrokerOrderState, ExecutionStatus, Final, Acknowledged
  <2>3. JobTypeOK'
    BY <1>10, <2>1, <2>2, SubmitReturnsTypes, GotoTypes DEF PostAnswered, Labels, AboutAnIntent
  <2>4. WorldTypeOK'
    BY <1>10 DEF PostAnswered, WorldTypeOK, historyVars
  <2> QED
    BY <1>10, <2>3, <2>4 DEF PostAnswered
<1>11. CASE PostUnanswered(a) \/ PostAnsweredByGateway(a)
  <2>1. handled[a] \in Intents
    BY <1>11 DEF PostUnanswered, GivesUp, PostAnsweredByGateway, AboutAnIntent
  <2>2. /\ Missing("UNRESOLVED", TimeoutStatus) \in BrokerOrderState
        /\ Missing("UNRESOLVED", "REJECTED") \in BrokerOrderState
    BY DEF Missing, TimeoutStatus, BrokerOrderState, ExecutionStatus, Final
  <2>3. JobTypeOK'
    BY <1>11, <2>1, <2>2, SubmitReturnsTypes DEF PostUnanswered, PostAnsweredByGateway
  <2>4. MemTypeOK'
    BY <1>11, <2>1 DEF PostUnanswered, PostAnsweredByGateway, MemTypeOK, MemUnchanged, memVars
  <2>5. WorldTypeOK'
    BY <1>11, LeftBehindTypes DEF PostUnanswered, PostAnsweredByGateway, WorldTypeOK, historyVars
  <2> QED
    BY <2>3, <2>4, <2>5
<1>12. CASE NoteAfter(a)
  <2>1. WorldTypeOK'
    BY <1>12, RecordTypes DEF NoteAfter, WorldTypeOK, brokerVars, historyVars
  <2>2. [local[a] EXCEPT !.resumes = TRUE] \in Locals
    BY DEF Locals
  <2>3. JobTypeOK'
    BY <1>12, <2>2, ThrowTypes, DispatchReturnsTypes, GotoWithTypes
    DEF NoteAfter, Labels, AboutAnIntent
  <2>4. MemTypeOK'
    <3>1. ASSUME state' = [state EXCEPT ![Run(a)] = "HALTED"],
                 UNCHANGED <<owns, stopped, started, uncertain, reconciles>>
          PROVE  MemTypeOK'
      BY <3>1 DEF MemTypeOK, WorkerStates
    <3> QED
      BY <1>12, <3>1, ThrowTypes DEF NoteAfter
  <2> QED
    BY <2>1, <2>3, <2>4
<1>13. CASE SubmitLookupFails(a) \/ SubmitThrew(a)
  BY <1>13, GotoTypes, ThrowTypes DEF SubmitLookupFails, SubmitThrew, Labels, AboutAnIntent
<1> QED
  BY <1>1, <1>2, <1>3, <1>4, <1>5, <1>6, <1>7, <1>8, <1>9, <1>10, <1>11, <1>12, <1>13 DEF Dispatch

(* Every step of start() and reconcile() keeps the types. *)
LEMMA ReconcileLoopKeepsTypes ==
  ASSUME DispatchTypeOK, NEW a \in Activities, ReconcileLoop(a)
  PROVE  DispatchTypeOK'
<1> USE DEF DispatchTypeOK
<1> USE ActivityParts, TypesOfAHandler, UnchangedMemTypes, UnchangedWorldTypes
<1>1. CASE Start(a) \/ TakeLease(a)
  <2>1. MemTypeOK'
    BY <1>1 DEF Start, TakeLease, MemTypeOK, WorkerStates
  <2> QED
    BY <1>1, <2>1, GotoTypes DEF Start, TakeLease, Labels, AboutAnIntent
<1>2. CASE LeaseRefused(a) \/ Reconcile(a)
  <2>1. MemTypeOK'
    BY <1>2 DEF LeaseRefused, Reconcile, MemTypeOK, WorkerStates
  <2> QED
    BY <1>2, <2>1, GotoTypes, DoneTypes DEF LeaseRefused, Reconcile, Labels, AboutAnIntent
<1>3. CASE RowReconciling(a)
  BY <1>3, LoseAndThrowTypes, GotoTypes DEF RowReconciling, Labels, AboutAnIntent
<1>4. CASE SaveEquity(a) \/ SaveReady(a)
  BY <1>4, ThrowTypes, LoseAndThrowTypes, GotoTypes
  DEF SaveEquity, SaveReady, PersistThen, Labels, AboutAnIntent
<1>5. CASE ListIntents(a)
  <2>1. [local[a] EXCEPT !.listed =
           [i \in Intents |-> IF intent[i] \in Final THEN "NONE" ELSE intent[i]]] \in Locals
    BY DEF Locals, WorldTypeOK, Rows
  <2> QED
    BY <1>5, <2>1, DoneTypes, GotoWithTypes DEF ListIntents, Labels, AboutAnIntent
<1>6. ASSUME NEW i \in Intents, LookUpListed(a, i) PROVE DispatchTypeOK'
  <2> DEFINE stored == local[a].listed[i]
             seen   == LookUp(Run(a), i, stored)
  <2>1. CASE MarkerBlocks(stored, seen)
    BY <1>6, <2>1, ThrowTypes DEF LookUpListed
  <2>2. CASE ~MarkerBlocks(stored, seen)
    <3>1. stored \in ExecutionStatus
      BY <1>6 DEF LookUpListed, Rows
    <3>2. seen \in BrokerOrderState
      BY <3>1, LookUpType
    <3> HIDE DEF seen
    <3>3. MemTypeOK'
      BY <1>6, <2>2 DEF LookUpListed, MemTypeOK, Remembered, seen
    <3> DEFINE x == [local[a] EXCEPT !.seen = seen, !.listed[i] = "NONE"]
    <3>4. local' = [local EXCEPT ![a] = x]
      BY <1>6, <2>2 DEF LookUpListed, seen, JobTypeOK
    <3>5. pc' = [pc EXCEPT ![a] = "note"] /\ handled' = [handled EXCEPT ![a] = i]
      BY <1>6, <2>2 DEF LookUpListed, seen
    <3>6. x \in Locals
      BY <3>2 DEF Locals, Rows
    <3> HIDE DEF x
    <3>7. /\ pc' \in [Activities -> Labels] /\ handled' \in [Activities -> Intents \cup {NoIntent}]
          /\ local' \in [Activities -> Locals]
      BY <3>4, <3>5, <3>6 DEF JobTypeOK, Labels
    <3>8. JobTypeOK'
      BY <3>5, <3>7 DEF JobTypeOK, AboutAnIntent
    <3> QED
      BY <1>6, <3>3, <3>8 DEF LookUpListed
  <2> QED
    BY <2>1, <2>2
<1>7. CASE NoteListed(a)
  <2>1. WorldTypeOK'
    BY <1>7, RecordTypes DEF NoteListed, WorldTypeOK, brokerVars, historyVars
  <2>2. ASSUME NEW label \in {"enter", "next"}, Goto(a, label) PROVE JobTypeOK'
    BY <1>7, <2>2, GotoTypes DEF NoteListed, Labels, AboutAnIntent
  <2>3. MemTypeOK' /\ JobTypeOK'
    BY <1>7, <2>2, ThrowTypes DEF NoteListed
  <2> QED
    BY <2>1, <2>3
<1>8. CASE LoopEnds(a)
  <2>1. MemTypeOK'
    BY <1>8 DEF LoopEnds, MemTypeOK, WorkerStates, MemUnchanged, memVars
  <2> QED
    BY <1>8, <2>1, DoneTypes, GotoTypes DEF LoopEnds, Labels, AboutAnIntent
<1>9. CASE Confirm(a) \/ Connect(a)
  <2>1. MemTypeOK'
    BY <1>9, LoseAndThrowTypes DEF Confirm, Connect, MemTypeOK, WorkerStates, MemUnchanged, memVars
  <2> QED
    BY <1>9, <2>1, LoseAndThrowTypes, DoneTypes, GotoTypes DEF Confirm, Connect, Labels, AboutAnIntent
<1>10. CASE RowReady(a)
  BY <1>10, ThrowTypes, DoneTypes, GotoTypes DEF RowReady, Labels, AboutAnIntent
<1> QED
  BY <1>1, <1>2, <1>3, <1>4, <1>5, <1>6, <1>7, <1>8, <1>9, <1>10 DEF ReconcileLoop

(* Every step keeps the types. *)
LEMMA StepKeepsTypes == DispatchTypeOK /\ [Next]_vars => DispatchTypeOK'
<1> SUFFICES ASSUME DispatchTypeOK, [Next]_vars PROVE DispatchTypeOK'
  OBVIOUS
<1> USE DEF DispatchTypeOK
<1> USE ActivityParts, TypesOfAHandler, UnchangedMemTypes, UnchangedWorldTypes
<1>1. ASSUME NEW a \in Activities, Dispatch(a) PROVE DispatchTypeOK'
  BY <1>1, DispatchKeepsTypes
<1>2. ASSUME NEW a \in Activities, ReconcileLoop(a) PROVE DispatchTypeOK'
  BY <1>2, ReconcileLoopKeepsTypes
<1>3. ASSUME NEW a \in Activities, NEW i \in Intents, Decide(a, i) PROVE DispatchTypeOK'
  <2>1. WorldTypeOK'
    BY <1>3 DEF Decide, WorldTypeOK, brokerVars, historyVars, Rows, ExecutionStatus, Final
  <2>2. JobTypeOK'
    BY <1>3 DEF Decide, JobTypeOK, Labels, AboutAnIntent
  <2> QED
    BY <1>3, <2>1, <2>2 DEF Decide
<1>4. ASSUME NEW a \in Activities, Persist(a) \/ ReadFails(a) PROVE DispatchTypeOK'
  BY <1>4, ThrowTypes, LoseAndThrowTypes, DoneTypes DEF Persist, PersistThen, ReadFails
<1>5. ASSUME NEW a \in Activities, HaltRow(a) \/ HaltSave(a) PROVE DispatchTypeOK'
  BY <1>5, ThrowTypes, LoseAndThrowTypes, DoneTypes, GotoTypes
  DEF HaltRow, HaltSave, Labels, AboutAnIntent
<1>6. ASSUME NEW a \in Activities, HaltRelease(a) PROVE DispatchTypeOK'
  <2>1. MemTypeOK'
    BY <1>6 DEF HaltRelease, MemTypeOK
  <2> QED
    BY <1>6, <2>1, DispatchReturnsTypes, DoneTypes DEF HaltRelease
<1>7. ASSUME NEW a \in Activities, NEW i \in Intents, NEW s \in OrderStates, TradeUpdate(a, i, s)
      PROVE  DispatchTypeOK'
  <2>1. CASE Record(i, Found(s)) /\ Goto(a, "persist") /\ MemUnchanged
    <3>1. Found(s) \in BrokerOrderState
      BY <1>7 DEF TradeUpdate, WasIn, WorldTypeOK, OrderStates, Found, BrokerOrderState,
         ExecutionStatus, Final, Acknowledged
    <3> QED
      BY <1>7, <2>1, <3>1, RecordTypes, GotoTypes DEF TradeUpdate, Labels, AboutAnIntent
  <2>2. CASE Throw(a) /\ UNCHANGED intent
    BY <1>7, <2>2, ThrowTypes DEF TradeUpdate, WorldTypeOK, brokerVars, historyVars
  <2> QED
    BY <1>7, <2>1, <2>2 DEF TradeUpdate
<1>8. ASSUME NEW r \in Runs, RenewTimer(r) PROVE DispatchTypeOK'
  <2>1. JobTypeOK'
    BY <1>8 DEF RenewTimer, JobTypeOK, jobVars
  <2> QED
    BY <1>8, <2>1, LoseOwnershipTypes DEF RenewTimer
<1>9. ASSUME NEW r \in Runs, Crash(r) PROVE DispatchTypeOK'
  <2>1. MemTypeOK'
    BY <1>9 DEF Crash, MemTypeOK, WorkerStates
  <2>2. JobTypeOK'
    BY <1>9, NoLocalsType DEF Crash, JobTypeOK, Labels, AboutAnIntent
  <2>3. WorldTypeOK'
    BY <1>9, LeftBehindTypes DEF Crash, WorldTypeOK, historyVars
  <2> QED
    BY <2>1, <2>2, <2>3
<1>10. ASSUME NEW q \in requests, Arrive(q) \/ LoseRequest(q) PROVE DispatchTypeOK'
  <2>1. q \in Requests
    BY DEF WorldTypeOK
  <2>2. /\ [q EXCEPT !.at = "accepted"] \in Requests
        /\ [q EXCEPT !.at = "refused"] \in Requests
    BY <2>1 DEF Requests
  <2>3. WorldTypeOK'
    BY <1>10, <2>1, <2>2 DEF Arrive, LoseRequest, WorldTypeOK, OrderStates, historyVars, Requests
  <2>4. MemTypeOK' /\ JobTypeOK'
    BY <1>10 DEF Arrive, LoseRequest, MemTypeOK, JobTypeOK, memVars, jobVars
  <2> QED
    BY <2>3, <2>4
<1>11. ASSUME NEW i \in Intents, SettleOrder(i) PROVE DispatchTypeOK'
  BY <1>11 DEF SettleOrder, WorldTypeOK, MemTypeOK, JobTypeOK, OrderStates, memVars, jobVars, historyVars
<1>12. CASE TimePasses \/ UNCHANGED vars
  BY <1>12 DEF TimePasses, WorldTypeOK, MemTypeOK, JobTypeOK, vars, brokerVars, memVars, jobVars,
     historyVars
<1> QED
  BY <1>1, <1>2, <1>3, <1>4, <1>5, <1>6, <1>7, <1>8, <1>9, <1>10, <1>11, <1>12 DEF Next

(* Every variable of the order path keeps its type. *)
THEOREM TypeCorrectness == Spec => []TypeOK
<1>1. Init => DispatchTypeOK
  BY NoLocalsType
  DEF Init, DispatchTypeOK, WorldTypeOK, MemTypeOK, JobTypeOK, Rows, OrderStates, WorkerStates,
      Labels, AboutAnIntent
<1>2. DispatchTypeOK /\ [Next]_vars => DispatchTypeOK'
  BY StepKeepsTypes
<1>3. DispatchTypeOK /\ LeaseInv => TypeOK
  BY DEF DispatchTypeOK, LeaseInv, TypeOK
<1> QED
  BY <1>1, <1>2, <1>3, DispatchImplementsLease, LeaseInvariance, PTL DEF Spec

----------------------------------------------------------------------------
(* One POST at a time, one POST per intent                                  *)

(* Most steps are calm: no activity enters or advances inside the claimed   *)
(* section, the row lock does not move, nothing is posted, and no intent    *)
(* becomes claimable that was not.                                          *)
JobsApart ==
  \A b \in Activities :
    pc'[b] \in Claimed \cup InGuard => pc'[b] = pc[b] /\ handled'[b] = handled[b]
WorldCalm ==
  /\ UNCHANGED posts
  /\ \A i \in Intents : rewound[i] => rewound'[i]
  /\ \A i \in Intents : ~rewound'[i] /\ intent'[i] \in Claimable => intent[i] \in Claimable
Calm == JobsApart /\ WorldCalm /\ UNCHANGED locker

(* A calm step, one that claims and posts nothing, leaves every claim the only one. *)
LEMMA CalmKeepsClaims ==
  ASSUME ClaimComesOnce, JobsApart, WorldCalm
  PROVE  ClaimComesOnce'
  BY DEF ClaimComesOnce, JobsApart, WorldCalm

(* A step that moves no handler into the guard and leaves the lock alone. *)
LEMMA CalmKeepsGuard ==
  ASSUME GuardIsExclusive, JobsApart, UNCHANGED locker
  PROVE  GuardIsExclusive'
  BY DEF GuardIsExclusive, JobsApart

(* A calm step keeps the invariant. *)
LEMMA CalmKeepsInv ==
  ASSUME DispatchInv, Calm
  PROVE  DispatchInv'
  BY CalmKeepsClaims, CalmKeepsGuard DEF DispatchInv, Calm

(* The one activity in the guard leaves it: nobody else is there. *)
LEMMA LeavingTheGuard ==
  ASSUME JobTypeOK, GuardIsExclusive, NEW a \in Activities, pc[a] \in InGuard,
         NEW label, pc' = [pc EXCEPT ![a] = label], label \notin InGuard
  PROVE  GuardIsExclusive'
  BY DEF GuardIsExclusive, JobTypeOK, InGuard

(* A handler that goes to a step outside the claimed section disturbs no claim. *)
LEMMA GotoIsApart ==
  ASSUME JobTypeOK, NEW a \in Activities, NEW label, label \notin Claimed \cup InGuard,
         \/ Goto(a, label)
         \/ \E l : GotoWith(a, label, l)
  PROVE  JobsApart
  BY DEF JobTypeOK, Goto, GotoWith, JobsApart

(* A handler that returned claims nothing. *)
LEMMA DoneIsApart ==
  ASSUME JobTypeOK, NEW a \in Activities, Done(a)
  PROVE  JobsApart
  BY DEF JobTypeOK, Done, JobsApart, Claimed, InGuard

(* dispatch() returns out of the claimed section. *)
LEMMA DispatchReturnsIsApart ==
  ASSUME JobTypeOK, NEW a \in Activities, DispatchReturns(a)
  PROVE  JobsApart
<1>1. PICK label \in {"persist", "next"} : Goto(a, label)
  BY DEF DispatchReturns
<1> QED
  BY <1>1, GotoIsApart DEF Claimed, InGuard

(* A throw, with the halt() it may start, leaves the claimed section and the lock alone. *)
LEMMA ThrowIsApart ==
  ASSUME JobTypeOK, NEW a \in Activities, Throw(a) \/ LoseAndThrow(a)
  PROVE  JobsApart /\ UNCHANGED locker
  BY DoneIsApart, GotoIsApart
  DEF Throw, Halt, LoseAndThrow, LoseOwnership, StoreUnchanged, storeVars, leaseVars, Claimed, InGuard

(* A step that leaves intents and broker alone posts nothing. *)
LEMMA UnchangedWorldIsCalm == WorldUnchanged => WorldCalm
  BY DEF WorldUnchanged, WorldCalm, historyVars

(* A step without a statement leaves the row lock alone. *)
LEMMA UnchangedStoreLock == StoreUnchanged => UNCHANGED locker
  BY DEF StoreUnchanged, storeVars

(* An observation never makes an intent claimable. *)
LEMMA RecordIsCalm ==
  ASSUME WorldTypeOK, NEW i, NEW seen \in BrokerOrderState, Record(i, seen), UNCHANGED historyVars
  PROVE  WorldCalm
<1>1. ASSUME NEW current \in Rows, ProjectedStatus(current, seen) \in Claimable
      PROVE  current \in Claimable
  BY <1>1 DEF ProjectedStatus, KeepsStatus, BrokerOrderState, ExecutionStatus, Claimable, Final,
     Acknowledged
<1> QED
  BY <1>1 DEF WorldTypeOK, Record, WorldCalm, historyVars

(* A step that leaves the intents and the history alone posts nothing. *)
LEMMA UnchangedIntentIsCalm == UNCHANGED <<intent, historyVars>> => WorldCalm
  BY DEF WorldCalm, historyVars

(* The steps of dispatch() that enter, advance in or leave the claimed section. *)
LEMMA ClaimedSectionKeepsInv ==
  ASSUME DispatchTypeOK, DispatchInv, LeaseTypeOK, NEW a \in Activities,
         \/ Claim(a) \/ EnterGuard(a) \/ Submit(a) \/ PostAnswered(a) \/ PostUnanswered(a)
         \/ PostAnsweredByGateway(a) \/ SubmitLookupFails(a)
  PROVE  DispatchInv'
<1> USE ActivityParts, TypesOfAHandler DEF DispatchTypeOK, DispatchInv
<1>1. CASE Claim(a)
  <2>1. CASE LoseAndThrow(a) /\ UNCHANGED intent
    BY <1>1, <2>1, ThrowIsApart, UnchangedIntentIsCalm, CalmKeepsInv DEF Claim, Calm
  <2>2. CASE MayClaim(Run(a), handled[a]) /\ Goto(a, "guard") /\ StoreUnchanged
             /\ intent' = [intent EXCEPT ![handled[a]] = Marker]
    <3>1. handled[a] \in Intents /\ UNCHANGED historyVars
      BY <1>1 DEF Claim, AboutAnIntent
    <3>2. GuardIsExclusive'
      BY <2>2, UnchangedStoreLock DEF GuardIsExclusive, Goto, JobTypeOK, InGuard
    <3>3. ClaimComesOnce'
      BY <2>2, <3>1 DEF ClaimComesOnce, Goto, JobTypeOK, WorldTypeOK, MayClaim, Marker, Claimable,
         Claimed, historyVars
    <3> QED
      BY <3>2, <3>3
  <2> QED
    BY <1>1, <2>1, <2>2 DEF Claim
<1>2. CASE EnterGuard(a)
  <2>1. WorldCalm
    BY <1>2, UnchangedWorldIsCalm DEF EnterGuard
  <2>2. CASE LoseAndThrow(a)
    BY <2>1, <2>2, ThrowIsApart, CalmKeepsInv DEF Calm
  <2>3. CASE LockForSubmit(Run(a)) /\ Goto(a, "submit")
    <3>1. GuardIsExclusive'
      BY <2>3, NoRunAssumption DEF GuardIsExclusive, Goto, JobTypeOK, InGuard, LockForSubmit, RowUnlocked
    <3>2. ClaimComesOnce'
      BY <1>2, <2>1, <2>3 DEF EnterGuard, ClaimComesOnce, WorldCalm, Goto, JobTypeOK, Claimed
    <3> QED
      BY <3>1, <3>2
  <2> QED
    BY <1>2, <2>2, <2>3 DEF EnterGuard
<1>3. CASE Submit(a)
  <2>1. CASE UNCHANGED posts /\ \E seen : SubmitReturns(a, seen)
    <3>1. JobsApart /\ WorldCalm
      BY <1>3, <2>1, GotoIsApart, UnchangedIntentIsCalm
      DEF Submit, SubmitReturns, Claimed, InGuard, historyVars
    <3>2. pc[a] \in InGuard /\ pc' = [pc EXCEPT ![a] = "noteAfter"] /\ "noteAfter" \notin InGuard
      BY <1>3, <2>1 DEF Submit, SubmitReturns, GotoWith, InGuard
    <3>3. GuardIsExclusive'
      BY <3>2, LeavingTheGuard
    <3> QED
      BY <3>1, <3>3, CalmKeepsClaims
  <2>2. CASE posts' = [posts EXCEPT ![handled[a]] = @ + 1] /\ Goto(a, "posted") /\ StoreUnchanged
    <3>1. pc[a] = "submit" /\ UNCHANGED <<intent, rewound>> /\ handled[a] \in Intents
      BY <1>3 DEF Submit, AboutAnIntent
    <3>2. GuardIsExclusive'
      BY <2>2, <3>1, UnchangedStoreLock DEF GuardIsExclusive, Goto, JobTypeOK, InGuard
    <3>3. ClaimComesOnce'
      BY <2>2, <3>1 DEF ClaimComesOnce, Goto, JobTypeOK, WorldTypeOK, Claimed
    <3> QED
      BY <3>2, <3>3
  <2> QED
    BY <1>3, <2>1, <2>2 DEF Submit
<1>4. CASE PostAnswered(a) \/ PostUnanswered(a) \/ PostAnsweredByGateway(a) \/ SubmitLookupFails(a)
  <2>1. PICK label \in {"noteAfter", "threw"} :
          pc[a] \in InGuard /\ (Goto(a, label) \/ \E l : GotoWith(a, label, l))
    BY <1>4 DEF PostAnswered, PostUnanswered, GivesUp, PostAnsweredByGateway, SubmitLookupFails,
       SubmitReturns, InGuard
  <2>2. UNCHANGED <<intent, historyVars>>
    BY <1>4 DEF PostAnswered, PostUnanswered, PostAnsweredByGateway, SubmitLookupFails, WorldUnchanged
  <2>3. JobsApart /\ WorldCalm
    BY <2>1, <2>2, GotoIsApart, UnchangedIntentIsCalm DEF Claimed, InGuard
  <2>4. GuardIsExclusive'
    BY <2>1, LeavingTheGuard DEF Goto, GotoWith, InGuard
  <2> QED
    BY <2>3, <2>4, CalmKeepsClaims
<1> QED
  BY <1>1, <1>2, <1>3, <1>4

(* The other steps of dispatch() claim and post nothing. *)
LEMMA OtherDispatchIsCalm ==
  ASSUME DispatchTypeOK, NEW a \in Activities,
         \/ StaleBar(a) \/ ReadPosition(a) \/ ReadOpenOrders(a) \/ PutIntent(a) \/ LookUpBefore(a)
         \/ NoteBefore(a) \/ NoteAfter(a) \/ SubmitThrew(a)
  PROVE  Calm
<1> USE ActivityParts, TypesOfAHandler, UnchangedStoreLock, UnchangedWorldIsCalm, UnchangedIntentIsCalm
    DEF DispatchTypeOK, Calm, Claimed, InGuard
<1>1. CASE StaleBar(a) \/ ReadPosition(a) \/ LookUpBefore(a)
  BY <1>1, GotoIsApart DEF StaleBar, ReadPosition, LookUpBefore
<1>2. CASE ReadOpenOrders(a)
  <2>1. PICK label \in {"putBack", "lookup"} : Goto(a, label)
    BY <1>2 DEF ReadOpenOrders
  <2> QED
    BY <1>2, <2>1, GotoIsApart DEF ReadOpenOrders
<1>3. CASE PutIntent(a)
  <2>1. WorldCalm
    BY <1>3 DEF PutIntent, WorldCalm, WorldTypeOK, Claimable
  <2> QED
    BY <1>3, <2>1, DispatchReturnsIsApart DEF PutIntent
<1>4. CASE NoteBefore(a)
  <2>1. WorldCalm
    BY <1>4, RecordIsCalm DEF NoteBefore
  <2>2. JobsApart /\ UNCHANGED locker
    BY <1>4, ThrowIsApart, DispatchReturnsIsApart, GotoIsApart DEF NoteBefore
  <2> QED
    BY <2>1, <2>2
<1>5. CASE NoteAfter(a)
  <2>1. WorldCalm
    BY <1>5, RecordIsCalm DEF NoteAfter
  <2>2. JobsApart /\ UNCHANGED locker
    BY <1>5, ThrowIsApart, DispatchReturnsIsApart, GotoIsApart DEF NoteAfter
  <2> QED
    BY <2>1, <2>2
<1>6. CASE SubmitThrew(a)
  BY <1>6, ThrowIsApart DEF SubmitThrew
<1> QED
  BY <1>1, <1>2, <1>3, <1>4, <1>5, <1>6

(* Nothing in start() or reconcile() claims or posts. *)
LEMMA ReconcileLoopIsCalm ==
  ASSUME DispatchTypeOK, NEW a \in Activities, ReconcileLoop(a)
  PROVE  Calm
<1> USE ActivityParts, TypesOfAHandler, UnchangedStoreLock, UnchangedWorldIsCalm, UnchangedIntentIsCalm
    DEF DispatchTypeOK, Calm, Claimed, InGuard
<1>1. CASE Start(a) \/ TakeLease(a) \/ Reconcile(a)
  BY <1>1, GotoIsApart DEF Start, TakeLease, Reconcile, CreateRun, Acquire, leaseVars
<1>2. CASE LeaseRefused(a)
  BY <1>2, DoneIsApart DEF LeaseRefused, UpdateRun, leaseVars
<1>3. CASE RowReconciling(a) \/ RowReady(a)
  BY <1>3, ThrowIsApart, DoneIsApart, GotoIsApart DEF RowReconciling, RowReady, UpdateRun, leaseVars
<1>4. CASE SaveEquity(a) \/ SaveReady(a)
  BY <1>4, ThrowIsApart, GotoIsApart
  DEF SaveEquity, SaveReady, PersistThen, WriteCheckpointOwned, leaseVars
<1>5. CASE ListIntents(a)
  BY <1>5, DoneIsApart, GotoIsApart DEF ListIntents
<1>6. ASSUME NEW i \in Intents, LookUpListed(a, i) PROVE Calm
  <2>1. JobsApart
    BY <1>6, ThrowIsApart DEF LookUpListed, JobsApart, JobTypeOK
  <2> QED
    BY <1>6, <2>1, ThrowIsApart DEF LookUpListed
<1>7. CASE NoteListed(a)
  <2>1. WorldCalm
    BY <1>7, RecordIsCalm DEF NoteListed
  <2>2. ASSUME NEW label \in {"enter", "next"}, Goto(a, label) PROVE JobsApart
    BY <2>2, GotoIsApart
  <2>3. JobsApart /\ UNCHANGED locker
    BY <1>7, <2>2, ThrowIsApart DEF NoteListed
  <2> QED
    BY <2>1, <2>3
<1>8. CASE LoopEnds(a)
  BY <1>8, DoneIsApart, GotoIsApart DEF LoopEnds
<1>9. CASE Confirm(a) \/ Connect(a)
  BY <1>9, ThrowIsApart, DoneIsApart, GotoIsApart DEF Confirm, Connect, Renew
<1> QED
  BY <1>1, <1>2, <1>3, <1>4, <1>5, <1>6, <1>7, <1>8, <1>9 DEF ReconcileLoop

(* A crash empties the guard of its run, and with it the lock it held. *)
LEMMA CrashKeepsInv ==
  ASSUME DispatchTypeOK, DispatchInv, NEW r \in Runs, Crash(r)
  PROVE  DispatchInv'
<1> USE ActivityParts DEF DispatchTypeOK, DispatchInv
<1>1. JobsApart /\ WorldCalm
  BY UnchangedIntentIsCalm DEF Crash, JobsApart, Claimed, InGuard
<1>2. ASSUME NEW b \in Activities, pc'[b] \in InGuard PROVE Run(b) # r /\ pc[b] \in InGuard
  BY <1>2 DEF Crash, InGuard
<1>3. GuardIsExclusive'
  BY <1>2 DEF Crash, GuardIsExclusive, RollbackSubmit, StoreUnchanged, storeVars
<1> QED
  BY <1>1, <1>3, CalmKeepsClaims

(* Every step keeps the invariant. *)
LEMMA StepKeepsInv ==
  ASSUME DispatchTypeOK, LeaseTypeOK, DispatchInv, [Next]_vars
  PROVE  DispatchInv'
<1> USE ActivityParts, TypesOfAHandler, UnchangedStoreLock, UnchangedWorldIsCalm, UnchangedIntentIsCalm,
        CalmKeepsInv
    DEF DispatchTypeOK
<1>1. ASSUME NEW a \in Activities, Dispatch(a) PROVE DispatchInv'
  BY <1>1, ClaimedSectionKeepsInv, OtherDispatchIsCalm DEF Dispatch
<1>2. ASSUME NEW a \in Activities, ReconcileLoop(a) PROVE DispatchInv'
  BY <1>2, ReconcileLoopIsCalm
<1>3. ASSUME NEW a \in Activities, NEW i \in Intents, Decide(a, i) PROVE DispatchInv'
  <2>1. JobsApart
    BY <1>3 DEF Decide, JobsApart, JobTypeOK, Claimed, InGuard
  <2>2. WorldCalm
    BY <1>3 DEF Decide, WorldCalm, WorldTypeOK, Claimable, historyVars
  <2> QED
    BY <1>3, <2>1, <2>2 DEF Decide, Calm
<1>4. ASSUME NEW a \in Activities, Persist(a) \/ ReadFails(a) PROVE DispatchInv'
  BY <1>4, ThrowIsApart, DoneIsApart
  DEF Persist, PersistThen, WriteCheckpointOwned, leaseVars, ReadFails, Calm
<1>5. ASSUME NEW a \in Activities, HaltRow(a) \/ HaltSave(a) PROVE DispatchInv'
  BY <1>5, ThrowIsApart, DoneIsApart, GotoIsApart
  DEF HaltRow, HaltSave, UpdateRun, WriteCheckpointOwned, leaseVars, Calm, Claimed, InGuard
<1>6. ASSUME NEW a \in Activities, HaltRelease(a) PROVE DispatchInv'
  BY <1>6, DispatchReturnsIsApart, DoneIsApart DEF HaltRelease, Release, Calm
<1>7. ASSUME NEW a \in Activities, NEW i \in Intents, NEW s \in OrderStates, TradeUpdate(a, i, s)
      PROVE  DispatchInv'
  <2>1. CASE Record(i, Found(s)) /\ Goto(a, "persist") /\ StoreUnchanged
    <3>1. Found(s) \in BrokerOrderState
      BY <1>7 DEF TradeUpdate, WasIn, WorldTypeOK, OrderStates, Found, BrokerOrderState,
         ExecutionStatus, Final, Acknowledged
    <3>2. WorldCalm
      BY <1>7, <2>1, <3>1, RecordIsCalm DEF TradeUpdate
    <3> QED
      BY <2>1, <3>2, GotoIsApart DEF Calm, Claimed, InGuard
  <2>2. CASE Throw(a) /\ UNCHANGED intent
    BY <1>7, <2>2, ThrowIsApart DEF TradeUpdate, Calm
  <2> QED
    BY <1>7, <2>1, <2>2 DEF TradeUpdate
<1>8. ASSUME NEW r \in Runs, RenewTimer(r) PROVE DispatchInv'
  BY <1>8 DEF RenewTimer, Renew, LoseOwnership, leaseVars, jobVars, Calm, JobsApart
<1>9. ASSUME NEW r \in Runs, Crash(r) PROVE DispatchInv'
  BY <1>9, CrashKeepsInv
<1>10. ASSUME NEW q \in requests, Arrive(q) \/ LoseRequest(q) PROVE DispatchInv'
  BY <1>10 DEF Arrive, LoseRequest, storeVars, jobVars, Calm, JobsApart
<1>11. ASSUME NEW i \in Intents, SettleOrder(i) PROVE DispatchInv'
  BY <1>11 DEF SettleOrder, storeVars, jobVars, Calm, JobsApart
<1>12. CASE TimePasses \/ UNCHANGED vars
  BY <1>12 DEF TimePasses, Tick, vars, storeVars, jobVars, Calm, JobsApart
<1> QED
  BY <1>1, <1>2, <1>3, <1>4, <1>5, <1>6, <1>7, <1>8, <1>9, <1>10, <1>11, <1>12 DEF Next

(* The row lock has one holder inside withDispatchAuthority, and a claim that may still post is
   the first and only one of its intent, for any number of runs, intents and reconcile() calls. *)
THEOREM DispatchInvariance == Spec => []DispatchInv
<1>1. Init => DispatchInv
  BY DEF Init, DispatchInv, GuardIsExclusive, ClaimComesOnce, Claimed, InGuard
<1>2. TypeOK /\ DispatchInv /\ [Next]_vars => DispatchInv'
  BY StepKeepsInv DEF TypeOK, DispatchTypeOK
<1> QED
  BY <1>1, <1>2, TypeCorrectness, PTL DEF Spec

(* Whatever the runs, crashes, lost replies and overlapping handlers: one   *)
(* intent is POSTed once, unless putIntent wrote over its claim.            *)
THEOREM OnePostPerIntent == Spec => []AtMostOncePost
<1>1. TypeOK /\ DispatchInv => AtMostOncePost
  BY DEF TypeOK, WorldTypeOK, DispatchInv, ClaimComesOnce, AtMostOncePost
<1> QED
  BY <1>1, TypeCorrectness, DispatchInvariance, PTL

(* A POST is awaited by one activity, of the run that owns the lease.       *)
THEOREM PostsAreExclusive == Spec => []OnePostUnderLease
<1>1. DispatchInv /\ LeaseInv => OnePostUnderLease
  BY ActivityParts, NoRunAssumption
  DEF DispatchInv, GuardIsExclusive, InGuard, LeaseInv, SubmitPinsOwner, OnePostUnderLease
<1> QED
  BY <1>1, DispatchInvariance, DispatchImplementsLease, LeaseInvariance, PTL

----------------------------------------------------------------------------
(* One handler moves: the others stay where they are, with what they hold.  *)
Others(a) ==
  \A b \in Activities \ {a} : pc'[b] = pc[b] /\ handled'[b] = handled[b] /\ local'[b] = local[b]
\* The mover keeps what it listed, or has returned.
Moves(a, labels) ==
  Others(a) /\ pc'[a] \in labels /\ local'[a].listed \in {local[a].listed, NoLocals.listed}

(* A handler that goes on moves alone. *)
LEMMA GotoMoves ==
  ASSUME JobTypeOK, NEW a \in Activities, NEW label,
         Goto(a, label)
  PROVE  Moves(a, {label}) /\ handled'[a] = handled[a]
  BY DEF JobTypeOK, Goto, Moves, Others

(* So does one that stores something else than a listing. *)
LEMMA GotoWithMoves ==
  ASSUME JobTypeOK, NEW a \in Activities, NEW label, NEW l, GotoWith(a, label, l),
         l.listed = local[a].listed
  PROVE  Moves(a, {label}) /\ handled'[a] = handled[a] /\ local'[a] = l
  BY DEF JobTypeOK, GotoWith, Moves, Others

(* A handler that returned is idle. *)
LEMMA DoneMoves ==
  ASSUME JobTypeOK, NEW a \in Activities, Done(a)
  PROVE  Moves(a, {"idle"})
  BY DEF JobTypeOK, Done, Moves, Others

(* dispatch() returns to the bar queue or to the loop that called it. *)
LEMMA DispatchReturnsMoves ==
  ASSUME JobTypeOK, NEW a \in Activities, DispatchReturns(a)
  PROVE  Moves(a, {"persist", "next"})
<1>1. PICK label \in {"persist", "next"} : Goto(a, label)
  BY DEF DispatchReturns
<1> QED
  BY <1>1, GotoMoves DEF Moves

(* A throw ends the handler or leaves it in halt(). *)
LEMMA ThrowMoves ==
  ASSUME JobTypeOK, NEW a \in Activities, Throw(a) \/ LoseAndThrow(a)
  PROVE  Moves(a, {"idle", "haltRow"})
<1>1. CASE Done(a)
  BY <1>1, DoneMoves DEF Moves
<1>2. CASE Goto(a, "haltRow")
  BY <1>2, GotoMoves DEF Moves
<1> QED
  BY <1>1, <1>2 DEF Throw, Halt, LoseAndThrow

----------------------------------------------------------------------------
(* A process starts with one handler.                                       *)

(* Until its streams are connected a run has one handler, the reconciler    *)
(* that start() is; a run without a process has none and owns nothing.      *)
StartsAlone ==
  /\ \A a, b \in Activities :
       Run(a) = Run(b) /\ ~started[Run(a)] /\ pc[a] # "idle" /\ pc[b] # "idle" => a = b
  /\ \A a \in Activities : ~started[Run(a)] /\ pc[a] # "idle" => Kind(a) \in Reconcilers
  /\ \A a \in Activities : state[Run(a)] = "DOWN" => pc[a] = "idle"
  /\ \A a \in Activities : pc[a] = "acquire" => ~started[Run(a)] /\ ~owns[Run(a)]
  /\ \A r \in Runs : state[r] = "DOWN" => ~started[r] /\ ~owns[r]

\* No run gets a process, its streams or the lease in such a step.
MemShrinks ==
  /\ UNCHANGED started
  /\ \A r \in Runs : (owns'[r] => owns[r]) /\ (state'[r] = "DOWN" => state[r] = "DOWN")

(* What throws or loses the lease only ends things. *)
LEMMA ThrowShrinks ==
  ASSUME MemTypeOK, NEW a \in Activities, Throw(a) \/ LoseAndThrow(a) \/ MemUnchanged
  PROVE  MemShrinks
  BY ActivityParts DEF Throw, LoseAndThrow, Halt, LoseOwnership, MemUnchanged, memVars, MemShrinks, MemTypeOK

(* A handler that is at work, or whose run has started, disturbs nothing. *)
LEMMA HandlerKeepsAlone ==
  ASSUME MemTypeOK, JobTypeOK, StartsAlone, NEW a \in Activities, Others(a), pc'[a] # "acquire", MemShrinks,
         pc[a] # "idle" \/ started[Run(a)]
  PROVE  StartsAlone'
<1> USE ActivityParts
<1>1. \A b \in Activities : pc'[b] # "idle" => pc[b] # "idle" \/ started[Run(b)]
  BY DEF Others
<1>2. \A b \in Activities : state'[Run(b)] = "DOWN" => state[Run(b)] = "DOWN" /\ pc'[b] = pc[b]
  BY DEF Others, MemShrinks, StartsAlone
<1>3. \A b \in Activities : pc'[b] = "acquire" => pc[b] = "acquire"
  BY DEF Others
<1> QED
  BY <1>1, <1>2, <1>3 DEF StartsAlone, MemShrinks

(* Each step of dispatch() moves one handler. *)
LEMMA DispatchMovesOne ==
  ASSUME DispatchTypeOK, NEW a \in Activities, Dispatch(a)
  PROVE  Others(a) /\ pc'[a] # "acquire" /\ MemShrinks /\ pc[a] # "idle"
<1> USE ActivityParts, TypesOfAHandler DEF DispatchTypeOK
<1>1. CASE StaleBar(a) \/ ReadOpenOrders(a) \/ PutIntent(a) \/ SubmitLookupFails(a)
  <2>1. PICK label \in {"putStale", "putBack", "lookup", "persist", "next", "threw"} : Goto(a, label)
    BY <1>1 DEF StaleBar, ReadOpenOrders, PutIntent, DispatchReturns, SubmitLookupFails
  <2> QED
    BY <1>1, <2>1, GotoMoves, ThrowShrinks
    DEF StaleBar, ReadOpenOrders, PutIntent, SubmitLookupFails, Moves
<1>2. CASE ReadPosition(a) \/ LookUpBefore(a)
  <2>1. PICK label \in {"orders", "noteBefore"} : \E l : GotoWith(a, label, l)
    BY <1>2 DEF ReadPosition, LookUpBefore
  <2>2. Others(a) /\ pc'[a] = label
    <3>1. PICK l : GotoWith(a, label, l)
      BY <2>1
    <3> QED
      BY <3>1 DEF GotoWith, JobTypeOK, Others
  <2>3. MemShrinks
    BY <1>2, ThrowShrinks DEF ReadPosition, LookUpBefore, MemShrinks
  <2> QED
    BY <1>2, <2>1, <2>2, <2>3 DEF ReadPosition, LookUpBefore
<1>3. CASE NoteBefore(a) \/ Claim(a) \/ EnterGuard(a) \/ SubmitThrew(a)
  <2>1. Moves(a, Labels \ {"acquire"})
    BY <1>3, ThrowMoves, DispatchReturnsMoves, GotoMoves
    DEF NoteBefore, Claim, EnterGuard, SubmitThrew, Moves, Labels
  <2>2. MemShrinks
    BY <1>3, ThrowShrinks DEF NoteBefore, Claim, EnterGuard, SubmitThrew
  <2> QED
    BY <1>3, <2>1, <2>2 DEF NoteBefore, Claim, EnterGuard, SubmitThrew, Moves
<1>4. CASE Submit(a) \/ PostAnswered(a) \/ PostUnanswered(a) \/ PostAnsweredByGateway(a)
  <2>1. \/ \E label \in {"posted", "threw"} : Goto(a, label)
        \/ \E seen : SubmitReturns(a, seen)
    BY <1>4 DEF Submit, PostAnswered, PostUnanswered, PostAnsweredByGateway
  <2>2. ASSUME NEW seen, SubmitReturns(a, seen) PROVE Others(a) /\ pc'[a] = "noteAfter"
    BY <2>2 DEF SubmitReturns, GotoWith, JobTypeOK, Others
  <2>3. Others(a) /\ pc'[a] # "acquire"
    BY <2>1, <2>2, GotoMoves DEF Moves
  <2>4. MemShrinks
    BY <1>4, ThrowShrinks DEF Submit, PostAnswered, PostUnanswered, PostAnsweredByGateway, MemShrinks
  <2> QED
    BY <1>4, <2>3, <2>4 DEF Submit, PostAnswered, PostUnanswered, GivesUp, PostAnsweredByGateway
<1>5. CASE NoteAfter(a)
  <2>1. (\E l : GotoWith(a, "haltRow", l)) \/ Throw(a) \/ DispatchReturns(a)
    BY <1>5 DEF NoteAfter
  <2>2. ASSUME NEW l, GotoWith(a, "haltRow", l) PROVE Others(a) /\ pc'[a] = "haltRow"
    BY <2>2 DEF GotoWith, JobTypeOK, Others
  <2>3. Others(a) /\ pc'[a] # "acquire"
    BY <2>1, <2>2, ThrowMoves, DispatchReturnsMoves DEF Moves
  <2>4. ASSUME state' = [state EXCEPT ![Run(a)] = "HALTED"], UNCHANGED <<owns, started>> PROVE MemShrinks
    BY <2>4 DEF MemShrinks, MemTypeOK
  <2>5. MemShrinks
    BY <1>5, <2>4, ThrowShrinks DEF NoteAfter
  <2> QED
    BY <1>5, <2>3, <2>5 DEF NoteAfter
<1> QED
  BY <1>1, <1>2, <1>3, <1>4, <1>5 DEF Dispatch

(* So do those of start() and reconcile(), the three that give a run its     *)
(* process, its lease and its streams apart.                                *)
ReconcileLoopLater(a) ==
  \/ LeaseRefused(a) \/ Reconcile(a) \/ RowReconciling(a) \/ SaveEquity(a) \/ ListIntents(a)
  \/ (\E i \in Intents : LookUpListed(a, i)) \/ NoteListed(a) \/ LoopEnds(a) \/ Confirm(a)
  \/ SaveReady(a) \/ RowReady(a)

LEMMA ReconcilingMovesOne ==
  ASSUME DispatchTypeOK, NEW a \in Activities, ReconcileLoopLater(a)
  PROVE  Others(a) /\ pc'[a] # "acquire" /\ MemShrinks /\ (pc[a] # "idle" \/ started[Run(a)])
<1> USE ActivityParts, TypesOfAHandler DEF DispatchTypeOK
<1>1. ASSUME \E s \in WorkerStates \ {"DOWN"} : state' = [state EXCEPT ![Run(a)] = s],
             UNCHANGED <<owns, started>>
      PROVE  MemShrinks
  BY <1>1 DEF MemShrinks, MemTypeOK
<1>2. CASE LeaseRefused(a) \/ Reconcile(a) \/ RowReconciling(a)
  <2>1. Moves(a, Labels \ {"acquire"})
    BY <1>2, ThrowMoves, DoneMoves, GotoMoves DEF LeaseRefused, Reconcile, RowReconciling, Moves, Labels
  <2>2. MemShrinks
    BY <1>1, <1>2, ThrowShrinks DEF LeaseRefused, Reconcile, RowReconciling, WorkerStates
  <2> QED
    BY <1>2, <2>1, <2>2 DEF LeaseRefused, Reconcile, RowReconciling, Moves
<1>3. CASE SaveEquity(a) \/ SaveReady(a) \/ LoopEnds(a) \/ Confirm(a) \/ RowReady(a)
  <2>1. Moves(a, Labels \ {"acquire"})
    BY <1>3, ThrowMoves, DoneMoves, GotoMoves
    DEF SaveEquity, SaveReady, PersistThen, LoopEnds, Confirm, RowReady, Moves, Labels
  <2>2. MemShrinks
    BY <1>1, <1>3, ThrowShrinks DEF SaveEquity, SaveReady, PersistThen, LoopEnds, Confirm, RowReady, WorkerStates
  <2> QED
    BY <1>3, <2>1, <2>2 DEF SaveEquity, SaveReady, LoopEnds, Confirm, RowReady, Moves
<1>4. CASE ListIntents(a)
  <2>1. Done(a) \/ \E l : GotoWith(a, "next", l)
    BY <1>4 DEF ListIntents
  <2>2. ASSUME NEW l, GotoWith(a, "next", l) PROVE Others(a) /\ pc'[a] = "next"
    BY <2>2 DEF GotoWith, JobTypeOK, Others
  <2> QED
    BY <1>4, <2>1, <2>2, DoneMoves, ThrowShrinks DEF ListIntents, Moves
<1>5. ASSUME NEW i \in Intents, LookUpListed(a, i)
      PROVE  Others(a) /\ pc'[a] # "acquire" /\ MemShrinks /\ pc[a] # "idle"
  <2>1. CASE Throw(a)
    BY <1>5, <2>1, ThrowMoves, ThrowShrinks DEF LookUpListed, Moves
  <2>2. ASSUME NEW seen, pc' = [pc EXCEPT ![a] = "note"], handled' = [handled EXCEPT ![a] = i],
               local' = [local EXCEPT ![a].seen = seen, ![a].listed[i] = "NONE"]
        PROVE  Others(a) /\ pc'[a] = "note"
    BY <2>2 DEF Others, JobTypeOK
  <2>3. CASE ~Throw(a)
    <3>1. /\ pc' = [pc EXCEPT ![a] = "note"] /\ handled' = [handled EXCEPT ![a] = i]
          /\ \E seen : local' = [local EXCEPT ![a].seen = seen, ![a].listed[i] = "NONE"]
      BY <1>5, <2>3 DEF LookUpListed
    <3>2. Others(a) /\ pc'[a] = "note"
      BY <2>2, <3>1
    <3> QED
      BY <1>5, <2>3, <3>2 DEF LookUpListed, MemShrinks
  <2> QED
    BY <2>1, <2>3
<1>6. CASE NoteListed(a)
  <2>1. ASSUME NEW label \in {"enter", "next"}, Goto(a, label) PROVE Moves(a, {"enter", "next"})
    BY <2>1, GotoMoves DEF Moves
  <2> QED
    BY <1>6, <2>1, ThrowMoves, ThrowShrinks DEF NoteListed, Moves
<1> QED
  BY <1>2, <1>3, <1>4, <1>5, <1>6 DEF ReconcileLoopLater

(* And those of the other callbacks. *)
OtherHandler(a) ==
  \/ \E i \in Intents : Decide(a, i)
  \/ Persist(a) \/ HaltRow(a) \/ HaltSave(a) \/ HaltRelease(a) \/ ReadFails(a)
  \/ \E i \in Intents, s \in OrderStates : TradeUpdate(a, i, s)

LEMMA OtherHandlersMoveOne ==
  ASSUME DispatchTypeOK, NEW a \in Activities, OtherHandler(a)
  PROVE  Others(a) /\ pc'[a] # "acquire" /\ MemShrinks /\ (pc[a] # "idle" \/ started[Run(a)])
<1> USE ActivityParts DEF DispatchTypeOK
<1>1. ASSUME NEW i \in Intents, Decide(a, i)
      PROVE  Others(a) /\ pc'[a] # "acquire" /\ MemShrinks /\ started[Run(a)]
  BY <1>1, ThrowShrinks DEF Decide, Others, JobTypeOK
<1>2. CASE Persist(a) \/ HaltRow(a) \/ HaltSave(a) \/ ReadFails(a)
  <2>1. Moves(a, Labels \ {"acquire"})
    BY <1>2, ThrowMoves, DoneMoves, GotoMoves DEF Persist, PersistThen, HaltRow, HaltSave, ReadFails, Moves, Labels
  <2>2. MemShrinks
    BY <1>2, ThrowShrinks DEF Persist, PersistThen, HaltRow, HaltSave, ReadFails
  <2> QED
    BY <1>2, <2>1, <2>2 DEF Persist, HaltRow, HaltSave, ReadFails, Moves
<1>3. CASE HaltRelease(a)
  <2>1. MemShrinks
    BY <1>3 DEF HaltRelease, MemShrinks, MemTypeOK
  <2>2. DispatchReturns(a) \/ Done(a)
    BY <1>3 DEF HaltRelease
  <2> QED
    BY <1>3, <2>1, <2>2, DispatchReturnsMoves, DoneMoves DEF HaltRelease, Moves
<1>4. ASSUME NEW i \in Intents, NEW s \in OrderStates, TradeUpdate(a, i, s)
      PROVE  Others(a) /\ pc'[a] # "acquire" /\ MemShrinks /\ started[Run(a)]
  BY <1>4, ThrowMoves, GotoMoves, ThrowShrinks DEF TradeUpdate, Moves
<1> QED
  BY <1>1, <1>2, <1>3, <1>4 DEF OtherHandler

(* The steps of Next: a handler, or a process that begins, or what no       *)
(* handler does.                                                            *)
Outside ==
  \/ \E q \in requests : Arrive(q) \/ LoseRequest(q)
  \/ \E i \in Intents : SettleOrder(i)
  \/ TimePasses
  \/ UNCHANGED vars

LEMMA KindsOfSteps ==
  ASSUME [Next]_vars
  PROVE  \/ \E a \in Activities : Dispatch(a) \/ ReconcileLoopLater(a) \/ OtherHandler(a)
         \/ \E a \in Activities : Start(a) \/ TakeLease(a) \/ Connect(a)
         \/ \E r \in Runs : RenewTimer(r) \/ Crash(r)
         \/ Outside
<1>1. CASE \E a \in Activities : ReconcileLoop(a)
  BY <1>1 DEF ReconcileLoop, ReconcileLoopLater
<1>2. CASE \/ \E a \in Activities, i \in Intents : Decide(a, i)
           \/ \E a \in Activities, i \in Intents, s \in OrderStates : TradeUpdate(a, i, s)
  BY <1>2 DEF OtherHandler
<1>3. CASE \E a \in Activities : Persist(a) \/ ReadFails(a) \/ HaltRow(a) \/ HaltSave(a) \/ HaltRelease(a)
  BY <1>3 DEF OtherHandler
<1> QED
  BY <1>1, <1>2, <1>3 DEF Next, Outside

(* Nothing outside the processes moves a handler or changes a memory. *)
LEMMA OutsideMovesNone == Outside => UNCHANGED <<memVars, jobVars>>
  BY DEF Outside, Arrive, LoseRequest, SettleOrder, TimePasses, vars

(* Every step keeps it. *)
LEMMA StepKeepsAlone ==
  ASSUME DispatchTypeOK, StartsAlone, [Next]_vars
  PROVE  StartsAlone'
<1> USE ActivityParts DEF DispatchTypeOK
<1>1. ASSUME NEW a \in Activities, Dispatch(a) \/ ReconcileLoopLater(a) \/ OtherHandler(a)
      PROVE  StartsAlone'
  BY <1>1, DispatchMovesOne, ReconcilingMovesOne, OtherHandlersMoveOne, HandlerKeepsAlone
<1>2. ASSUME NEW a \in Activities, Start(a) PROVE StartsAlone'
  <2>1. /\ Others(a) /\ pc'[a] = "acquire" /\ Kind(a) \in Reconcilers /\ state[Run(a)] = "DOWN"
        /\ state' = [state EXCEPT ![Run(a)] = "STARTING"] /\ UNCHANGED <<owns, started>>
    BY <1>2, GotoMoves DEF Start, Moves
  <2> QED
    BY <2>1 DEF StartsAlone, Others, MemTypeOK
<1>3. ASSUME NEW a \in Activities, TakeLease(a) PROVE StartsAlone'
  <2>1. /\ Others(a) /\ pc[a] = "acquire" /\ pc'[a] = "row" /\ owns' = [owns EXCEPT ![Run(a)] = TRUE]
        /\ state' = [state EXCEPT ![Run(a)] = "RECONCILING"] /\ UNCHANGED started
    BY <1>3, GotoMoves DEF TakeLease, Moves
  <2> QED
    BY <2>1 DEF StartsAlone, Others, MemTypeOK
<1>4. ASSUME NEW a \in Activities, Connect(a) PROVE StartsAlone'
  <2>1. Others(a) /\ pc'[a] \in {"idle", "haltRow"} /\ pc[a] = "connect"
    BY <1>4, ThrowMoves, DoneMoves DEF Connect, Moves
  <2>2. CASE MemShrinks
    BY <2>1, <2>2, HandlerKeepsAlone
  <2>3. CASE started' = [started EXCEPT ![Run(a)] = TRUE] /\ UNCHANGED <<state, owns>>
    BY <2>1, <2>3 DEF StartsAlone, Others, MemTypeOK
  <2> QED
    BY <1>4, <2>2, <2>3, ThrowShrinks DEF Connect
<1>5. ASSUME NEW r \in Runs, RenewTimer(r) PROVE StartsAlone'
  <2>1. MemShrinks /\ UNCHANGED pc
    BY <1>5, ThrowShrinks DEF RenewTimer, LoseOwnership, MemUnchanged, memVars, MemShrinks, MemTypeOK, jobVars
  <2> QED
    BY <2>1 DEF StartsAlone, MemShrinks
<1>6. ASSUME NEW r \in Runs, Crash(r) PROVE StartsAlone'
  BY <1>6 DEF Crash, StartsAlone, MemTypeOK
<1>7. CASE Outside
  BY <1>7, OutsideMovesNone DEF StartsAlone, memVars, jobVars
<1> QED
  BY <1>1, <1>2, <1>3, <1>4, <1>5, <1>6, <1>7, KindsOfSteps

(* Until its streams are connected, a run is one handler. *)
THEOREM ProcessesStartAlone == Spec => []StartsAlone
<1>1. Init => StartsAlone
  BY DEF Init, StartsAlone, Activities, Run
<1>2. TypeOK /\ StartsAlone /\ [Next]_vars => StartsAlone'
  BY StepKeepsAlone DEF TypeOK, DispatchTypeOK
<1> QED
  BY <1>1, <1>2, TypeCorrectness, PTL DEF Spec

----------------------------------------------------------------------------
(* The durable status only moves on.                                        *)

(* What a step may do to one intent: a decision makes it, a putIntent       *)
(* rewinds it (or finds it PENDING), a claim marks it, or an observation is *)
(* projected on it.                                                         *)
MayChange(i) ==
  \/ intent'[i] = intent[i]
  \/ intent[i] = "NONE"
  \/ intent[i] = "PENDING" /\ intent'[i] \in {"CANCELLED", Marker}
  \/ rewound'[i]
  \/ \E seen \in BrokerOrderState : intent'[i] = ProjectedStatus(intent[i], seen)

(* recordBrokerOrder changes intents by projections. *)
LEMMA RecordMayChange ==
  ASSUME WorldTypeOK, NEW i \in Intents, NEW seen \in BrokerOrderState, Record(i, seen)
  PROVE  \A j \in Intents : MayChange(j)
  BY DEF Record, WorldTypeOK, MayChange

(* Every step does nothing else to an intent. *)
LEMMA StepMayChange ==
  ASSUME DispatchTypeOK, [Next]_vars
  PROVE  \A i \in Intents : MayChange(i)
<1> USE TypesOfAHandler DEF DispatchTypeOK
<1>1. CASE UNCHANGED intent
  BY <1>1 DEF MayChange
<1>2. ASSUME NEW a \in Activities, NoteBefore(a) \/ NoteAfter(a) \/ NoteListed(a)
      PROVE  \A i \in Intents : MayChange(i)
  <2>1. handled[a] \in Intents
    BY <1>2 DEF NoteBefore, NoteAfter, NoteListed, AboutAnIntent
  <2> QED
    BY <1>1, <1>2, <2>1, RecordMayChange DEF NoteBefore, NoteAfter, NoteListed
<1>3. ASSUME NEW a \in Activities, Claim(a) PROVE \A i \in Intents : MayChange(i)
  <2>1. handled[a] \in Intents
    BY <1>3 DEF Claim, AboutAnIntent
  <2> QED
    BY <1>3, <2>1 DEF Claim, MayClaim, MayChange, WorldTypeOK
<1>4. ASSUME NEW a \in Activities, PutIntent(a) PROVE \A i \in Intents : MayChange(i)
  <2>1. handled[a] \in Intents
    BY <1>4 DEF PutIntent, AboutAnIntent
  <2> QED
    BY <1>4, <2>1 DEF PutIntent, MayChange, WorldTypeOK
<1>5. ASSUME NEW a \in Activities, NEW i \in Intents, Decide(a, i)
      PROVE  \A j \in Intents : MayChange(j)
  BY <1>5 DEF Decide, MayChange, WorldTypeOK
<1>6. ASSUME NEW a \in Activities, NEW i \in Intents, NEW s \in OrderStates, TradeUpdate(a, i, s)
      PROVE  \A j \in Intents : MayChange(j)
  <2>1. Found(s) \in BrokerOrderState
    BY <1>6 DEF TradeUpdate, WasIn, WorldTypeOK, OrderStates, Found, BrokerOrderState,
       ExecutionStatus, Final, Acknowledged
  <2> QED
    BY <1>1, <1>6, <2>1, RecordMayChange DEF TradeUpdate
<1>7. ASSUME NEW a \in Activities, Dispatch(a) PROVE \A i \in Intents : MayChange(i)
  <2>1. CASE StaleBar(a) \/ ReadPosition(a) \/ ReadOpenOrders(a) \/ LookUpBefore(a) \/ EnterGuard(a)
    BY <1>1, <2>1 DEF StaleBar, ReadPosition, ReadOpenOrders, LookUpBefore, EnterGuard, WorldUnchanged
  <2>2. CASE \/ Submit(a) \/ PostAnswered(a) \/ PostUnanswered(a) \/ PostAnsweredByGateway(a)
             \/ SubmitLookupFails(a) \/ SubmitThrew(a)
    BY <1>1, <2>2 DEF Submit, PostAnswered, PostUnanswered, PostAnsweredByGateway, SubmitLookupFails,
       SubmitThrew, WorldUnchanged
  <2> QED
    BY <1>2, <1>3, <1>4, <1>7, <2>1, <2>2 DEF Dispatch
<1>8. ASSUME NEW a \in Activities, ReconcileLoop(a) PROVE \A i \in Intents : MayChange(i)
  BY <1>1, <1>2, <1>8
  DEF ReconcileLoop, Start, TakeLease, LeaseRefused, Reconcile, RowReconciling, SaveEquity, ListIntents,
      LookUpListed, LoopEnds, Confirm, SaveReady, RowReady, Connect, WorldUnchanged
<1>9. ASSUME NEW a \in Activities, Persist(a) \/ HaltRow(a) \/ HaltSave(a) \/ HaltRelease(a) \/ ReadFails(a)
      PROVE  UNCHANGED intent
  BY <1>9 DEF Persist, HaltRow, HaltSave, HaltRelease, ReadFails, WorldUnchanged
<1>10. ASSUME NEW r \in Runs, RenewTimer(r) \/ Crash(r) PROVE UNCHANGED intent
  BY <1>10 DEF RenewTimer, Crash, WorldUnchanged
<1>11. ASSUME NEW q \in requests, Arrive(q) \/ LoseRequest(q) PROVE UNCHANGED intent
  BY <1>11 DEF Arrive, LoseRequest
<1>12. ASSUME NEW i \in Intents, SettleOrder(i) PROVE UNCHANGED intent
  BY <1>12 DEF SettleOrder
<1>13. CASE TimePasses \/ UNCHANGED vars
  BY <1>1, <1>13 DEF TimePasses, vars
<1> QED
  BY <1>1, <1>3, <1>5, <1>6, <1>7, <1>8, <1>9, <1>10, <1>11, <1>12, <1>13 DEF Next

(* An observation never takes a status back: neither an end, nor a marker   *)
(* to a claimable intent.                                                   *)
LEMMA ProjectionMovesOn ==
  ASSUME NEW current \in Rows, NEW seen \in BrokerOrderState
  PROVE  /\ current \in Final => ProjectedStatus(current, seen) = current
         /\ current \in {"SUBMISSION_ATTEMPTED", "UNKNOWN"} => ProjectedStatus(current, seen) # "PENDING"
  BY DEF Rows, ExecutionStatus, BrokerOrderState, ProjectedStatus, KeepsStatus, Final, Acknowledged

(* As long as no putIntent wrote over it, an intent that was claimed is     *)
(* never claimable again and one that ended keeps its end.                  *)
THEOREM StatusMovesOn == Spec => StatusNeverRegresses
<1> DEFINE MovesOn(i) ==
      ~rewound'[i] =>
        /\ intent[i] \in {"SUBMISSION_ATTEMPTED", "UNKNOWN"} => intent'[i] # "PENDING"
        /\ intent[i] \in Final => intent'[i] = intent[i]
<1>1. ASSUME TypeOK, [Next]_vars, NEW i \in Intents PROVE MovesOn(i)
  <2>1. MayChange(i) /\ intent[i] \in Rows
    BY <1>1, StepMayChange DEF TypeOK, DispatchTypeOK, WorldTypeOK
  <2> QED
    BY <2>1, ProjectionMovesOn DEF MayChange, Final
<1>2. TypeOK /\ [Next]_vars => [\A i \in Intents : MovesOn(i)]_vars
  BY <1>1
<1> QED
  BY <1>2, TypeCorrectness, PTL DEF Spec, StatusNeverRegresses

----------------------------------------------------------------------------
(* The durable projection never says more than the broker.                  *)

Observing == {"note", "noteBefore", "noteAfter"}

(* A request that is awaited is the only one of its caller, and about the   *)
(* intent the caller is at; one that is left behind is still on its way.    *)
RequestsAreAwaited ==
  \A q \in requests :
    IF q.by = NoOne THEN q.at = "sent"
    ELSE /\ pc[q.by] = "posted" /\ handled[q.by] = q.about
         /\ \A p \in requests : p.by = q.by => p = q

(* What a lookup found, or an answer said, still holds of the order. *)
Real(i, seen) ==
  seen.lookup = "FOUND" =>
    /\ seen.status \in {"ACCEPTED", "FILLED", "CANCELLED"} /\ order[i] # "NONE"
    /\ seen.status \in {"FILLED", "CANCELLED"} => order[i] = seen.status

AnswersAreReal == \A q \in requests : q.at = "accepted" => order[q.about] # "NONE"
ObservationsAreReal == \A a \in Activities : pc[a] \in Observing => Real(handled[a], local[a].seen)

(* What else an observation may say.  Only submit() leaves a lookup         *)
(* unresolved, and only its "no order needed" is an end without an order.   *)
Modest(label, seen) ==
  /\ seen.lookup = "UNRESOLVED" => label = "noteAfter" /\ seen.status \in {"REJECTED", "UNKNOWN"}
  /\ seen.lookup = "ABSENT" =>
       IF label = "noteAfter" THEN seen.status \in {"CANCELLED", "UNKNOWN"} /\ ~seen.identified
                              ELSE seen.status \notin Final
ObservationsAreModest == \A a \in Activities : pc[a] \in Observing => Modest(pc[a], local[a].seen)

(* listIntents leaves out what ended. *)
ListedIsOpen == \A a \in Activities, i \in Intents : local[a].listed[i] \notin Final

ProjectionInv ==
  /\ RequestsAreAwaited
  /\ AnswersAreReal
  /\ ObservationsAreReal
  /\ ObservationsAreModest
  /\ ListedIsOpen
  /\ ProjectionIsReal

(* A step in which a handler neither starts nor ends waiting for a request, *)
(* and observes nothing.                                                    *)
Elsewhere == Labels \ (Observing \cup {"posted"})
LooksAway(a) == pc[a] # "posted" /\ Moves(a, Elsewhere)

(* Nobody looks at the broker and nothing moves there. *)
LEMMA LookingAway ==
  ASSUME WorldTypeOK, JobTypeOK, ProjectionInv, NEW a \in Activities, LooksAway(a),
         UNCHANGED <<order, requests>>
  PROVE  /\ RequestsAreAwaited' /\ AnswersAreReal' /\ ObservationsAreReal' /\ ObservationsAreModest'
         /\ ListedIsOpen'
<1> USE DEF ProjectionInv, LooksAway, Moves, Others, Elsewhere, Observing
<1>1. RequestsAreAwaited'
  BY DEF RequestsAreAwaited, WorldTypeOK, Requests
<1>2. AnswersAreReal'
  BY DEF AnswersAreReal
<1>3. ObservationsAreReal'
  BY DEF ObservationsAreReal, Real
<1>4. ObservationsAreModest'
  BY DEF ObservationsAreModest, Modest
<1>5. ListedIsOpen'
  BY DEF ListedIsOpen, NoLocals, Final
<1> QED
  BY <1>1, <1>2, <1>3, <1>4, <1>5

(* A projection of a real observation is real. *)
LEMMA RecordIsReal ==
  ASSUME WorldTypeOK, ProjectionIsReal, NEW i \in Intents, NEW seen \in BrokerOrderState,
         Record(i, seen), UNCHANGED order, Real(i, seen),
         seen.lookup = "UNRESOLVED" => seen.status \in {"REJECTED", "UNKNOWN"}
  PROVE  ProjectionIsReal'
<1>1. ASSUME ProjectedStatus(intent[i], seen) # intent[i], ProjectedStatus(intent[i], seen) \in {"FILLED", "ACCEPTED"}
      PROVE  seen.lookup = "FOUND" /\ ProjectedStatus(intent[i], seen) = seen.status
  BY <1>1 DEF ProjectedStatus, KeepsStatus, NoOrderNeeded, BrokerOrderState
<1> QED
  BY <1>1 DEF ProjectionIsReal, Record, Real, WorldTypeOK

(* A step that writes no intent, or one without an order, keeps the         *)
(* projection real.                                                         *)
LEMMA OtherWritesAreReal ==
  ASSUME WorldTypeOK, ProjectionIsReal, UNCHANGED order,
         \/ UNCHANGED intent
         \/ \E i \in Intents, s \in Rows \ {"FILLED", "ACCEPTED"} : intent' = [intent EXCEPT ![i] = s]
  PROVE  ProjectionIsReal'
  BY DEF ProjectionIsReal, WorldTypeOK

(* What a lookup returns is real. *)
LEMMA LookUpIsReal ==
  ASSUME WorldTypeOK, NEW r, NEW i \in Intents, NEW status \in Rows \ Final
  PROVE  /\ Real(i, LookUp(r, i, status))
         /\ LookUp(r, i, status).lookup \in {"FOUND", "ABSENT"}
         /\ LookUp(r, i, status).lookup = "ABSENT" => /\ LookUp(r, i, status).status \in {status, "UNKNOWN"}
                                                      /\ ~LookUp(r, i, status).identified
  BY DEF LookUp, Found, Missing, Real, WorldTypeOK, OrderStates, Final

(* A handler that starts to look at the broker, after which nothing else    *)
(* than its observation is new.                                             *)
LEMMA Observes ==
  ASSUME WorldTypeOK, JobTypeOK, ProjectionInv, UNCHANGED <<intent, order>>,
         NEW a \in Activities, Others(a), pc'[a] \in Observing,
         Real(handled'[a], local'[a].seen), Modest(pc'[a], local'[a].seen),
         \A i \in Intents : local'[a].listed[i] \notin Final,
         RequestsAreAwaited', AnswersAreReal'
  PROVE  ProjectionInv'
<1> USE DEF ProjectionInv, Others
<1>1. ObservationsAreReal'
  BY DEF ObservationsAreReal, Real
<1>2. ObservationsAreModest'
  BY DEF ObservationsAreModest, Modest
<1>3. ListedIsOpen'
  BY DEF ListedIsOpen, Final
<1>4. ProjectionIsReal'
  BY OtherWritesAreReal
<1> QED
  BY <1>1, <1>2, <1>3, <1>4

(* Whoever looks at the broker without a POST leaves the requests alone. *)
LEMMA WaitingGoesOn ==
  ASSUME WorldTypeOK, RequestsAreAwaited, AnswersAreReal, UNCHANGED <<order, requests>>,
         NEW a \in Activities, Others(a), pc[a] # "posted"
  PROVE  RequestsAreAwaited' /\ AnswersAreReal'
  BY DEF RequestsAreAwaited, AnswersAreReal, WorldTypeOK, Requests, Others

(* A request whose caller is gone was on its way; the others stay as they are. *)
LEMMA LeftBehindParts ==
  ASSUME WorldTypeOK, NEW callers, NEW q \in LeftBehind(callers)
  PROVE  \/ q \in requests /\ q.by \notin callers
         \/ /\ q.by = NoOne /\ q.at = "sent"
            /\ \E p \in requests : p.by \in callers /\ p.about = q.about /\ p.at = "sent"
<1>1. CASE q \in requests /\ q.by \notin callers
  BY <1>1
<1>2. CASE ~(q \in requests /\ q.by \notin callers)
  <2>1. PICK p \in requests : p.by \in callers /\ p.at = "sent" /\ q = [p EXCEPT !.by = NoOne]
    BY <1>2 DEF LeftBehind
  <2>2. p \in Requests
    BY DEF WorldTypeOK
  <2> QED
    BY <2>1, <2>2 DEF Requests
<1> QED
  BY <1>1, <1>2

(* When an awaited request is given up or answered, no other changes hands. *)
LEMMA WaitingEnds ==
  ASSUME WorldTypeOK, RequestsAreAwaited, AnswersAreReal, UNCHANGED order,
         NEW a \in Activities, Others(a), pc[a] = "posted",
         \/ requests' = LeftBehind({a})
         \/ \E q \in requests : q.by = a /\ requests' = requests \ {q}
  PROVE  RequestsAreAwaited' /\ AnswersAreReal'
<1> USE DispatchAssumption DEF RequestsAreAwaited, AnswersAreReal, WorldTypeOK, Requests, Others
<1>1. NoOne \notin Activities
  BY DEF Activities, Kinds
<1>2. CASE requests' = LeftBehind({a})
  <2>1. ASSUME NEW q \in requests'
        PROVE  \/ q \in requests /\ q.by # a
               \/ q.by = NoOne /\ q.at = "sent"
    BY <1>2, LeftBehindParts
  <2> QED
    BY <1>1, <2>1
<1>3. ASSUME NEW q \in requests, q.by = a, requests' = requests \ {q}
      PROVE  RequestsAreAwaited' /\ AnswersAreReal'
  BY <1>1, <1>3
<1> QED
  BY <1>2, <1>3

(* A handler that looks away and writes nothing keeps the invariant. *)
LEMMA LookingAwayKeepsProjection ==
  ASSUME DispatchTypeOK, ProjectionInv, NEW a \in Activities, LooksAway(a), UNCHANGED <<order, requests>>,
         \/ UNCHANGED intent
         \/ \E i \in Intents, s \in Rows \ {"FILLED", "ACCEPTED"} : intent' = [intent EXCEPT ![i] = s]
  PROVE  ProjectionInv'
<1>1. ProjectionIsReal'
  BY OtherWritesAreReal DEF ProjectionInv, DispatchTypeOK
<1> QED
  BY <1>1, LookingAway DEF ProjectionInv, DispatchTypeOK

(* So does one that records what it has observed. *)
LEMMA RecordingKeepsProjection ==
  ASSUME DispatchTypeOK, ProjectionInv, NEW a \in Activities, LooksAway(a), UNCHANGED <<order, requests>>,
         pc[a] \in Observing, Record(handled[a], local[a].seen) \/ UNCHANGED intent
  PROVE  ProjectionInv'
<1> USE DEF DispatchTypeOK
<1>1. CASE UNCHANGED intent
  BY <1>1, LookingAwayKeepsProjection
<1>2. CASE Record(handled[a], local[a].seen)
  <2>1. handled[a] \in Intents /\ local[a].seen \in BrokerOrderState
    BY TypesOfAHandler DEF Observing, AboutAnIntent
  <2>2. Real(handled[a], local[a].seen) /\ Modest(pc[a], local[a].seen)
    BY DEF ProjectionInv, ObservationsAreReal, ObservationsAreModest
  <2>3. ProjectionIsReal'
    BY <1>2, <2>1, <2>2, RecordIsReal DEF ProjectionInv, Modest
  <2> QED
    BY <2>3, LookingAway DEF ProjectionInv
<1> QED
  BY <1>1, <1>2

(* submit() returned: the handler holds what it said. *)
LEMMA SubmitReturnsParts ==
  ASSUME JobTypeOK, NEW a \in Activities, NEW seen, SubmitReturns(a, seen)
  PROVE  /\ Moves(a, {"noteAfter"}) /\ handled'[a] = handled[a]
         /\ local'[a].seen = seen /\ local'[a].listed = local[a].listed
<1>1. PICK l : GotoWith(a, "noteAfter", l) /\ l.listed = local[a].listed /\ l.seen = seen
  BY DEF SubmitReturns, JobTypeOK, Locals
<1> QED
  BY <1>1, GotoWithMoves

(* If it said so with reason, the projection stays real. *)
LEMMA SubmitReturnsKeepsProjection ==
  ASSUME DispatchTypeOK, ProjectionInv, UNCHANGED <<intent, order>>, NEW a \in Activities, NEW seen,
         SubmitReturns(a, seen), Real(handled[a], seen), Modest("noteAfter", seen),
         RequestsAreAwaited', AnswersAreReal'
  PROVE  ProjectionInv'
<1>1. /\ Others(a) /\ pc'[a] = "noteAfter" /\ handled'[a] = handled[a]
      /\ local'[a].seen = seen /\ local'[a].listed = local[a].listed
  BY SubmitReturnsParts DEF Moves, DispatchTypeOK
<1>2. \A i \in Intents : local'[a].listed[i] \notin Final
  BY <1>1 DEF ProjectionInv, ListedIsOpen
<1>3. Real(handled'[a], local'[a].seen) /\ Modest(pc'[a], local'[a].seen) /\ pc'[a] \in Observing
  BY <1>1 DEF Observing
<1> QED
  BY <1>1, <1>2, <1>3, Observes DEF DispatchTypeOK

(* dispatch() keeps the projection real. *)
LEMMA DispatchKeepsProjection ==
  ASSUME DispatchTypeOK, ProjectionInv, NEW a \in Activities, Dispatch(a)
  PROVE  ProjectionInv'
<1> USE TypesOfAHandler DEF DispatchTypeOK
<1> USE DEF Elsewhere, LooksAway, Labels, Observing
<1>1. CASE StaleBar(a) \/ SubmitLookupFails(a)
  <2>1. LooksAway(a)
    BY <1>1, GotoMoves DEF StaleBar, SubmitLookupFails, Moves
  <2> QED
    BY <1>1, <2>1, LookingAwayKeepsProjection DEF StaleBar, SubmitLookupFails, WorldUnchanged, brokerVars
<1>2. CASE ReadPosition(a)
  <2>1. PICK l : GotoWith(a, "orders", l) /\ l.listed = local[a].listed
    BY <1>2 DEF ReadPosition, Locals
  <2>2. LooksAway(a)
    BY <1>2, <2>1, GotoWithMoves DEF ReadPosition, Moves
  <2> QED
    BY <1>2, <2>2, LookingAwayKeepsProjection DEF ReadPosition, WorldUnchanged, brokerVars
<1>3. CASE ReadOpenOrders(a)
  <2>1. PICK label \in {"putBack", "lookup"} : Goto(a, label)
    BY <1>3 DEF ReadOpenOrders
  <2>2. LooksAway(a)
    BY <1>3, <2>1, GotoMoves DEF ReadOpenOrders, Moves
  <2> QED
    BY <1>3, <2>2, LookingAwayKeepsProjection DEF ReadOpenOrders, WorldUnchanged, brokerVars
<1>4. CASE PutIntent(a)
  <2>1. LooksAway(a)
    BY <1>4, DispatchReturnsMoves DEF PutIntent, Moves
  <2>2. handled[a] \in Intents
    BY <1>4 DEF PutIntent, AboutAnIntent
  <2>3. {"CANCELLED", "PENDING"} \subseteq Rows \ {"FILLED", "ACCEPTED"}
    BY DEF Rows, ExecutionStatus, Final
  <2> QED
    BY <1>4, <2>1, <2>2, <2>3, LookingAwayKeepsProjection DEF PutIntent, brokerVars
<1>5. CASE LookUpBefore(a)
  <2> DEFINE seen == LookUp(Run(a), handled[a], "PENDING")
  <2>1. handled[a] \in Intents /\ "PENDING" \in Rows \ Final
    BY <1>5 DEF LookUpBefore, AboutAnIntent, Rows, ExecutionStatus, Final
  <2>2. /\ Real(handled[a], seen) /\ seen.lookup \in {"FOUND", "ABSENT"}
        /\ seen.lookup = "ABSENT" => seen.status \in {"PENDING", "UNKNOWN"} /\ ~seen.identified
    BY <2>1, LookUpIsReal
  <2>3. Modest("noteBefore", seen)
    BY <2>2 DEF Modest, Final
  <2> HIDE DEF seen
  <2>4. local' = [local EXCEPT ![a] = [local[a] EXCEPT !.seen = seen]] /\ pc' = [pc EXCEPT ![a] = "noteBefore"]
        /\ UNCHANGED handled
    BY <1>5 DEF LookUpBefore, GotoWith, seen
  <2>5. /\ Others(a) /\ local'[a].seen = seen /\ local'[a].listed = local[a].listed
        /\ pc'[a] = "noteBefore" /\ handled'[a] = handled[a]
    BY <2>4 DEF JobTypeOK, Others, Locals
  <2>6. UNCHANGED <<intent, order, requests>> /\ pc[a] # "posted"
    BY <1>5 DEF LookUpBefore, WorldUnchanged, brokerVars
  <2>7. RequestsAreAwaited' /\ AnswersAreReal'
    BY <2>5, <2>6, WaitingGoesOn DEF ProjectionInv
  <2>8. \A i \in Intents : local'[a].listed[i] \notin Final
    BY <2>5 DEF ProjectionInv, ListedIsOpen
  <2>9. Real(handled'[a], local'[a].seen) /\ Modest(pc'[a], local'[a].seen) /\ pc'[a] \in Observing
    BY <2>2, <2>3, <2>5
  <2> QED
    BY <2>5, <2>6, <2>7, <2>8, <2>9, Observes
<1>6. CASE NoteBefore(a)
  <2>1. LooksAway(a)
    BY <1>6, ThrowMoves, DispatchReturnsMoves, GotoMoves DEF NoteBefore, Moves
  <2> QED
    BY <1>6, <2>1, RecordingKeepsProjection DEF NoteBefore, brokerVars
<1>7. CASE Claim(a)
  <2>1. LooksAway(a)
    BY <1>7, ThrowMoves, GotoMoves DEF Claim, Moves
  <2>2. handled[a] \in Intents /\ Marker \in Rows \ {"FILLED", "ACCEPTED"}
    BY <1>7 DEF Claim, AboutAnIntent, Marker, Rows, ExecutionStatus
  <2> QED
    BY <1>7, <2>1, <2>2, LookingAwayKeepsProjection DEF Claim, brokerVars
<1>8. CASE EnterGuard(a) \/ SubmitThrew(a)
  <2>1. LooksAway(a)
    BY <1>8, ThrowMoves, GotoMoves DEF EnterGuard, SubmitThrew, Moves
  <2> QED
    BY <1>8, <2>1, LookingAwayKeepsProjection DEF EnterGuard, SubmitThrew, WorldUnchanged, brokerVars
<1>9. CASE NoteAfter(a)
  <2>1. \/ \E l : GotoWith(a, "haltRow", l) /\ l.listed = local[a].listed
        \/ Throw(a) \/ DispatchReturns(a)
    BY <1>9 DEF NoteAfter, Locals
  <2>2. pc[a] # "posted"
    BY <1>9 DEF NoteAfter
  <2>3. ASSUME NEW l, GotoWith(a, "haltRow", l), l.listed = local[a].listed PROVE LooksAway(a)
    BY <2>2, <2>3, GotoWithMoves DEF Moves
  <2>4. ASSUME Throw(a) \/ DispatchReturns(a) PROVE LooksAway(a)
    <3>1. Moves(a, {"idle", "haltRow"}) \/ Moves(a, {"persist", "next"})
      BY <2>4, ThrowMoves, DispatchReturnsMoves
    <3> QED
      BY <2>2, <3>1 DEF Moves
  <2>5. LooksAway(a)
    BY <2>1, <2>3, <2>4
  <2>6. pc[a] \in Observing /\ UNCHANGED <<order, requests>>
        /\ (Record(handled[a], local[a].seen) \/ UNCHANGED intent)
    BY <1>9 DEF NoteAfter, brokerVars
  <2> QED
    BY <2>5, <2>6, RecordingKeepsProjection
<1>10. CASE Submit(a)
  <2> DEFINE seen == LookUp(Run(a), handled[a], "PENDING")
  <2>1. handled[a] \in Intents /\ "PENDING" \in Rows \ Final
    BY <1>10 DEF Submit, AboutAnIntent, Rows, ExecutionStatus, Final
  <2>2. /\ Real(handled[a], seen) /\ seen.lookup \in {"FOUND", "ABSENT"}
        /\ seen.lookup = "ABSENT" => seen.status \in {"PENDING", "UNKNOWN"} /\ ~seen.identified
    BY <2>1, LookUpIsReal
  <2> HIDE DEF seen
  <2>3. pc[a] = "submit" /\ UNCHANGED <<intent, order>>
    BY <1>10 DEF Submit
  <2>4. CASE SubmitReturns(a, seen) /\ (seen.lookup = "FOUND" \/ seen.status = "UNKNOWN")
             /\ UNCHANGED requests
    <3>1. Modest("noteAfter", seen)
      BY <2>2, <2>4 DEF Modest
    <3>2. RequestsAreAwaited' /\ AnswersAreReal'
      BY <2>3, <2>4, SubmitReturnsParts, WaitingGoesOn DEF ProjectionInv, Moves
    <3> QED
      BY <2>2, <2>3, <2>4, <3>1, <3>2, SubmitReturnsKeepsProjection
  <2>5. CASE SubmitReturns(a, Missing("ABSENT", "CANCELLED")) /\ UNCHANGED requests
    <3>1. Real(handled[a], Missing("ABSENT", "CANCELLED")) /\ Modest("noteAfter", Missing("ABSENT", "CANCELLED"))
      BY DEF Real, Modest, Missing
    <3>2. RequestsAreAwaited' /\ AnswersAreReal'
      BY <2>3, <2>5, SubmitReturnsParts, WaitingGoesOn DEF ProjectionInv, Moves
    <3> QED
      BY <2>3, <2>5, <3>1, <3>2, SubmitReturnsKeepsProjection
  <2>6. ASSUME NEW delta, Goto(a, "posted"),
               requests' = requests \cup {[by |-> a, about |-> handled[a], delta |-> delta, at |-> "sent"]}
        PROVE  ProjectionInv'
    <3>1. Others(a) /\ pc'[a] = "posted" /\ handled'[a] = handled[a] /\ UNCHANGED local
      BY <2>6, GotoMoves DEF Moves, Goto
    <3>2. a # NoOne
      BY DispatchAssumption DEF Activities, Kinds
    <3>3. RequestsAreAwaited' /\ AnswersAreReal'
      BY <2>3, <2>6, <3>1, <3>2
      DEF ProjectionInv, RequestsAreAwaited, AnswersAreReal, WorldTypeOK, Requests, Others
    <3>4. ObservationsAreReal' /\ ObservationsAreModest'
      BY <2>3, <3>1 DEF ProjectionInv, ObservationsAreReal, ObservationsAreModest, Real, Others
    <3>5. ListedIsOpen' /\ ProjectionIsReal'
      BY <2>3, <3>1 DEF ProjectionInv, ListedIsOpen, ProjectionIsReal
    <3> QED
      BY <3>3, <3>4, <3>5 DEF ProjectionInv
  <2> QED
    BY <1>10, <2>4, <2>5, <2>6 DEF Submit, seen
<1>11. CASE PostAnswered(a) \/ PostUnanswered(a) \/ PostAnsweredByGateway(a)
  <2>1. pc[a] = "posted" /\ UNCHANGED <<intent, order>>
    BY <1>11 DEF PostAnswered, PostUnanswered, GivesUp, PostAnsweredByGateway
  <2>2. \/ requests' = LeftBehind({a})
        \/ \E q \in requests : q.by = a /\ requests' = requests \ {q}
    BY <1>11 DEF PostAnswered, PostUnanswered, PostAnsweredByGateway
  <2>3. ASSUME Others(a) PROVE RequestsAreAwaited' /\ AnswersAreReal'
    BY <2>1, <2>2, <2>3, WaitingEnds DEF ProjectionInv
  <2>4. ASSUME NEW status \in {"REJECTED", "UNKNOWN"}, SubmitReturns(a, Missing("UNRESOLVED", status))
        PROVE  ProjectionInv'
    <3>1. Others(a)
      BY <2>4, SubmitReturnsParts DEF Moves
    <3>2. /\ Real(handled[a], Missing("UNRESOLVED", status))
          /\ Modest("noteAfter", Missing("UNRESOLVED", status))
      BY DEF Real, Modest, Missing
    <3> QED
      BY <2>1, <2>3, <2>4, <3>1, <3>2, SubmitReturnsKeepsProjection
  <2>5. ASSUME NEW q \in requests, q.by = a, q.at = "accepted", SubmitReturns(a, Found("ACCEPTED"))
        PROVE  ProjectionInv'
    <3>1. Others(a)
      BY <2>5, SubmitReturnsParts DEF Moves
    <3>2. a # NoOne
      BY DispatchAssumption DEF Activities, Kinds
    <3>3. order[handled[a]] # "NONE"
      BY <2>5, <3>2 DEF ProjectionInv, RequestsAreAwaited, AnswersAreReal
    <3>4. Real(handled[a], Found("ACCEPTED")) /\ Modest("noteAfter", Found("ACCEPTED"))
      BY <3>3 DEF Real, Modest, Found
    <3> QED
      BY <2>1, <2>3, <2>5, <3>1, <3>4, SubmitReturnsKeepsProjection
  <2>6. ASSUME Goto(a, "threw") PROVE ProjectionInv'
    <3>1. Others(a) /\ pc'[a] = "threw" /\ UNCHANGED local
      BY <2>6, GotoMoves DEF Moves, Goto
    <3>2. ObservationsAreReal' /\ ObservationsAreModest'
      BY <2>1, <3>1 DEF ProjectionInv, ObservationsAreReal, ObservationsAreModest, Real, Others
    <3>3. ListedIsOpen' /\ ProjectionIsReal'
      BY <2>1, <3>1 DEF ProjectionInv, ListedIsOpen, ProjectionIsReal
    <3> QED
      BY <2>3, <3>1, <3>2, <3>3 DEF ProjectionInv
  <2>7. CASE PostAnswered(a)
    BY <2>4, <2>5, <2>6, <2>7 DEF PostAnswered
  <2>8. CASE PostUnanswered(a)
    BY <2>4, <2>8 DEF PostUnanswered, TimeoutStatus
  <2>9. CASE PostAnsweredByGateway(a)
    BY <2>4, <2>9 DEF PostAnsweredByGateway
  <2> QED
    BY <1>11, <2>7, <2>8, <2>9
<1> QED
  BY <1>1, <1>2, <1>3, <1>4, <1>5, <1>6, <1>7, <1>8, <1>9, <1>10, <1>11 DEF Dispatch

(* start() and reconcile() keep the projection real. *)
LEMMA ReconcileLoopKeepsProjection ==
  ASSUME DispatchTypeOK, StartsAlone, ProjectionInv, NEW a \in Activities, ReconcileLoop(a)
  PROVE  ProjectionInv'
<1> USE TypesOfAHandler DEF DispatchTypeOK
<1> USE DEF Elsewhere, LooksAway, Labels, Observing
<1>1. CASE Start(a) \/ TakeLease(a) \/ Reconcile(a)
  <2>1. LooksAway(a)
    BY <1>1, GotoMoves DEF Start, TakeLease, Reconcile, Moves, StartsAlone
  <2> QED
    BY <1>1, <2>1, LookingAwayKeepsProjection DEF Start, TakeLease, Reconcile, WorldUnchanged, brokerVars
<1>2. CASE LeaseRefused(a) \/ RowReconciling(a) \/ RowReady(a)
  <2>1. LooksAway(a)
    BY <1>2, ThrowMoves, DoneMoves, GotoMoves DEF LeaseRefused, RowReconciling, RowReady, Moves
  <2> QED
    BY <1>2, <2>1, LookingAwayKeepsProjection
    DEF LeaseRefused, RowReconciling, RowReady, WorldUnchanged, brokerVars
<1>3. CASE SaveEquity(a) \/ SaveReady(a) \/ LoopEnds(a) \/ Confirm(a) \/ Connect(a)
  <2>1. LooksAway(a)
    BY <1>3, ThrowMoves, DoneMoves, GotoMoves
    DEF SaveEquity, SaveReady, PersistThen, LoopEnds, Confirm, Connect, Moves
  <2> QED
    BY <1>3, <2>1, LookingAwayKeepsProjection
    DEF SaveEquity, SaveReady, LoopEnds, Confirm, Connect, WorldUnchanged, brokerVars
<1>4. CASE ListIntents(a)
  <2>1. UNCHANGED <<intent, order, requests>> /\ pc[a] = "list"
    BY <1>4 DEF ListIntents, WorldUnchanged, brokerVars
  <2>2. CASE Done(a)
    BY <2>1, <2>2, DoneMoves, LookingAwayKeepsProjection DEF Moves
  <2>3. CASE ~Done(a)
    <3>1. PICK l : GotoWith(a, "next", l) /\ \A i \in Intents : l.listed[i] \notin Final
      BY <1>4, <2>3 DEF ListIntents, Locals, Final
    <3>2. Others(a) /\ pc'[a] = "next" /\ local'[a] = l
      BY <3>1 DEF GotoWith, JobTypeOK, Others
    <3>3. RequestsAreAwaited' /\ AnswersAreReal'
      BY <2>1, <3>2, WaitingGoesOn DEF ProjectionInv
    <3>4. ObservationsAreReal' /\ ObservationsAreModest'
      BY <2>1, <3>2 DEF ProjectionInv, ObservationsAreReal, ObservationsAreModest, Real, Others
    <3>5. ListedIsOpen' /\ ProjectionIsReal'
      BY <2>1, <3>1, <3>2 DEF ProjectionInv, ListedIsOpen, ProjectionIsReal, Others
    <3> QED
      BY <3>3, <3>4, <3>5 DEF ProjectionInv
  <2> QED
    BY <2>2, <2>3
<1>5. ASSUME NEW i \in Intents, LookUpListed(a, i) PROVE ProjectionInv'
  <2> DEFINE stored == local[a].listed[i]
             seen   == LookUp(Run(a), i, stored)
  <2>1. UNCHANGED <<intent, order, requests>> /\ pc[a] = "next"
    BY <1>5 DEF LookUpListed, WorldUnchanged, brokerVars
  <2>2. CASE Throw(a)
    <3>1. LooksAway(a)
      BY <2>1, <2>2, ThrowMoves DEF Moves
    <3> QED
      BY <2>1, <3>1, LookingAwayKeepsProjection
  <2>3. CASE ~MarkerBlocks(stored, seen) 
    <3>1. stored \in Rows \ Final
      BY DEF ProjectionInv, ListedIsOpen
    <3>2. /\ Real(i, seen) /\ seen.lookup \in {"FOUND", "ABSENT"}
          /\ seen.lookup = "ABSENT" => seen.status \in {stored, "UNKNOWN"}
      BY <3>1, LookUpIsReal
    <3>3. Modest("note", seen)
      BY <3>1, <3>2 DEF Modest, Final
    <3> HIDE DEF seen
    <3>4. /\ pc' = [pc EXCEPT ![a] = "note"] /\ handled' = [handled EXCEPT ![a] = i]
          /\ local' = [local EXCEPT ![a].seen = seen, ![a].listed[i] = "NONE"]
      BY <1>5, <2>3 DEF LookUpListed, seen
    <3>5. /\ Others(a) /\ pc'[a] = "note" /\ handled'[a] = i /\ local'[a].seen = seen
          /\ \A j \in Intents : local'[a].listed[j] \in {local[a].listed[j], "NONE"}
      BY <3>4 DEF JobTypeOK, Others, Locals
    <3>6. RequestsAreAwaited' /\ AnswersAreReal'
      BY <2>1, <3>5, WaitingGoesOn DEF ProjectionInv
    <3>7. \A j \in Intents : local'[a].listed[j] \notin Final
      BY <3>5 DEF ProjectionInv, ListedIsOpen, Final
    <3>8. Real(handled'[a], local'[a].seen) /\ Modest(pc'[a], local'[a].seen) /\ pc'[a] \in Observing
      BY <3>2, <3>3, <3>5
    <3> QED
      BY <2>1, <3>5, <3>6, <3>7, <3>8, Observes
  <2> QED
    BY <1>5, <2>2, <2>3 DEF LookUpListed
<1>6. CASE NoteListed(a)
  <2>1. ASSUME NEW label \in {"enter", "next"}, Goto(a, label) PROVE Moves(a, {"enter", "next"})
    BY <2>1, GotoMoves DEF Moves
  <2>2. LooksAway(a)
    BY <1>6, <2>1, ThrowMoves DEF NoteListed, Moves
  <2> QED
    BY <1>6, <2>2, RecordingKeepsProjection DEF NoteListed, brokerVars
<1> QED
  BY <1>1, <1>2, <1>3, <1>4, <1>5, <1>6 DEF ReconcileLoop

(* The other callbacks do, too. *)
LEMMA OtherHandlersKeepProjection ==
  ASSUME DispatchTypeOK, ProjectionInv, NEW a \in Activities, OtherHandler(a)
  PROVE  ProjectionInv'
<1> USE TypesOfAHandler DEF DispatchTypeOK
<1> USE DEF Elsewhere, LooksAway, Labels, Observing
<1>1. ASSUME NEW i \in Intents, Decide(a, i) PROVE ProjectionInv'
  <2>1. LooksAway(a)
    BY <1>1 DEF Decide, Moves, Others, JobTypeOK
  <2>2. {"PENDING", "CANCELLED"} \subseteq Rows \ {"FILLED", "ACCEPTED"}
    BY DEF Rows, ExecutionStatus, Final
  <2> QED
    BY <1>1, <2>1, <2>2, LookingAwayKeepsProjection DEF Decide, brokerVars
<1>2. CASE Persist(a) \/ HaltRow(a) \/ HaltSave(a)
  <2>1. LooksAway(a)
    BY <1>2, ThrowMoves, DoneMoves, GotoMoves DEF Persist, PersistThen, HaltRow, HaltSave, Moves
  <2> QED
    BY <1>2, <2>1, LookingAwayKeepsProjection DEF Persist, HaltRow, HaltSave, WorldUnchanged, brokerVars
<1>3. CASE HaltRelease(a) \/ ReadFails(a)
  <2>1. Done(a) \/ DispatchReturns(a) \/ Throw(a)
    BY <1>3 DEF HaltRelease, ReadFails
  <2>2. LooksAway(a)
    BY <1>3, <2>1, ThrowMoves, DoneMoves, DispatchReturnsMoves DEF HaltRelease, ReadFails, Moves
  <2> QED
    BY <1>3, <2>2, LookingAwayKeepsProjection DEF HaltRelease, ReadFails, WorldUnchanged, brokerVars
<1>4. ASSUME NEW i \in Intents, NEW s \in OrderStates, TradeUpdate(a, i, s) PROVE ProjectionInv'
  <2>1. LooksAway(a)
    BY <1>4, ThrowMoves, GotoMoves DEF TradeUpdate, Moves
  <2>2. UNCHANGED <<order, requests>>
    BY <1>4 DEF TradeUpdate, brokerVars
  <2>3. CASE Record(i, Found(s))
    <3>1. Real(i, Found(s)) /\ Found(s) \in BrokerOrderState /\ Found(s).lookup = "FOUND"
      BY <1>4 DEF TradeUpdate, WasIn, WorldTypeOK, OrderStates, Found, Real, BrokerOrderState,
         ExecutionStatus, Final, Acknowledged
    <3>2. ProjectionIsReal'
      BY <2>2, <2>3, <3>1, RecordIsReal DEF ProjectionInv
    <3> QED
      BY <2>1, <2>2, <3>2, LookingAway DEF ProjectionInv
  <2>4. CASE UNCHANGED intent
    BY <2>1, <2>2, <2>4, LookingAwayKeepsProjection
  <2> QED
    BY <1>4, <2>3, <2>4 DEF TradeUpdate
<1> QED
  BY <1>1, <1>2, <1>3, <1>4 DEF OtherHandler

(* A crash leaves requests behind and observations nowhere. *)
LEMMA CrashKeepsProjection ==
  ASSUME DispatchTypeOK, ProjectionInv, NEW r \in Runs, Crash(r)
  PROVE  ProjectionInv'
<1> USE DEF DispatchTypeOK, ProjectionInv
<1>1. \A a \in Activities : Run(a) = r <=> a \in {r} \X Kinds
  BY DEF Activities, Run
<1>2. /\ UNCHANGED <<intent, order>> /\ requests' = LeftBehind({r} \X Kinds)
      /\ \A a \in Activities :
           IF Run(a) = r THEN pc'[a] = "idle" /\ local'[a] = NoLocals
                         ELSE pc'[a] = pc[a] /\ handled'[a] = handled[a] /\ local'[a] = local[a]
  BY DEF Crash
<1>3. ASSUME NEW q \in requests'
      PROVE  \/ q \in requests /\ (q.by \in Activities => Run(q.by) # r)
             \/ q.by = NoOne /\ q.at = "sent"
  BY <1>1, <1>2, <1>3, LeftBehindParts
<1>4. RequestsAreAwaited' /\ AnswersAreReal'
  <2>1. AnswersAreReal'
    BY <1>2, <1>3 DEF AnswersAreReal
  <2>2. ASSUME NEW q \in requests' PROVE q.by = NoOne => q.at = "sent"
    BY <1>3, <2>2 DEF RequestsAreAwaited
  <2>3. ASSUME NEW q \in requests', q.by # NoOne PROVE q \in requests /\ q.by \in Activities /\ Run(q.by) # r
    BY <1>3, <2>3 DEF WorldTypeOK, Requests
  <2>4. ASSUME NEW q \in requests', q.by # NoOne PROVE pc'[q.by] = "posted" /\ handled'[q.by] = q.about
    BY <1>2, <2>3, <2>4 DEF RequestsAreAwaited
  <2>5. ASSUME NEW q \in requests', q.by # NoOne, NEW p \in requests', p.by = q.by PROVE p = q
    BY <2>3, <2>5 DEF RequestsAreAwaited
  <2> QED
    BY <2>1, <2>2, <2>4, <2>5 DEF RequestsAreAwaited
<1>5. ObservationsAreReal' /\ ObservationsAreModest'
  BY <1>2 DEF ObservationsAreReal, ObservationsAreModest, Real, Observing
<1>6. ListedIsOpen' /\ ProjectionIsReal'
  BY <1>2 DEF ListedIsOpen, ProjectionIsReal, NoLocals, Final
<1> QED
  BY <1>4, <1>5, <1>6

(* What happens at the broker takes nothing back. *)
LEMMA OutsideKeepsProjection ==
  ASSUME DispatchTypeOK, ProjectionInv, Outside
  PROVE  ProjectionInv'
<1> USE DEF DispatchTypeOK, ProjectionInv
<1>1. UNCHANGED <<pc, handled, local, intent>>
  BY OutsideMovesNone DEF jobVars, Outside, Arrive, LoseRequest, SettleOrder, TimePasses, vars
<1>2. \A i \in Intents : \/ order'[i] = order[i]
                         \/ order[i] = "NONE" /\ order'[i] = "ACCEPTED"
                         \/ order[i] = "ACCEPTED" /\ order'[i] \in {"FILLED", "CANCELLED"}
  BY DEF Outside, Arrive, LoseRequest, SettleOrder, TimePasses, vars, brokerVars, WorldTypeOK, Requests
<1>3. ObservationsAreReal' /\ ObservationsAreModest'
  BY <1>1, <1>2, TypesOfAHandler
  DEF ObservationsAreReal, ObservationsAreModest, Real, Observing, AboutAnIntent
<1>4. ListedIsOpen' /\ ProjectionIsReal'
  BY <1>1, <1>2 DEF ListedIsOpen, ProjectionIsReal
<1>5. ASSUME NEW q \in requests, Arrive(q) \/ LoseRequest(q) PROVE RequestsAreAwaited' /\ AnswersAreReal'
  <2>1. q \in Requests
    BY DEF WorldTypeOK
  <2>2. ASSUME NEW p \in requests'
        PROVE  \/ p \in requests /\ p # q
               \/ /\ p.by = q.by /\ p.about = q.about /\ q.by # NoOne
                  /\ p.at = "accepted" => order'[p.about] # "NONE"
                  /\ \A p2 \in requests' : (p2 \in requests /\ p2 # q) \/ p2 = p
    BY <1>5, <2>1 DEF Arrive, LoseRequest, Requests, WorldTypeOK
  <2> QED
    BY <1>1, <1>2, <2>1, <2>2 DEF RequestsAreAwaited, AnswersAreReal, WorldTypeOK, Requests
<1>6. ASSUME UNCHANGED requests PROVE RequestsAreAwaited' /\ AnswersAreReal'
  BY <1>1, <1>2, <1>6 DEF RequestsAreAwaited, AnswersAreReal, WorldTypeOK, Requests
<1>7. RequestsAreAwaited' /\ AnswersAreReal'
  BY <1>5, <1>6 DEF Outside, SettleOrder, TimePasses, vars, brokerVars
<1> QED
  BY <1>3, <1>4, <1>7

(* Every step keeps it. *)
LEMMA StepKeepsProjection ==
  ASSUME DispatchTypeOK, StartsAlone, ProjectionInv, [Next]_vars
  PROVE  ProjectionInv'
<1>1. ASSUME NEW r \in Runs, RenewTimer(r) PROVE ProjectionInv'
  <2>1. UNCHANGED <<intent, order, requests, pc, handled, local>>
    BY <1>1 DEF RenewTimer, WorldUnchanged, brokerVars, jobVars
  <2> QED
    BY <2>1 DEF ProjectionInv, RequestsAreAwaited, AnswersAreReal, ObservationsAreReal, Real,
       ObservationsAreModest, ListedIsOpen, ProjectionIsReal
<1>2. ASSUME NEW a \in Activities, ReconcileLoopLater(a) \/ Start(a) \/ TakeLease(a) \/ Connect(a)
      PROVE  ReconcileLoop(a)
  BY <1>2 DEF ReconcileLoop, ReconcileLoopLater
<1>3. ASSUME NEW a \in Activities, Dispatch(a) \/ ReconcileLoop(a) \/ OtherHandler(a) PROVE ProjectionInv'
  BY <1>3, DispatchKeepsProjection, ReconcileLoopKeepsProjection, OtherHandlersKeepProjection
<1>4. ASSUME NEW a \in Activities,
             \/ Dispatch(a) \/ ReconcileLoopLater(a) \/ OtherHandler(a)
             \/ Start(a) \/ TakeLease(a) \/ Connect(a)
      PROVE  ProjectionInv'
  BY <1>2, <1>3, <1>4
<1>5. ASSUME NEW r \in Runs, RenewTimer(r) \/ Crash(r) PROVE ProjectionInv'
  BY <1>1, <1>5, CrashKeepsProjection
<1>6. CASE Outside
  BY <1>6, OutsideKeepsProjection
<1> QED
  BY <1>4, <1>5, <1>6, KindsOfSteps

(* What handlers hold of the broker stays true in every reachable state.    *)
THEOREM ProjectionInvariance == Spec => []ProjectionInv
<1>1. Init => ProjectionInv
  BY DEF Init, ProjectionInv, RequestsAreAwaited, AnswersAreReal, ObservationsAreReal,
     ObservationsAreModest, Observing, ListedIsOpen, NoLocals, Final, ProjectionIsReal
<1>2. TypeOK /\ StartsAlone /\ ProjectionInv /\ [Next]_vars => ProjectionInv'
  BY StepKeepsProjection DEF TypeOK, DispatchTypeOK
<1> QED
  BY <1>1, <1>2, TypeCorrectness, ProcessesStartAlone, PTL DEF Spec

(* FILLED and ACCEPTED are said of an intent only when the broker has its    *)
(* order, whatever lookups, answers and trade updates arrive in which order. *)
THEOREM ProjectionNeverInvents == Spec => []ProjectionIsReal
<1>1. ProjectionInv => ProjectionIsReal
  BY DEF ProjectionInv
<1> QED
  BY <1>1, ProjectionInvariance, PTL

----------------------------------------------------------------------------
(* CANCELLED and REJECTED are over.                                         *)

Open == {"SUBMISSION_ATTEMPTED", "UNKNOWN"}
Settled == {"CANCELLED", "REJECTED"}

(* The one POST of an intent is on its way, or made the order, or left no   *)
(* trace.                                                                   *)
OneTrace(i) ==
  /\ posts[i] = 0 => order[i] = "NONE" /\ \A q \in requests : q.about # i
  /\ \A q \in requests :
       q.about = i => /\ q.at \in {"sent", "refused"} => order[i] = "NONE"
                      /\ \A p \in requests : p.about = i => p = q

\* Nobody will POST the intent any more, or the broker has refused to take its order.
NotClaimed(i) ==
  posts[i] = 0 /\ intent[i] \notin Claimable /\ \A b \in Activities : handled[b] = i => pc[b] \notin Claimed
Refused(i) ==
  posts[i] > 0 /\ order[i] = "NONE" /\ \A q \in requests : q.about # i

(* What a handler in the claimed section, or just out of it, knows of its   *)
(* intent: an end without an order is one that it has earned.               *)
Earned(a, i) ==
  LET seen == local[a].seen IN
  /\ pc[a] \in Claimed => intent[i] \in Open
  /\ pc[a] = "posted" => posts[i] > 0 /\ intent[i] \notin Final
  /\ pc[a] = "noteAfter" /\ seen.lookup = "ABSENT" /\ seen.status = "CANCELLED" => NotClaimed(i)
  /\ pc[a] = "noteAfter" /\ seen.lookup = "UNRESOLVED" /\ seen.status = "REJECTED" => Refused(i)

NoOrderLeft(i) ==
  order[i] \in {"NONE", "CANCELLED"} /\ \A q \in requests : q.about = i => q.at = "refused"

SettledOf(i) ==
  ~rewound[i] =>
    /\ OneTrace(i)
    /\ \A a \in Activities : handled[a] = i => Earned(a, i)
    /\ intent[i] \in Settled => NoOrderLeft(i)

SettledInv == \A i \in Intents : SettledOf(i)

(* The handlers of the claimed section stay, go on inside it, or leave.     *)
HandlersLeave ==
  \A b \in Activities :
    /\ pc'[b] \in Claimed => pc[b] \in Claimed /\ handled'[b] = handled[b]
    /\ pc'[b] \in {"posted", "noteAfter"} =>
         pc'[b] = pc[b] /\ handled'[b] = handled[b] /\ local'[b].seen = local[b].seen

(* What an intent may become without breaking what is known of it.          *)
MayBecome(i, status) ==
  /\ (\E b \in Activities : handled[b] = i /\ pc[b] \in Claimed) => status \in Open
  /\ (\E b \in Activities : handled[b] = i /\ pc[b] = "posted") => status \notin Final
  /\ status \in Claimable => intent[i] \in Claimable
  /\ status \in Settled => NoOrderLeft(i)

(* What such a step leaves of the invariant. *)
LEMMA LeavingKeepsSettled ==
  ASSUME JobTypeOK, NEW i \in Intents, SettledOf(i), HandlersLeave, rewound[i] => rewound'[i],
         order'[i] = order[i], posts'[i] = posts[i], UNCHANGED requests,
         ~rewound'[i] => intent'[i] = intent[i] \/ MayBecome(i, intent'[i])
  PROVE  SettledOf(i)'
<1> SUFFICES ASSUME ~rewound'[i]
             PROVE  /\ OneTrace(i)'
                    /\ (\A a \in Activities : handled[a] = i => Earned(a, i))'
                    /\ (intent[i] \in Settled => NoOrderLeft(i))'
  BY DEF SettledOf
<1> USE DEF SettledOf
<1>1. OneTrace(i)'
  BY DEF OneTrace
<1>2. ASSUME NEW a \in Activities, handled'[a] = i PROVE Earned(a, i)'
  <2>1. pc'[a] \in Claimed => intent'[i] \in Open
    BY <1>2 DEF HandlersLeave, Earned, MayBecome
  <2>2. pc'[a] = "posted" => posts'[i] > 0 /\ intent'[i] \notin Final
    BY <1>2 DEF HandlersLeave, Earned, MayBecome
  <2>3. ASSUME pc'[a] = "noteAfter"
        PROVE  pc[a] = "noteAfter" /\ handled[a] = i /\ local'[a].seen = local[a].seen
    BY <1>2, <2>3 DEF HandlersLeave
  <2>4. NotClaimed(i) => NotClaimed(i)'
    BY DEF NotClaimed, HandlersLeave, MayBecome
  <2>5. Refused(i) => Refused(i)'
    BY DEF Refused
  <2> QED
    BY <2>1, <2>2, <2>3, <2>4, <2>5 DEF Earned
<1>3. intent'[i] \in Settled => NoOrderLeft(i)'
  BY DEF NoOrderLeft, MayBecome
<1> QED
  BY <1>1, <1>2, <1>3

(* With the lease row unlocked nobody awaits a request. *)
LEMMA NoneAwaited ==
  ASSUME RowUnlocked, GuardIsExclusive
  PROVE  \A a \in Activities : pc[a] \notin {"submit", "posted"}
  BY NoRunAssumption, ActivityParts DEF RowUnlocked, GuardIsExclusive, InGuard

(* What a projected observation makes of an intent, when it is real and its *)
(* end is earned.                                                           *)
LEMMA RecordMayBecome ==
  ASSUME WorldTypeOK, JobTypeOK, DispatchInv, ProjectionInv, RowUnlocked,
         NEW i \in Intents, ~rewound[i], SettledOf(i),
         NEW seen \in BrokerOrderState, Real(i, seen),
         seen.lookup = "ABSENT" /\ seen.status = "CANCELLED" => NotClaimed(i),
         seen.lookup = "UNRESOLVED" => seen.status \in {"REJECTED", "UNKNOWN"},
         seen.lookup = "UNRESOLVED" /\ seen.status = "REJECTED" => Refused(i)
  PROVE  \/ ProjectedStatus(intent[i], seen) = intent[i]
         \/ MayBecome(i, ProjectedStatus(intent[i], seen))
<1> DEFINE status == ProjectedStatus(intent[i], seen)
<1>1. SUFFICES ASSUME status # intent[i] PROVE MayBecome(i, status)
  OBVIOUS
<1>2. status = seen.status /\ ~KeepsStatus(intent[i], seen)
  BY <1>1 DEF ProjectedStatus
<1>3. seen.lookup = "ABSENT" => seen.status = "CANCELLED"
  BY <1>2 DEF KeepsStatus, NoOrderNeeded
<1>4. seen.status \notin {"PENDING", "SUBMISSION_ATTEMPTED"}
  BY <1>2 DEF KeepsStatus
<1>5. \A b \in Activities : pc[b] # "posted"
  BY NoneAwaited DEF DispatchInv
<1>6. ASSUME NEW b \in Activities, handled[b] = i, pc[b] \in Claimed PROVE seen.status \in Open
  <2>1. posts[i] = 0 /\ order[i] = "NONE"
    BY <1>6 DEF DispatchInv, ClaimComesOnce, SettledOf, OneTrace
  <2>2. seen.lookup # "FOUND" /\ ~NotClaimed(i) /\ ~Refused(i)
    BY <1>6, <2>1 DEF Real, NotClaimed, Refused
  <2> QED
    BY <1>3, <2>2 DEF BrokerOrderState, Open
<1>7. ASSUME seen.status \in Settled PROVE NoOrderLeft(i)
  <2>1. CASE seen.lookup = "FOUND"
    <3>1. order[i] = "CANCELLED"
      BY <1>7, <2>1 DEF Real, Settled
    <3>2. \A q \in requests : q.by = NoOne /\ q.at = "sent"
      BY <1>5 DEF ProjectionInv, RequestsAreAwaited, WorldTypeOK, Requests
    <3> QED
      BY <3>1, <3>2 DEF SettledOf, OneTrace, NoOrderLeft
  <2>2. CASE NotClaimed(i) \/ Refused(i)
    BY <2>2 DEF NotClaimed, Refused, SettledOf, OneTrace, NoOrderLeft
  <2> QED
    BY <1>3, <1>7, <2>1, <2>2 DEF Settled, BrokerOrderState
<1> QED
  BY <1>2, <1>4, <1>5, <1>6, <1>7 DEF MayBecome, Claimable, BrokerOrderState, ExecutionStatus, Final, Acknowledged

(* A handler moves to a step outside the claimed section. *)
Attached == Claimed \cup {"posted", "noteAfter"}

LEMMA MovingAway ==
  ASSUME NEW a \in Activities, Others(a), pc'[a] \notin Attached
  PROVE  HandlersLeave
  BY DEF Others, HandlersLeave, Attached

(* A step that writes nothing of an intent and from which handlers leave. *)
LEMMA QuietKeepsSettled ==
  ASSUME JobTypeOK, SettledInv, HandlersLeave, UNCHANGED <<order, posts, requests, intent, rewound>>
  PROVE  SettledInv'
  BY LeavingKeepsSettled DEF SettledInv

(* A handler that records an observation it holds, and leaves. *)
LEMMA RecordingKeepsSettled ==
  ASSUME DispatchTypeOK, DispatchInv, ProjectionInv, SettledInv, NEW a \in Activities,
         Others(a), pc'[a] \notin Attached, pc[a] \in Observing,
         (RowUnlocked /\ Record(handled[a], local[a].seen)) \/ UNCHANGED intent,
         UNCHANGED <<order, posts, requests, rewound>>
  PROVE  SettledInv'
<1> USE DEF DispatchTypeOK
<1>1. HandlersLeave
  BY MovingAway
<1>2. CASE UNCHANGED intent
  BY <1>1, <1>2, QuietKeepsSettled
<1>3. CASE RowUnlocked /\ Record(handled[a], local[a].seen)
  <2> DEFINE seen == local[a].seen
  <2>1. handled[a] \in Intents /\ seen \in BrokerOrderState
    BY TypesOfAHandler DEF Observing, AboutAnIntent
  <2>2. Real(handled[a], seen) /\ Modest(pc[a], seen)
    BY DEF ProjectionInv, ObservationsAreReal, ObservationsAreModest
  <2>3. ASSUME ~rewound[handled[a]]
        PROVE  /\ seen.lookup = "ABSENT" /\ seen.status = "CANCELLED" => NotClaimed(handled[a])
               /\ seen.lookup = "UNRESOLVED" /\ seen.status = "REJECTED" => Refused(handled[a])
    <3>1. Earned(a, handled[a])
      BY <2>1, <2>3 DEF SettledInv, SettledOf
    <3> QED
      BY <2>2, <3>1 DEF Earned, Modest, Final
  <2>4. seen.lookup = "UNRESOLVED" => seen.status \in {"REJECTED", "UNKNOWN"}
    BY <2>2 DEF Modest
  <2> HIDE DEF seen
  <2>5. ASSUME NEW i \in Intents, ~rewound'[i] PROVE intent'[i] = intent[i] \/ MayBecome(i, intent'[i])
    <3>1. CASE i # handled[a]
      BY <1>3, <2>1, <3>1 DEF Record, WorldTypeOK
    <3>2. CASE i = handled[a]
      <4>1. ~rewound[i] /\ SettledOf(i)
        BY <2>5 DEF SettledInv
      <4>2. intent'[i] = ProjectedStatus(intent[i], seen)
        BY <1>3, <2>1, <3>2 DEF Record, WorldTypeOK, seen
      <4> QED
        BY <1>3, <2>1, <2>2, <2>3, <2>4, <3>2, <4>1, <4>2, RecordMayBecome
    <3> QED
      BY <3>1, <3>2
  <2> QED
    BY <1>1, <2>5, LeavingKeepsSettled DEF SettledInv
<1> QED
  BY <1>2, <1>3

(* The steps of dispatch() outside the claimed section. *)
LEMMA DispatchKeepsSettled ==
  ASSUME DispatchTypeOK, DispatchInv, ProjectionInv, SettledInv, NEW a \in Activities,
         \/ StaleBar(a) \/ ReadPosition(a) \/ ReadOpenOrders(a) \/ PutIntent(a) \/ LookUpBefore(a)
         \/ NoteBefore(a) \/ EnterGuard(a) \/ NoteAfter(a) \/ SubmitLookupFails(a) \/ SubmitThrew(a)
  PROVE  SettledInv'
<1> USE TypesOfAHandler DEF DispatchTypeOK
<1>1. Others(a)
  BY DispatchMovesOne DEF Dispatch
<1>2. CASE StaleBar(a) \/ ReadPosition(a) \/ ReadOpenOrders(a) \/ LookUpBefore(a) \/ SubmitLookupFails(a)
  <2>1. pc'[a] \notin Attached
    BY <1>2 DEF StaleBar, ReadPosition, ReadOpenOrders, LookUpBefore, SubmitLookupFails, Goto, GotoWith,
       JobTypeOK, Attached, Claimed
  <2> QED
    BY <1>1, <1>2, <2>1, MovingAway, QuietKeepsSettled
    DEF StaleBar, ReadPosition, ReadOpenOrders, LookUpBefore, SubmitLookupFails, WorldUnchanged,
        brokerVars, historyVars
<1>3. CASE PutIntent(a)
  <2>1. pc'[a] \notin Attached
    BY <1>3, DispatchReturnsMoves DEF PutIntent, Moves, Attached, Claimed
  <2>2. handled[a] \in Intents
    BY <1>3 DEF PutIntent, AboutAnIntent
  <2>3. ASSUME NEW i \in Intents, ~rewound'[i] PROVE intent'[i] = intent[i] \/ MayBecome(i, intent'[i])
    <3>1. CASE i # handled[a]
      BY <1>3, <2>2, <3>1 DEF PutIntent, WorldTypeOK
    <3>2. CASE i = handled[a]
      <4>1. /\ ~rewound[i] /\ intent[i] = "PENDING" /\ intent'[i] \in {"CANCELLED", "PENDING"}
        BY <1>3, <2>2, <2>3, <3>2 DEF PutIntent, WorldTypeOK
      <4>2. posts[i] = 0 /\ SettledOf(i) /\ \A b \in Activities : handled[b] = i => pc[b] \notin Claimed
        BY <4>1 DEF DispatchInv, ClaimComesOnce, SettledInv, Claimable
      <4>3. NoOrderLeft(i) /\ \A b \in Activities : handled[b] = i => pc[b] # "posted"
        BY <4>1, <4>2 DEF SettledOf, OneTrace, NoOrderLeft, Earned
      <4> QED
        BY <4>1, <4>2, <4>3 DEF MayBecome, Claimable
    <3> QED
      BY <3>1, <3>2
  <2>4. /\ UNCHANGED <<order, posts, requests>> /\ \A i \in Intents : rewound[i] => rewound'[i]
    BY <1>3 DEF PutIntent, brokerVars, WorldTypeOK
  <2> QED
    BY <1>1, <2>1, <2>3, <2>4, MovingAway, LeavingKeepsSettled DEF SettledInv
<1>4. CASE NoteBefore(a)
  <2>1. pc'[a] \notin Attached
    BY <1>4, ThrowMoves, DispatchReturnsMoves, GotoMoves DEF NoteBefore, Moves, Attached, Claimed
  <2> QED
    BY <1>1, <1>4, <2>1, RecordingKeepsSettled DEF NoteBefore, MayRecord, Observing, brokerVars, historyVars
<1>5. CASE EnterGuard(a)
  <2>1. Goto(a, "submit") \/ LoseAndThrow(a)
    BY <1>5 DEF EnterGuard
  <2>2. HandlersLeave
    BY <1>1, <1>5, <2>1, ThrowMoves DEF EnterGuard, Goto, JobTypeOK, Moves, Others, HandlersLeave, Claimed
  <2> QED
    BY <1>5, <2>2, QuietKeepsSettled DEF EnterGuard, WorldUnchanged, brokerVars, historyVars
<1>6. CASE NoteAfter(a)
  <2>1. (\E l : GotoWith(a, "haltRow", l)) \/ Throw(a) \/ DispatchReturns(a)
    BY <1>6 DEF NoteAfter
  <2>2. ASSUME NEW l, GotoWith(a, "haltRow", l) PROVE pc'[a] = "haltRow"
    BY <2>2 DEF GotoWith, JobTypeOK
  <2>3. pc'[a] \notin Attached
    BY <2>1, <2>2, ThrowMoves, DispatchReturnsMoves DEF Moves, Attached, Claimed
  <2>4. /\ pc[a] \in Observing /\ UNCHANGED <<order, posts, requests, rewound>>
        /\ (RowUnlocked /\ Record(handled[a], local[a].seen)) \/ UNCHANGED intent
    BY <1>6 DEF NoteAfter, MayRecord, Observing, brokerVars, historyVars
  <2> QED
    BY <1>1, <2>3, <2>4, RecordingKeepsSettled
<1>7. CASE SubmitThrew(a)
  <2>1. pc'[a] \notin Attached
    BY <1>7, ThrowMoves DEF SubmitThrew, Moves, Attached, Claimed
  <2> QED
    BY <1>1, <1>7, <2>1, MovingAway, QuietKeepsSettled
    DEF SubmitThrew, WorldUnchanged, brokerVars, historyVars
<1> QED
  BY <1>2, <1>3, <1>4, <1>5, <1>6, <1>7

(* The marker is written: the first and only claim of its intent. *)
LEMMA ClaimKeepsSettled ==
  ASSUME DispatchTypeOK, DispatchInv, SettledInv, NEW a \in Activities, Claim(a)
  PROVE  SettledInv'
<1> USE TypesOfAHandler DEF DispatchTypeOK
<1>1. UNCHANGED <<order, posts, requests, rewound>> /\ pc[a] = "claim" /\ handled[a] \in Intents
  BY DEF Claim, brokerVars, historyVars, AboutAnIntent
<1>2. CASE LoseAndThrow(a) /\ UNCHANGED intent
  <2>1. Others(a) /\ pc'[a] \notin Attached
    BY <1>2, ThrowMoves DEF Moves, Attached, Claimed
  <2> QED
    BY <1>1, <1>2, <2>1, MovingAway, QuietKeepsSettled
<1>3. CASE /\ MayClaim(Run(a), handled[a]) /\ Goto(a, "guard")
           /\ intent' = [intent EXCEPT ![handled[a]] = Marker]
  <2>1. /\ Others(a) /\ pc'[a] = "guard" /\ UNCHANGED <<handled, local>>
        /\ intent[handled[a]] = "PENDING" /\ intent'[handled[a]] = "SUBMISSION_ATTEMPTED"
        /\ \A i \in Intents \ {handled[a]} : intent'[i] = intent[i]
    BY <1>1, <1>3, GotoMoves DEF Goto, Moves, MayClaim, Marker, WorldTypeOK
  <2>2. ASSUME NEW i \in Intents, i # handled[a] PROVE SettledOf(i)'
    BY <1>1, <2>1, <2>2
    DEF SettledInv, SettledOf, OneTrace, Earned, NotClaimed, Refused, NoOrderLeft, Others
  <2>3. ASSUME NEW i \in Intents, i = handled[a] PROVE SettledOf(i)'
    <3>1. SUFFICES ASSUME ~rewound[i]
                   PROVE  OneTrace(i)' /\ \A b \in Activities : handled[b] = i => Earned(b, i)'
      BY <1>1, <2>1, <2>3 DEF SettledOf, Settled
    <3>2. SettledOf(i) /\ posts[i] = 0
      BY <2>1, <2>3, <3>1 DEF SettledInv, DispatchInv, ClaimComesOnce, Claimable
    <3>3. OneTrace(i)'
      BY <1>1, <3>1, <3>2 DEF SettledOf, OneTrace
    <3>4. ASSUME NEW b \in Activities, handled[b] = i PROVE Earned(b, i)'
      <4>1. Earned(b, i) /\ (pc[b] \notin {"posted"})
        BY <3>1, <3>2, <3>4 DEF SettledOf, Earned
      <4>2. pc'[b] = pc[b] \/ b = a
        BY <2>1 DEF Others
      <4>3. ~NotClaimed(i) /\ ~Refused(i)
        BY <2>1, <2>3, <3>2 DEF NotClaimed, Refused, Claimable
      <4> QED
        BY <2>1, <2>3, <4>1, <4>2, <4>3 DEF Earned, Open, Claimed
    <3> QED
      BY <3>3, <3>4
  <2> QED
    BY <2>2, <2>3 DEF SettledInv
<1> QED
  BY <1>2, <1>3 DEF Claim

(* The handler leaves the guard without a POST. *)
LEMMA SubmitWithoutPostKeepsSettled ==
  ASSUME DispatchTypeOK, DispatchInv, SettledInv, NEW a \in Activities, pc[a] = "submit", NEW seen,
         SubmitReturns(a, seen), UNCHANGED <<order, posts, requests, intent, rewound>>,
         seen.lookup # "UNRESOLVED"
  PROVE  SettledInv'
<1> USE DEF DispatchTypeOK
<1>1. /\ Others(a) /\ pc'[a] = "noteAfter" /\ handled'[a] = handled[a] /\ local'[a].seen = seen
  BY SubmitReturnsParts DEF Moves
<1>2. handled[a] \in Intents
  BY TypesOfAHandler DEF AboutAnIntent
<1>3. ASSUME NEW i \in Intents PROVE SettledOf(i)'
  <2>1. SUFFICES ASSUME ~rewound[i]
                 PROVE  \A b \in Activities : handled'[b] = i => Earned(b, i)'
    BY <1>3 DEF SettledInv, SettledOf, OneTrace, NoOrderLeft
  <2>2. OneTrace(i) /\ \A b \in Activities : handled[b] = i => Earned(b, i)
    BY <2>1 DEF SettledInv, SettledOf
  <2>3. NotClaimed(i) => NotClaimed(i)'
    BY <1>1 DEF NotClaimed, Others, Claimed
  <2>4. Refused(i) => Refused(i)'
    BY DEF Refused
  <2>5. ASSUME NEW b \in Activities, b # a, handled'[b] = i PROVE Earned(b, i)'
    BY <1>1, <2>2, <2>3, <2>4, <2>5 DEF Earned, Others
  <2>6. ASSUME handled[a] = i PROVE Earned(a, i)'
    <3>1. posts[i] = 0 /\ intent[i] \notin Claimable
      BY <2>1, <2>6 DEF DispatchInv, ClaimComesOnce, Claimed
    <3>2. \A b \in Activities : handled[b] = i /\ pc[b] \in Claimed => a = b
      BY <2>1, <2>6 DEF DispatchInv, ClaimComesOnce, Claimed
    <3>3. NotClaimed(i)'
      BY <1>1, <3>1, <3>2 DEF NotClaimed, Others, Claimed
    <3> QED
      BY <1>1, <3>3 DEF Earned, Claimed
  <2> QED
    BY <1>1, <2>5, <2>6
<1> QED
  BY <1>3 DEF SettledInv

(* The POST leaves: it is the first of its intent. *)
LEMMA PostKeepsSettled ==
  ASSUME DispatchTypeOK, DispatchInv, SettledInv, NEW a \in Activities, pc[a] = "submit", Goto(a, "posted"),
         UNCHANGED <<order, intent, rewound>>, posts' = [posts EXCEPT ![handled[a]] = @ + 1], NEW delta,
         requests' = requests \cup {[by |-> a, about |-> handled[a], delta |-> delta, at |-> "sent"]}
  PROVE  SettledInv'
<1> USE DEF DispatchTypeOK
<1>1. /\ Others(a) /\ pc'[a] = "posted" /\ UNCHANGED <<handled, local>>
  BY GotoMoves DEF Moves, Goto
<1>2. handled[a] \in Intents
  BY TypesOfAHandler DEF AboutAnIntent
<1>3. /\ \A i \in Intents \ {handled[a]} : posts'[i] = posts[i]
      /\ posts'[handled[a]] = posts[handled[a]] + 1 /\ posts[handled[a]] \in Nat
  BY <1>2 DEF WorldTypeOK
<1>4. ASSUME NEW i \in Intents, i # handled[a] PROVE SettledOf(i)'
  BY <1>1, <1>3, <1>4
  DEF SettledInv, SettledOf, OneTrace, Earned, NotClaimed, Refused, NoOrderLeft, Others
<1>5. ASSUME NEW i \in Intents, i = handled[a], ~rewound[i] PROVE SettledOf(i)'
  <2>1. /\ OneTrace(i) /\ posts[i] = 0 /\ intent[i] \in Open
        /\ \A b \in Activities : handled[b] = i /\ pc[b] \in Claimed => a = b
    BY <1>5 DEF SettledInv, SettledOf, Earned, DispatchInv, ClaimComesOnce, Claimed
  <2>2. OneTrace(i)'
    BY <1>3, <1>5, <2>1 DEF OneTrace
  <2>3. ASSUME NEW b \in Activities, handled[b] = i PROVE Earned(b, i)'
    <3>1. Earned(b, i) /\ ~NotClaimed(i) /\ ~Refused(i)
      BY <1>5, <2>1, <2>3 DEF SettledInv, SettledOf, NotClaimed, Refused, Claimed
    <3> QED
      BY <1>1, <1>3, <1>5, <2>1, <2>3, <3>1 DEF Earned, Others, Open, Final, Claimed
  <2> QED
    BY <1>1, <2>1, <2>2, <2>3 DEF SettledOf, Settled, Open
<1>6. ASSUME NEW i \in Intents, rewound[i] PROVE SettledOf(i)'
  BY <1>6 DEF SettledOf
<1> QED
  BY <1>4, <1>5, <1>6 DEF SettledInv

(* Requests are answered, left behind or lost, orders move on: nothing new  *)
(* is on its way.                                                           *)
NothingNew(i) ==
  /\ OneTrace(i) => OneTrace(i)'
  /\ OneTrace(i) /\ NoOrderLeft(i) => NoOrderLeft(i)'
  /\ Refused(i) => Refused(i)'

(* Then the invariant is kept, if whoever leaves the guard has earned what  *)
(* he says.                                                                 *)
LEMMA NothingNewKeepsSettled ==
  ASSUME NEW i \in Intents, SettledOf(i), NothingNew(i),
         intent'[i] = intent[i], posts'[i] = posts[i], rewound'[i] = rewound[i],
         \A b \in Activities : handled'[b] = i =>
           /\ pc'[b] \in Claimed => pc[b] \in Claimed /\ handled[b] = i
           /\ pc'[b] = "posted" => pc[b] = "posted" /\ handled[b] = i
           /\ pc'[b] = "noteAfter" =>
                \/ pc[b] = "noteAfter" /\ handled[b] = i /\ local'[b].seen = local[b].seen
                \/ /\ local'[b].seen.lookup # "ABSENT"
                   /\ local'[b].seen.lookup = "UNRESOLVED" /\ local'[b].seen.status = "REJECTED" /\ ~rewound[i]
                        => Refused(i)'
  PROVE  SettledOf(i)'
<1>1. SUFFICES ASSUME ~rewound[i]
               PROVE  /\ OneTrace(i)'
                      /\ \A b \in Activities : handled'[b] = i => Earned(b, i)'
                      /\ intent[i] \in Settled => NoOrderLeft(i)'
  BY DEF SettledOf
<1>2. OneTrace(i)' /\ (intent[i] \in Settled => NoOrderLeft(i)')
  BY <1>1 DEF SettledOf, NothingNew
<1>3. NotClaimed(i) => NotClaimed(i)'
  BY DEF NotClaimed
<1>4. Refused(i) => Refused(i)'
  BY DEF NothingNew
<1>5. ASSUME NEW b \in Activities, handled'[b] = i PROVE Earned(b, i)'
  BY <1>1, <1>3, <1>4, <1>5 DEF SettledOf, Earned
<1> QED
  BY <1>2, <1>5

(* A request that is left behind, or gone, is nothing new. *)
LEMMA LeavingBehindIsNothingNew ==
  ASSUME WorldTypeOK, UNCHANGED <<order, posts>>, NEW i \in Intents,
         \/ \E callers : requests' = LeftBehind(callers)
         \/ \E q \in requests : requests' = requests \ {q}
  PROVE  NothingNew(i)
<1>1. ASSUME NEW callers, requests' = LeftBehind(callers) PROVE NothingNew(i)
  <2>1. ASSUME NEW p \in requests'
        PROVE  \E q \in requests : /\ q.about = p.about /\ q.at = p.at
                                   /\ IF q.by \in callers THEN p = [q EXCEPT !.by = NoOne] ELSE p = q
    BY <1>1 DEF LeftBehind, WorldTypeOK, Requests
  <2> QED
    BY <2>1 DEF NothingNew, OneTrace, NoOrderLeft, Refused
<1>2. ASSUME NEW q \in requests, requests' = requests \ {q} PROVE NothingNew(i)
  BY <1>2 DEF NothingNew, OneTrace, NoOrderLeft, Refused
<1> QED
  BY <1>1, <1>2

(* An answer, or none in time. *)
LEMMA AnswersKeepSettled ==
  ASSUME DispatchTypeOK, ProjectionInv, SettledInv, NEW a \in Activities,
         PostAnswered(a) \/ PostUnanswered(a)
  PROVE  SettledInv'
<1> USE DEF DispatchTypeOK
<1>1. /\ pc[a] = "posted" /\ UNCHANGED <<order, posts, intent, rewound>>
      /\ handled[a] \in Intents
  BY TypesOfAHandler DEF PostAnswered, PostUnanswered, GivesUp, historyVars, AboutAnIntent
<1>2. Others(a)
  BY DispatchMovesOne DEF Dispatch
<1>3. \A i \in Intents : NothingNew(i)
  <2>1. \/ \E callers : requests' = LeftBehind(callers)
        \/ \E q \in requests : requests' = requests \ {q}
    BY DEF PostAnswered, PostUnanswered
  <2> QED
    BY <1>1, <2>1, LeavingBehindIsNothingNew
<1>4. ASSUME handled'[a] = handled[a],
             \/ pc'[a] = "threw"
             \/ /\ pc'[a] = "noteAfter"
                /\ \/ local'[a].seen = Found("ACCEPTED")
                   \/ local'[a].seen = Missing("UNRESOLVED", "UNKNOWN")
                   \/ local'[a].seen = Missing("UNRESOLVED", "REJECTED")
                      /\ (~rewound[handled[a]] => Refused(handled[a])')
      PROVE  SettledInv'
  <2>1. ASSUME NEW i \in Intents PROVE SettledOf(i)'
    <3>1. ASSUME NEW b \in Activities, b # a
          PROVE  pc'[b] = pc[b] /\ handled'[b] = handled[b] /\ local'[b].seen = local[b].seen
      BY <1>2, <3>1 DEF Others
    <3> QED
      BY <1>1, <1>3, <1>4, <3>1, NothingNewKeepsSettled DEF SettledInv, Found, Missing, Claimed
  <2> QED
    BY <2>1 DEF SettledInv
<1>5. ASSUME NEW q \in requests, q.by = a, q.at = "refused", requests' = requests \ {q},
             handled'[a] = handled[a], ~rewound[handled[a]]
      PROVE  Refused(handled[a])'
  <2>1. a # NoOne
    BY DispatchAssumption DEF Activities, Kinds
  <2>2. q.about = handled[a]
    BY <1>5, <2>1 DEF ProjectionInv, RequestsAreAwaited
  <2>3. OneTrace(handled[a]) /\ Earned(a, handled[a])
    BY <1>1, <1>5 DEF SettledInv, SettledOf
  <2> QED
    BY <1>1, <1>5, <2>2, <2>3 DEF OneTrace, Earned, Refused
<1>6. ASSUME NEW seen, SubmitReturns(a, seen)
      PROVE  handled'[a] = handled[a] /\ pc'[a] = "noteAfter" /\ local'[a].seen = seen
  BY <1>6, SubmitReturnsParts DEF Moves
<1>7. CASE PostUnanswered(a)
  BY <1>4, <1>6, <1>7 DEF PostUnanswered, TimeoutStatus
<1>8. CASE PostAnswered(a)
  <2>1. PICK q \in requests :
          /\ q.by = a /\ requests' = requests \ {q}
          /\ \/ SubmitReturns(a, Found("ACCEPTED"))
             \/ q.at = "refused" /\ SubmitReturns(a, Missing("UNRESOLVED", "REJECTED"))
             \/ Goto(a, "threw")
    BY <1>8 DEF PostAnswered
  <2>2. CASE Goto(a, "threw")
    BY <1>4, <2>2 DEF Goto, JobTypeOK
  <2>3. CASE SubmitReturns(a, Found("ACCEPTED"))
    BY <1>4, <1>6, <2>3
  <2>4. CASE q.at = "refused" /\ SubmitReturns(a, Missing("UNRESOLVED", "REJECTED"))
    BY <1>4, <1>5, <1>6, <2>1, <2>4
  <2> QED
    BY <2>1, <2>2, <2>3, <2>4
<1> QED
  BY <1>7, <1>8

(* start() and reconcile() settle an intent only by what they looked up. *)
LEMMA ReconcileLoopKeepsSettled ==
  ASSUME DispatchTypeOK, StartsAlone, DispatchInv, ProjectionInv, SettledInv, NEW a \in Activities,
         ReconcileLoopLater(a) \/ Start(a) \/ TakeLease(a) \/ Connect(a)
  PROVE  SettledInv'
<1> USE TypesOfAHandler DEF DispatchTypeOK
<1>1. CASE Start(a) \/ TakeLease(a) \/ Connect(a)
  <2>1. Others(a) /\ pc'[a] \notin Attached
    BY <1>1, ThrowMoves, DoneMoves, GotoMoves DEF Start, TakeLease, Connect, Moves, Attached, Claimed
  <2> QED
    BY <1>1, <2>1, MovingAway, QuietKeepsSettled
    DEF Start, TakeLease, Connect, WorldUnchanged, brokerVars, historyVars
<1>2. CASE ReconcileLoopLater(a) /\ ~NoteListed(a)
  <2>1. UNCHANGED <<order, posts, requests, intent, rewound>>
    BY <1>2 DEF ReconcileLoopLater, LeaseRefused, Reconcile, RowReconciling, SaveEquity, ListIntents,
       LookUpListed, LoopEnds, Confirm, SaveReady, RowReady, WorldUnchanged, brokerVars, historyVars
  <2>2. CASE LeaseRefused(a) \/ Reconcile(a) \/ RowReconciling(a) \/ RowReady(a) \/ LoopEnds(a)
    <3>1. pc'[a] \notin Attached
      BY <2>2, ThrowMoves, DoneMoves, GotoMoves
      DEF LeaseRefused, Reconcile, RowReconciling, RowReady, LoopEnds, Moves, Attached, Claimed
    <3> QED
      BY <1>2, <2>1, <3>1, ReconcilingMovesOne, MovingAway, QuietKeepsSettled
  <2>3. CASE SaveEquity(a) \/ SaveReady(a) \/ Confirm(a)
    <3>1. pc'[a] \notin Attached
      BY <2>3, ThrowMoves, DoneMoves, GotoMoves
      DEF SaveEquity, SaveReady, PersistThen, Confirm, Moves, Attached, Claimed
    <3> QED
      BY <1>2, <2>1, <3>1, ReconcilingMovesOne, MovingAway, QuietKeepsSettled
  <2>4. CASE ListIntents(a) \/ \E i \in Intents : LookUpListed(a, i)
    <3>1. \/ Done(a) \/ Throw(a) \/ pc' = [pc EXCEPT ![a] = "next"] \/ pc' = [pc EXCEPT ![a] = "note"]
      BY <2>4 DEF ListIntents, LookUpListed, GotoWith
    <3>2. pc'[a] \notin Attached
      BY <3>1, ThrowMoves, DoneMoves DEF Moves, JobTypeOK, Attached, Claimed
    <3> QED
      BY <1>2, <2>1, <3>2, ReconcilingMovesOne, MovingAway, QuietKeepsSettled
  <2> QED
    BY <1>2, <2>2, <2>3, <2>4 DEF ReconcileLoopLater
<1>3. CASE NoteListed(a)
  <2>1. ASSUME NEW label \in {"enter", "next"}, Goto(a, label) PROVE Moves(a, {"enter", "next"})
    BY <2>1, GotoMoves DEF Moves
  <2>2. Others(a) /\ pc'[a] \notin Attached
    BY <1>3, <2>1, ThrowMoves DEF NoteListed, Moves, Attached, Claimed
  <2> QED
    BY <1>3, <2>2, RecordingKeepsSettled DEF NoteListed, MayRecord, Observing, brokerVars, historyVars
<1> QED
  BY <1>1, <1>2, <1>3

(* A decision makes a new intent, a trade update says what the order is. *)
LEMMA OtherHandlersKeepSettled ==
  ASSUME DispatchTypeOK, DispatchInv, ProjectionInv, SettledInv, NEW a \in Activities, OtherHandler(a)
  PROVE  SettledInv'
<1> USE DEF DispatchTypeOK
<1>1. Others(a)
  BY OtherHandlersMoveOne
<1>2. ASSUME NEW i \in Intents, Decide(a, i) PROVE SettledInv'
  <2>1. /\ pc'[a] \notin Attached /\ UNCHANGED <<order, posts, requests, rewound>>
        /\ intent[i] = "NONE" /\ intent'[i] \in {"PENDING", "CANCELLED"}
        /\ \A j \in Intents \ {i} : intent'[j] = intent[j]
    BY <1>2 DEF Decide, JobTypeOK, WorldTypeOK, Attached, Claimed, brokerVars, historyVars
  <2>2. ASSUME ~rewound[i] PROVE MayBecome(i, intent'[i])
    <3>1. posts[i] = 0 /\ SettledOf(i) /\ \A b \in Activities : handled[b] = i => pc[b] \notin Claimed
      BY <2>1, <2>2 DEF DispatchInv, ClaimComesOnce, SettledInv, Claimable
    <3>2. NoOrderLeft(i) /\ \A b \in Activities : handled[b] = i => pc[b] # "posted"
      BY <2>2, <3>1 DEF SettledOf, OneTrace, NoOrderLeft, Earned
    <3> QED
      BY <2>1, <3>1, <3>2 DEF MayBecome, Claimable
  <2> QED
    BY <1>1, <2>1, <2>2, MovingAway, LeavingKeepsSettled DEF SettledInv
<1>3. CASE Persist(a) \/ HaltRow(a) \/ HaltSave(a) \/ HaltRelease(a) \/ ReadFails(a)
  <2>1. Moves(a, Labels \ Attached)
    <3>1. CASE Persist(a) \/ HaltRow(a) \/ HaltSave(a)
      BY <3>1, ThrowMoves, DoneMoves, GotoMoves
      DEF Persist, PersistThen, HaltRow, HaltSave, Moves, Labels, Attached, Claimed
    <3>2. CASE HaltRelease(a) \/ ReadFails(a)
      <4>1. Done(a) \/ DispatchReturns(a) \/ Throw(a)
        BY <3>2 DEF HaltRelease, ReadFails
      <4> QED
        BY <4>1, ThrowMoves, DoneMoves, DispatchReturnsMoves DEF Moves, Labels, Attached, Claimed
    <3> QED
      BY <1>3, <3>1, <3>2
  <2> QED
    BY <1>1, <1>3, <2>1, MovingAway, QuietKeepsSettled
    DEF Moves, Persist, HaltRow, HaltSave, HaltRelease, ReadFails, WorldUnchanged, brokerVars, historyVars
<1>4. ASSUME NEW i \in Intents, NEW s \in OrderStates, TradeUpdate(a, i, s) PROVE SettledInv'
  <2>1. pc'[a] \notin Attached /\ UNCHANGED <<order, posts, requests, rewound>>
    BY <1>4, ThrowMoves, GotoMoves DEF TradeUpdate, Moves, Attached, Claimed, brokerVars, historyVars
  <2>2. CASE UNCHANGED intent
    BY <1>1, <2>1, <2>2, MovingAway, QuietKeepsSettled
  <2>3. CASE RowUnlocked /\ Record(i, Found(s))
    <3>1. Real(i, Found(s)) /\ Found(s) \in BrokerOrderState /\ Found(s).lookup = "FOUND"
      BY <1>4 DEF TradeUpdate, WasIn, WorldTypeOK, OrderStates, Found, Real, BrokerOrderState,
         ExecutionStatus, Final, Acknowledged
    <3>2. ASSUME NEW j \in Intents, ~rewound[j] PROVE intent'[j] = intent[j] \/ MayBecome(j, intent'[j])
      <4>1. CASE j # i
        BY <2>3, <4>1 DEF Record, WorldTypeOK
      <4>2. CASE j = i
        <5>1. intent'[j] = ProjectedStatus(intent[j], Found(s)) /\ SettledOf(j)
          BY <2>3, <4>2 DEF Record, WorldTypeOK, SettledInv
        <5> QED
          BY <2>3, <3>1, <3>2, <4>2, <5>1, RecordMayBecome
      <4> QED
        BY <4>1, <4>2
    <3> QED
      BY <1>1, <2>1, <3>2, MovingAway, LeavingKeepsSettled DEF SettledInv
  <2> QED
    BY <1>4, <2>2, <2>3 DEF TradeUpdate, MayRecord
<1> QED
  BY <1>2, <1>3, <1>4 DEF OtherHandler

(* A crash leaves requests behind that were on their way. *)
LEMMA CrashKeepsSettled ==
  ASSUME DispatchTypeOK, SettledInv, NEW r \in Runs, Crash(r)
  PROVE  SettledInv'
<1> USE DispatchAssumption DEF DispatchTypeOK
<1>1. /\ UNCHANGED <<order, posts, intent, rewound>> /\ requests' = LeftBehind({r} \X Kinds)
      /\ \A b \in Activities : \/ handled'[b] = NoIntent
                               \/ pc'[b] = pc[b] /\ handled'[b] = handled[b] /\ local'[b] = local[b]
  BY DEF Crash, historyVars
<1>2. ASSUME NEW i \in Intents PROVE SettledOf(i)'
  <2>1. NothingNew(i)
    BY <1>1, LeavingBehindIsNothingNew
  <2>2. \A b \in Activities : handled'[b] = i => pc'[b] = pc[b] /\ handled[b] = i /\ local'[b] = local[b]
    BY <1>1
  <2> QED
    BY <1>1, <2>1, <2>2, NothingNewKeepsSettled DEF SettledInv
<1> QED
  BY <1>2 DEF SettledInv

(* What happens at the broker happens to an intent that is not over. *)
LEMMA OutsideKeepsSettled ==
  ASSUME DispatchTypeOK, SettledInv, Outside
  PROVE  SettledInv'
<1> USE DEF DispatchTypeOK
<1>1. UNCHANGED <<pc, handled, local, intent, posts, rewound>>
  BY OutsideMovesNone DEF jobVars, Outside, Arrive, LoseRequest, SettleOrder, TimePasses, vars, historyVars
<1>2. ASSUME NEW i \in Intents PROVE NothingNew(i)
  <2>1. ASSUME NEW q \in requests, Arrive(q) PROVE NothingNew(i)
    <3>1. q \in Requests /\ q.at = "sent"
      BY <2>1 DEF Arrive, WorldTypeOK
    <3>2. ASSUME NEW p \in requests'
          PROVE  \/ p \in requests /\ p # q
                 \/ /\ p.about = q.about
                    /\ (p.at = "refused" /\ order' = order) \/ p.at = "accepted"
                    /\ \A p2 \in requests' : (p2 \in requests /\ p2 # q) \/ p2 = p
      BY <2>1, <3>1, <3>2 DEF Arrive, Requests
    <3>3. \/ order' = order
          \/ order[q.about] = "NONE" /\ order' = [order EXCEPT ![q.about] = "ACCEPTED"]
      BY <2>1 DEF Arrive
    <3> QED
      BY <1>1, <3>1, <3>2, <3>3 DEF NothingNew, OneTrace, NoOrderLeft, Refused, WorldTypeOK, Requests
  <2>2. ASSUME NEW q \in requests, LoseRequest(q) PROVE NothingNew(i)
    BY <1>1, <2>2, LeavingBehindIsNothingNew DEF LoseRequest
  <2>3. ASSUME NEW j \in Intents, SettleOrder(j) PROVE NothingNew(i)
    BY <1>1, <2>3 DEF SettleOrder, NothingNew, OneTrace, NoOrderLeft, Refused, WorldTypeOK
  <2>4. CASE TimePasses \/ UNCHANGED vars
    BY <2>4 DEF TimePasses, vars, brokerVars, historyVars, NothingNew, OneTrace, NoOrderLeft, Refused
  <2> QED
    BY <2>1, <2>2, <2>3, <2>4 DEF Outside
<1> QED
  BY <1>1, <1>2, NothingNewKeepsSettled DEF SettledInv

(* Every step keeps it, if no gateway answers in the broker's place. *)
LEMMA StepKeepsSettled ==
  ASSUME GatewayErrors = FALSE, DispatchTypeOK, StartsAlone, DispatchInv, ProjectionInv, SettledInv,
         [Next]_vars
  PROVE  SettledInv'
<1> USE DEF DispatchTypeOK
<1>1. ASSUME NEW a \in Activities, Dispatch(a) PROVE SettledInv'
  <2>1. CASE Claim(a)
    BY <2>1, ClaimKeepsSettled
  <2>2. CASE PostAnswered(a) \/ PostUnanswered(a)
    BY <2>2, AnswersKeepSettled
  <2>3. CASE Submit(a)
    <3> DEFINE found == LookUp(Run(a), handled[a], "PENDING")
    <3>1. pc[a] = "submit" /\ UNCHANGED <<order, intent, rewound>>
      BY <2>3 DEF Submit
    <3>2. found.lookup # "UNRESOLVED" /\ Missing("ABSENT", "CANCELLED").lookup # "UNRESOLVED"
      BY DEF LookUp, Found, Missing
    <3> HIDE DEF found
    <3>3. \/ UNCHANGED <<posts, requests>> /\ SubmitReturns(a, found)
          \/ UNCHANGED <<posts, requests>> /\ SubmitReturns(a, Missing("ABSENT", "CANCELLED"))
          \/ /\ posts' = [posts EXCEPT ![handled[a]] = @ + 1] /\ Goto(a, "posted")
             /\ \E delta :
                  requests' = requests \cup {[by |-> a, about |-> handled[a], delta |-> delta, at |-> "sent"]}
      BY <2>3 DEF Submit, found
    <3> QED
      BY <3>1, <3>2, <3>3, SubmitWithoutPostKeepsSettled, PostKeepsSettled
  <2>4. ~PostAnsweredByGateway(a)
    BY DEF PostAnsweredByGateway
  <2> QED
    BY <1>1, <2>1, <2>2, <2>3, <2>4, DispatchKeepsSettled DEF Dispatch
<1>2. ASSUME NEW a \in Activities,
             \/ Dispatch(a) \/ ReconcileLoopLater(a) \/ OtherHandler(a)
             \/ Start(a) \/ TakeLease(a) \/ Connect(a)
      PROVE  SettledInv'
  BY <1>1, <1>2, ReconcileLoopKeepsSettled, OtherHandlersKeepSettled
<1>3. ASSUME NEW r \in Runs, RenewTimer(r) \/ Crash(r) PROVE SettledInv'
  <2>1. CASE RenewTimer(r)
    <3>1. HandlersLeave /\ UNCHANGED <<order, posts, requests, intent, rewound>>
      BY <2>1 DEF RenewTimer, WorldUnchanged, jobVars, brokerVars, historyVars, HandlersLeave
    <3> QED
      BY <3>1, QuietKeepsSettled
  <2> QED
    BY <1>3, <2>1, CrashKeepsSettled
<1>4. CASE Outside
  BY <1>4, OutsideKeepsSettled
<1> QED
  BY <1>2, <1>3, <1>4, KindsOfSteps

(* When only the broker answers POSTs, an intent that is CANCELLED or       *)
(* REJECTED is over: the broker has no open or filled order for it, and no  *)
(* POST about it is still on its way.                                       *)
THEOREM SettledIsOver == GatewayErrors = FALSE => (Spec => []SettledMeansNoOrder)
<1>1. SUFFICES ASSUME GatewayErrors = FALSE PROVE Spec => []SettledMeansNoOrder
  OBVIOUS
<1>2. Init => SettledInv
  BY DEF Init, SettledInv, SettledOf, OneTrace, Earned, Claimed, Settled
<1>3. TypeOK /\ StartsAlone /\ DispatchInv /\ ProjectionInv /\ SettledInv /\ [Next]_vars => SettledInv'
  BY <1>1, StepKeepsSettled DEF TypeOK, DispatchTypeOK
<1>4. SettledInv => SettledMeansNoOrder
  BY DEF SettledInv, SettledOf, Settled, NoOrderLeft, SettledMeansNoOrder
<1> QED
  BY <1>2, <1>3, <1>4, TypeCorrectness, ProcessesStartAlone, DispatchInvariance, ProjectionInvariance, PTL
  DEF Spec

----------------------------------------------------------------------------
(* start() connects only when no submission of the past is open.            *)

Named(r) == owner = r /\ token = runToken[r]

BeforePost == {"next", "enter", "orders", "putStale", "putBack", "lookup", "noteBefore", "claim"}
InSubmit == {"guard", "submit", "posted", "noteAfter"}
Ready == {"save", "ready", "connect"}

(* Every open submission is one that the reconcile loop has still listed,   *)
(* or the one that it is just looking at.                                   *)
Covered(a) ==
  LET i == handled[a]
      seen == local[a].seen
      listed == local[a].listed
  IN
  /\ pc[a] \in BeforePost => \A j \in Intents : intent[j] \in Open => listed[j] \in Open
  /\ pc[a] \in BeforePost \ {"next"} => intent[i] \notin Open
  /\ pc[a] \in InSubmit \cup {"note"} => \A j \in Intents \ {i} : intent[j] \in Open => listed[j] \in Open
  /\ pc[a] = "note" /\ intent[i] \in Open => seen.lookup = "FOUND" \/ seen.status = "UNKNOWN"
  /\ pc[a] \in InSubmit => intent[i] # "UNKNOWN"
  /\ pc[a] = "confirm" => \A j \in Intents : intent[j] \notin Open

(* Of a run that is starting and that no other run has followed as owner.   *)
StartupOf(a) ==
  ~started[Run(a)] /\ Named(Run(a)) =>
    /\ owns[Run(a)] => Covered(a)
    /\ pc[a] \in Ready => \A i \in Intents : intent[i] \notin Open

StartupInv == \A a \in Activities : StartupOf(a)

(* What another handler, or nobody, does leaves what is known of a starting *)
(* run alone, if it opens no submission.                                    *)
OpensNone == \A i \in Intents : intent'[i] \in Open => intent'[i] = intent[i]
GrantsNone == UNCHANGED <<owner, token, runToken>>

LEMMA OthersKeepStartup ==
  ASSUME NEW a \in Activities, StartupOf(a),
         pc'[a] = "idle" \/ (pc'[a] = pc[a] /\ handled'[a] = handled[a] /\ local'[a] = local[a]),
         pc[a] # "idle" => OpensNone,
         GrantsNone, pc'[a] # "idle" => (~started'[Run(a)] => ~started[Run(a)]), owns'[Run(a)] => owns[Run(a)],
         handled[a] \in Intents \/ pc[a] \notin AboutAnIntent
  PROVE  StartupOf(a)'
<1>1. CASE pc'[a] = "idle"
  BY <1>1 DEF StartupOf, Covered, BeforePost, InSubmit, Ready
<1>2. CASE pc'[a] # "idle"
  <2>1. SUFFICES ASSUME ~started'[Run(a)], Named(Run(a))'
                 PROVE  (owns'[Run(a)] => Covered(a)') /\ (pc'[a] \in Ready => \A i \in Intents : intent'[i] \notin Open)
    BY DEF StartupOf
  <2>2. ~started[Run(a)] /\ Named(Run(a)) /\ OpensNone
    BY <1>2, <2>1 DEF Named, GrantsNone
  <2>3. pc[a] \in Ready => \A i \in Intents : intent'[i] \notin Open
    BY <2>2 DEF StartupOf, OpensNone
  <2>4. owns[Run(a)] => Covered(a)'
    BY <1>2, <2>2 DEF StartupOf, OpensNone, Covered, BeforePost, InSubmit, AboutAnIntent, Open
  <2> QED
    BY <1>2, <2>3, <2>4
<1> QED
  BY <1>1, <1>2

(* Only start() is granted the lease. *)
LEMMA OnlyTakeLeaseGrants ==
  ASSUME [Next]_vars, ~\E a \in Activities : TakeLease(a)
  PROVE  GrantsNone
<1> USE DEF GrantsNone
<1>1. ASSUME NEW a \in Activities, Throw(a) \/ LoseAndThrow(a) \/ StoreUnchanged PROVE GrantsNone
  BY <1>1 DEF Throw, Halt, LoseAndThrow, LoseOwnership, StoreUnchanged, storeVars, leaseVars
<1>2. ASSUME NEW r, NEW s,
             \/ CreateRun(r) \/ Renew(r) \/ Release(r) \/ UpdateRun(r, s) \/ WriteCheckpointOwned(r)
             \/ LockForSubmit(r) \/ CommitSubmit(r) \/ RollbackSubmit(r) \/ Tick
      PROVE  GrantsNone
  BY <1>2 DEF CreateRun, Renew, Release, UpdateRun, WriteCheckpointOwned, LockForSubmit, CommitSubmit,
     RollbackSubmit, Tick, leaseVars
<1>3. ASSUME NEW a \in Activities, Dispatch(a) PROVE GrantsNone
  <2>1. CASE StaleBar(a) \/ ReadPosition(a) \/ ReadOpenOrders(a) \/ PutIntent(a) \/ LookUpBefore(a)
    BY <1>1, <2>1 DEF StaleBar, ReadPosition, ReadOpenOrders, PutIntent, LookUpBefore
  <2>2. CASE NoteBefore(a) \/ Claim(a) \/ EnterGuard(a) \/ NoteAfter(a)
    BY <1>1, <1>2, <2>2 DEF NoteBefore, Claim, EnterGuard, NoteAfter
  <2>3. CASE \/ Submit(a) \/ PostAnswered(a) \/ PostUnanswered(a) \/ PostAnsweredByGateway(a)
             \/ SubmitLookupFails(a) \/ SubmitThrew(a)
    BY <1>1, <1>2, <2>3 DEF Submit, PostAnswered, PostUnanswered, PostAnsweredByGateway, SubmitLookupFails,
       SubmitThrew, SubmitReturns
  <2> QED
    BY <1>3, <2>1, <2>2, <2>3 DEF Dispatch
<1>4. ASSUME NEW a \in Activities, ReconcileLoopLater(a) \/ Start(a) \/ Connect(a) PROVE GrantsNone
  <2>1. CASE Start(a) \/ Connect(a) \/ LeaseRefused(a) \/ Reconcile(a) \/ RowReconciling(a)
    BY <1>1, <1>2, <2>1 DEF Start, Connect, LeaseRefused, Reconcile, RowReconciling
  <2>2. CASE SaveEquity(a) \/ SaveReady(a) \/ ListIntents(a) \/ NoteListed(a) \/ LoopEnds(a)
    BY <1>1, <1>2, <2>2 DEF SaveEquity, SaveReady, PersistThen, ListIntents, NoteListed, LoopEnds
  <2>3. CASE Confirm(a) \/ RowReady(a) \/ \E i \in Intents : LookUpListed(a, i)
    BY <1>1, <1>2, <2>3 DEF Confirm, RowReady, LookUpListed
  <2> QED
    BY <1>4, <2>1, <2>2, <2>3 DEF ReconcileLoopLater
<1>5. ASSUME NEW a \in Activities, OtherHandler(a) PROVE GrantsNone
  <2>1. CASE Persist(a) \/ HaltRow(a) \/ HaltSave(a) \/ HaltRelease(a) \/ ReadFails(a)
    BY <1>1, <1>2, <2>1 DEF Persist, PersistThen, HaltRow, HaltSave, HaltRelease, ReadFails
  <2>2. CASE (\E i \in Intents : Decide(a, i)) \/ \E i \in Intents, s \in OrderStates : TradeUpdate(a, i, s)
    BY <1>1, <2>2 DEF Decide, TradeUpdate
  <2> QED
    BY <1>5, <2>1, <2>2 DEF OtherHandler
<1>6. ASSUME NEW r \in Runs, RenewTimer(r) \/ Crash(r) PROVE GrantsNone
  BY <1>2, <1>6 DEF RenewTimer, Crash, LoseOwnership, StoreUnchanged, storeVars, leaseVars
<1>7. CASE Outside
  BY <1>7 DEF Outside, Arrive, LoseRequest, SettleOrder, TimePasses, Tick, vars, storeVars
<1> QED
  BY <1>3, <1>4, <1>5, <1>6, <1>7, KindsOfSteps

(* An intent that is not open is opened only by a run that holds the lease, *)
(* and an open one becomes UNKNOWN only by one.                             *)
LEMMA OnlyTheHolderOpens ==
  ASSUME DispatchTypeOK, NEW a \in Activities, Dispatch(a) \/ ReconcileLoop(a) \/ OtherHandler(a)
  PROVE  OpensNone \/ Holds(Run(a))
<1> USE TypesOfAHandler DEF DispatchTypeOK
<1>1. CASE UNCHANGED intent
  BY <1>1 DEF OpensNone
<1>2. CASE NoteBefore(a) \/ NoteAfter(a) \/ NoteListed(a) \/ Claim(a)
  BY <1>1, <1>2 DEF NoteBefore, NoteAfter, NoteListed, Claim, MayRecord, MayClaim
<1>3. CASE PutIntent(a)
  <2>1. handled[a] \in Intents
    BY <1>3 DEF PutIntent, AboutAnIntent
  <2> QED
    BY <1>3, <2>1 DEF PutIntent, OpensNone, Open, WorldTypeOK
<1>4. CASE Dispatch(a)
  <2>1. CASE StaleBar(a) \/ ReadPosition(a) \/ ReadOpenOrders(a) \/ LookUpBefore(a) \/ EnterGuard(a)
    BY <1>1, <2>1 DEF StaleBar, ReadPosition, ReadOpenOrders, LookUpBefore, EnterGuard, WorldUnchanged
  <2>2. CASE \/ Submit(a) \/ PostAnswered(a) \/ PostUnanswered(a) \/ PostAnsweredByGateway(a)
             \/ SubmitLookupFails(a) \/ SubmitThrew(a)
    BY <1>1, <2>2 DEF Submit, PostAnswered, PostUnanswered, PostAnsweredByGateway, SubmitLookupFails,
       SubmitThrew, WorldUnchanged
  <2> QED
    BY <1>2, <1>3, <1>4, <2>1, <2>2 DEF Dispatch
<1>5. CASE ReconcileLoop(a)
  BY <1>1, <1>2, <1>5
  DEF ReconcileLoop, Start, TakeLease, LeaseRefused, Reconcile, RowReconciling, SaveEquity, ListIntents,
      LookUpListed, LoopEnds, Confirm, SaveReady, RowReady, Connect, WorldUnchanged
<1>6. CASE OtherHandler(a)
  <2>1. CASE Persist(a) \/ HaltRow(a) \/ HaltSave(a) \/ HaltRelease(a) \/ ReadFails(a)
    BY <1>1, <2>1 DEF Persist, HaltRow, HaltSave, HaltRelease, ReadFails, WorldUnchanged
  <2>2. ASSUME NEW i \in Intents, Decide(a, i) PROVE OpensNone
    BY <2>2 DEF Decide, OpensNone, Open, WorldTypeOK
  <2>3. ASSUME NEW i \in Intents, NEW s \in OrderStates, TradeUpdate(a, i, s) PROVE OpensNone \/ Holds(Run(a))
    BY <1>1, <2>3 DEF TradeUpdate, MayRecord
  <2> QED
    BY <1>6, <2>1, <2>2, <2>3 DEF OtherHandler
<1> QED
  BY <1>4, <1>5, <1>6

(* What closes an open submission: the order, or an earned end.             *)
LEMMA RecordCloses ==
  ASSUME NEW current \in Rows, NEW seen \in BrokerOrderState,
         seen.lookup = "FOUND" => seen.status \in {"ACCEPTED", "FILLED", "CANCELLED"},
         seen.lookup = "UNRESOLVED" => seen.status \in {"REJECTED", "UNKNOWN"},
         \/ seen.lookup = "FOUND"
         \/ seen.lookup = "ABSENT" /\ current \notin Open
         \/ seen.lookup = "UNRESOLVED" /\ seen.status = "REJECTED"
         \/ NoOrderNeeded(current, seen)
  PROVE  ProjectedStatus(current, seen) \notin Open
  BY DEF ProjectedStatus, KeepsStatus, NoOrderNeeded, Open, Rows, ExecutionStatus, BrokerOrderState,
     Final, Acknowledged

(* A starting run at a place where nothing need be known. *)
LEMMA NothingToKnow ==
  ASSUME NEW a \in Activities,
         \/ pc'[a] \notin BeforePost \cup InSubmit \cup Ready \cup {"note", "confirm"}
         \/ ~owns'[Run(a)] /\ pc'[a] \notin Ready
  PROVE  StartupOf(a)'
  BY DEF StartupOf, Covered, BeforePost, InSubmit, Ready

(* A starting run that goes on to where the same must be known. *)
LEMMA SameToKnow ==
  ASSUME JobTypeOK, NEW a \in Activities, StartupOf(a), pc[a] # "idle", UNCHANGED <<intent, started>>, GrantsNone,
         owns'[Run(a)] => owns[Run(a)], handled'[a] = handled[a], local'[a].listed = local[a].listed,
         \/ pc[a] \in BeforePost \ {"next"} /\ pc'[a] \in BeforePost \ {"next"}
         \/ pc[a] \in InSubmit /\ pc'[a] \in InSubmit
         \/ pc[a] \in Ready /\ pc'[a] \in Ready
  PROVE  StartupOf(a)'
  BY DEF StartupOf, Covered, BeforePost, InSubmit, Ready, Named, GrantsNone

(* A throw, a halt or a return needs no knowledge. *)
LEMMA LeavingNeedsNothing ==
  ASSUME JobTypeOK, NEW a \in Activities, Throw(a) \/ LoseAndThrow(a) \/ Done(a)
  PROVE  StartupOf(a)'
<1>1. pc'[a] \in {"idle", "haltRow"}
  BY ThrowMoves, DoneMoves DEF Moves
<1> QED
  BY <1>1, NothingToKnow DEF BeforePost, InSubmit, Ready

(* A step of the handler of a run that is starting, at a place where the    *)
(* run, if it is the owner, knows what is open.                             *)
StartingStep(a) ==
  /\ pc[a] # "idle" /\ ~started[Run(a)] /\ StartupOf(a)
  /\ GrantsNone

(* What is left to show where the handler still owns the lease. *)
LEMMA OwnerMustKnow ==
  ASSUME NEW a \in Activities, StartingStep(a), owns'[Run(a)] => owns[Run(a)],
         owns[Run(a)] /\ Named(Run(a)) /\ Covered(a) => Covered(a)',
         pc'[a] \notin Ready
  PROVE  StartupOf(a)'
  BY DEF StartupOf, StartingStep, Named, GrantsNone

(* An observation that closes the intent it is about lets the loop go on. *)
LEMMA ClosedGoesOn ==
  ASSUME DispatchTypeOK, NEW a \in Activities, StartingStep(a), handled[a] \in Intents, UNCHANGED <<owns, handled, local>>,
         \E s \in Rows \ Open : intent' = [intent EXCEPT ![handled[a]] = s],
         pc[a] \in BeforePost \cup InSubmit \cup {"note"}, pc'[a] \in BeforePost
  PROVE  StartupOf(a)'
<1> USE DEF DispatchTypeOK, WorldTypeOK, Covered, BeforePost, InSubmit, Open
<1>1. intent'[handled[a]] \notin Open /\ \A j \in Intents \ {handled[a]} : intent'[j] = intent[j]
  OBVIOUS
<1>2. ASSUME Covered(a), pc[a] \in BeforePost PROVE Covered(a)'
  BY <1>1, <1>2
<1>3. ASSUME Covered(a), pc[a] \in InSubmit \cup {"note"} PROVE Covered(a)'
  BY <1>1, <1>3
<1> QED
  BY <1>2, <1>3, OwnerMustKnow DEF Ready

(* dispatch() up to the claim: the intent it is about is not open. *)
LEMMA BeforeTheClaim ==
  ASSUME DispatchTypeOK, StartsAlone, ProjectionInv, NEW a \in Activities, StartingStep(a),
         StaleBar(a) \/ ReadPosition(a) \/ ReadOpenOrders(a) \/ PutIntent(a) \/ LookUpBefore(a) \/ NoteBefore(a)
  PROVE  StartupOf(a)'
<1> USE TypesOfAHandler DEF DispatchTypeOK
<1>0. Kind(a) # "bars" /\ StartupOf(a)
  BY DispatchAssumption DEF StartsAlone, StartingStep
<1>1. CASE StaleBar(a) \/ ReadOpenOrders(a)
  <2>1. PICK label \in {"putStale", "putBack", "lookup"} : Goto(a, label)
    BY <1>1 DEF StaleBar, ReadOpenOrders
  <2>2. pc'[a] = label /\ handled' = handled /\ local' = local
    BY <2>1 DEF Goto, JobTypeOK
  <2>3. UNCHANGED <<intent, started, owns>> /\ pc[a] \in {"enter", "orders"}
    BY <1>1 DEF StaleBar, ReadOpenOrders, WorldUnchanged, MemUnchanged, memVars
  <2> QED
    BY <1>0, <2>2, <2>3, SameToKnow DEF StartingStep, BeforePost
<1>2. CASE ReadPosition(a) \/ LookUpBefore(a)
  <2>1. /\ pc[a] \in {"enter", "lookup"} /\ pc'[a] \in {"orders", "noteBefore"} /\ handled' = handled
        /\ local'[a].listed = local[a].listed
    BY <1>2 DEF ReadPosition, LookUpBefore, GotoWith, JobTypeOK, Locals
  <2>2. UNCHANGED <<intent, started, owns>>
    BY <1>2 DEF ReadPosition, LookUpBefore, WorldUnchanged, MemUnchanged, memVars
  <2> QED
    BY <1>0, <2>1, <2>2, SameToKnow DEF StartingStep, BeforePost
<1>3. CASE PutIntent(a)
  <2>1. pc'[a] = "next" /\ handled' = handled /\ local' = local /\ handled[a] \in Intents
    BY <1>0, <1>3 DEF PutIntent, DispatchReturns, Goto, JobTypeOK, AboutAnIntent
  <2>2. \E s \in Rows \ Open : intent' = [intent EXCEPT ![handled[a]] = s]
    <3>1. PICK s \in {"CANCELLED", "PENDING"} : intent' = [intent EXCEPT ![handled[a]] = s]
      BY <1>3 DEF PutIntent
    <3>2. s \in Rows \ Open
      BY DEF Rows, ExecutionStatus, Final, Open
    <3> QED
      BY <3>1, <3>2
  <2> QED
    BY <1>3, <2>1, <2>2, ClosedGoesOn DEF PutIntent, MemUnchanged, memVars, BeforePost
<1>4. CASE NoteBefore(a)
  <2>1. CASE Throw(a)
    BY <2>1, LeavingNeedsNothing
  <2>2. CASE ~Throw(a)
    <3>1. /\ owns[Run(a)] /\ UNCHANGED <<owns, started>> /\ pc[a] = "noteBefore"
          /\ intent' = [intent EXCEPT ![handled[a]] = ProjectedStatus(@, local[a].seen)]
          /\ DispatchReturns(a) \/ Goto(a, "claim")
      BY <1>4, <2>2 DEF NoteBefore, MemUnchanged, memVars, Record
    <3>2. pc'[a] \in {"next", "claim"} /\ handled' = handled /\ local' = local /\ handled[a] \in Intents
      BY <1>0, <3>1 DEF DispatchReturns, Goto, JobTypeOK, AboutAnIntent
    <3>3. CASE intent[handled[a]] \notin Open
      <4>1. Real(handled[a], local[a].seen) /\ Modest("noteBefore", local[a].seen)
        BY <3>1 DEF ProjectionInv, ObservationsAreReal, ObservationsAreModest, Observing
      <4>2. ProjectedStatus(intent[handled[a]], local[a].seen) \in Rows \ Open
        BY <3>2, <3>3, <4>1, RecordCloses, RecordTypes DEF Real, Modest, BrokerOrderState, WorldTypeOK, ProjectedStatus, Rows
      <4> QED
        BY <3>1, <3>2, <4>2, ClosedGoesOn DEF BeforePost
    <3>4. CASE intent[handled[a]] \in Open
      BY <3>1, <3>2, <3>4, OwnerMustKnow DEF Covered, BeforePost, Ready
    <3> QED
      BY <3>3, <3>4
  <2> QED
    BY <2>1, <2>2
<1> QED
  BY <1>1, <1>2, <1>3, <1>4

(* The claim opens the intent; from there to the answer it is the handler's *)
(* own open submission, and what submit() says of it closes it.             *)
LEMMA FromTheClaim ==
  ASSUME DispatchTypeOK, StartsAlone, ProjectionInv, NEW a \in Activities, StartingStep(a),
         \/ Claim(a) \/ EnterGuard(a) \/ Submit(a) \/ PostAnswered(a) \/ PostUnanswered(a)
         \/ PostAnsweredByGateway(a) \/ NoteAfter(a) \/ SubmitLookupFails(a) \/ SubmitThrew(a)
  PROVE  StartupOf(a)'
<1> USE TypesOfAHandler DEF DispatchTypeOK
<1>0. Kind(a) # "bars" /\ StartupOf(a)
  BY DispatchAssumption DEF StartsAlone, StartingStep
<1>1. CASE Claim(a)
  <2>1. CASE LoseAndThrow(a)
    BY <2>1, LeavingNeedsNothing
  <2>2. CASE ~LoseAndThrow(a)
    <3>1. /\ intent' = [intent EXCEPT ![handled[a]] = "SUBMISSION_ATTEMPTED"] /\ Goto(a, "guard")
          /\ UNCHANGED <<owns, started>> /\ pc[a] = "claim"
      BY <1>1, <2>2 DEF Claim, Marker, MemUnchanged, memVars
    <3>2. pc'[a] = "guard" /\ handled' = handled /\ local' = local /\ handled[a] \in Intents
      BY <3>1 DEF Goto, JobTypeOK, AboutAnIntent
    <3> QED
      BY <3>1, <3>2, OwnerMustKnow DEF Covered, BeforePost, InSubmit, Ready, Open, WorldTypeOK
  <2> QED
    BY <2>1, <2>2
<1>2. CASE EnterGuard(a)
  <2>1. CASE LoseAndThrow(a)
    BY <2>1, LeavingNeedsNothing
  <2>2. CASE ~LoseAndThrow(a)
    <3>1. /\ Goto(a, "submit") /\ UNCHANGED <<owns, started, intent>> /\ pc[a] = "guard"
      BY <1>2, <2>2 DEF EnterGuard, WorldUnchanged, MemUnchanged, memVars
    <3>2. pc'[a] = "submit" /\ handled' = handled /\ local' = local
      BY <3>1 DEF Goto, JobTypeOK
    <3> QED
      BY <1>0, <3>1, <3>2, SameToKnow DEF StartingStep, InSubmit
  <2> QED
    BY <2>1, <2>2
<1>3. CASE Submit(a) \/ PostAnswered(a) \/ PostUnanswered(a) \/ PostAnsweredByGateway(a)
  <2>1. UNCHANGED <<owns, started, intent>> /\ pc[a] \in InSubmit
    BY <1>3 DEF Submit, PostAnswered, PostUnanswered, GivesUp, PostAnsweredByGateway, MemUnchanged, memVars, InSubmit
  <2>2. \/ \E label \in {"posted", "threw"} : Goto(a, label)
        \/ \E seen : SubmitReturns(a, seen)
    BY <1>3 DEF Submit, PostAnswered, PostUnanswered, PostAnsweredByGateway
  <2>3. CASE \E seen : SubmitReturns(a, seen)
    <3>1. pc'[a] = "noteAfter" /\ handled' = handled /\ local'[a].listed = local[a].listed
      BY <2>3 DEF SubmitReturns, GotoWith, JobTypeOK, Locals
    <3> QED
      BY <1>0, <2>1, <3>1, SameToKnow DEF StartingStep, InSubmit
  <2>4. ASSUME NEW label \in {"posted", "threw"}, Goto(a, label) PROVE StartupOf(a)'
    <3>1. pc'[a] = label /\ handled' = handled /\ local' = local
      BY <2>4 DEF Goto, JobTypeOK
    <3>2. CASE label = "posted"
      BY <1>0, <2>1, <3>1, <3>2, SameToKnow DEF StartingStep, InSubmit
    <3>3. CASE label = "threw"
      BY <3>1, <3>3, NothingToKnow DEF BeforePost, InSubmit, Ready
    <3> QED
      BY <3>2, <3>3
  <2> QED
    BY <2>2, <2>3, <2>4
<1>4. CASE NoteAfter(a)
  <2>1. CASE Throw(a)
    BY <2>1, LeavingNeedsNothing
  <2>2. CASE pc'[a] = "haltRow"
    BY <2>2, NothingToKnow DEF BeforePost, InSubmit, Ready
  <2>3. CASE ~Throw(a) /\ pc'[a] # "haltRow"
    <3>1. /\ owns[Run(a)] /\ UNCHANGED <<owns, started>> /\ pc[a] = "noteAfter"
          /\ intent' = [intent EXCEPT ![handled[a]] = ProjectedStatus(@, local[a].seen)]
          /\ DispatchReturns(a) /\ local[a].seen.status # "UNKNOWN"
      BY <1>4, <2>3 DEF NoteAfter, MemUnchanged, memVars, Record, GotoWith, JobTypeOK
    <3>2. pc'[a] = "next" /\ handled' = handled /\ local' = local /\ handled[a] \in Intents
      BY <1>0, <3>1 DEF DispatchReturns, Goto, JobTypeOK, AboutAnIntent
    <3>3. Real(handled[a], local[a].seen) /\ Modest("noteAfter", local[a].seen)
      BY <3>1 DEF ProjectionInv, ObservationsAreReal, ObservationsAreModest, Observing
    <3>4. CASE intent[handled[a]] # "UNKNOWN"
      <4>1. \/ local[a].seen.lookup = "FOUND"
            \/ local[a].seen.lookup = "UNRESOLVED" /\ local[a].seen.status = "REJECTED"
            \/ local[a].seen.lookup = "ABSENT" /\ intent[handled[a]] \notin Open
            \/ NoOrderNeeded(intent[handled[a]], local[a].seen)
        BY <3>1, <3>2, <3>3, <3>4 DEF Modest, BrokerOrderState, NoOrderNeeded, Open
      <4>2. ProjectedStatus(intent[handled[a]], local[a].seen) \in Rows \ Open
        BY <3>2, <3>3, <4>1, RecordCloses DEF Real, Modest, BrokerOrderState, WorldTypeOK, ProjectedStatus, Rows
      <4> QED
        BY <3>1, <3>2, <4>2, ClosedGoesOn DEF BeforePost, InSubmit
    <3>5. CASE intent[handled[a]] = "UNKNOWN"
      BY <3>1, <3>2, <3>5, OwnerMustKnow DEF Covered, InSubmit, Ready, BeforePost
    <3> QED
      BY <3>4, <3>5
  <2> QED
    BY <2>1, <2>2, <2>3
<1>5. CASE SubmitLookupFails(a)
  <2>1. pc'[a] = "threw"
    BY <1>5 DEF SubmitLookupFails, Goto, JobTypeOK
  <2> QED
    BY <2>1, NothingToKnow DEF BeforePost, InSubmit, Ready
<1>6. CASE SubmitThrew(a)
  BY <1>6, LeavingNeedsNothing DEF SubmitThrew
<1> QED
  BY <1>1, <1>2, <1>3, <1>4, <1>5, <1>6

(* The loop lists what is open, looks at each and ends when none is left;   *)
(* from the confirmation to the connection none is open.                    *)
LEMMA LoopOfAStart ==
  ASSUME DispatchTypeOK, StartsAlone, ProjectionInv, NEW a \in Activities, StartingStep(a),
         ReconcileLoopLater(a) \/ Connect(a)
  PROVE  StartupOf(a)'
<1> USE TypesOfAHandler DEF DispatchTypeOK
<1>0. StartupOf(a) /\ ~started[Run(a)]
  BY DEF StartingStep
<1>1. CASE Throw(a) \/ LoseAndThrow(a) \/ Done(a)
  BY <1>1, LeavingNeedsNothing
<1> SUFFICES ASSUME ~Throw(a), ~LoseAndThrow(a), ~Done(a) PROVE StartupOf(a)'
  BY <1>1
<1>2. CASE LeaseRefused(a) \/ Reconcile(a) \/ RowReconciling(a) \/ SaveEquity(a)
  <2>1. PICK label \in {"row", "equity", "list"} : Goto(a, label)
    BY <1>2 DEF LeaseRefused, Reconcile, RowReconciling, SaveEquity, PersistThen
  <2>2. pc'[a] = label
    BY <2>1 DEF Goto, JobTypeOK
  <2> QED
    BY <2>2, NothingToKnow DEF BeforePost, InSubmit, Ready
<1>3. CASE ListIntents(a)
  <2>1. /\ UNCHANGED <<owns, started, intent>> /\ pc[a] = "list" /\ pc'[a] = "next" /\ handled' = handled
        /\ local'[a].listed = [i \in Intents |-> IF intent[i] \in Final THEN "NONE" ELSE intent[i]]
    BY <1>3 DEF ListIntents, WorldUnchanged, MemUnchanged, memVars, GotoWith, JobTypeOK, Locals
  <2>2. Covered(a)'
    BY <2>1 DEF Covered, BeforePost, InSubmit, Open, Final
  <2> QED
    BY <2>1, <2>2, OwnerMustKnow DEF Ready
<1>4. ASSUME NEW i \in Intents, LookUpListed(a, i) PROVE StartupOf(a)'
  <2> DEFINE stored == local[a].listed[i]
             seen == LookUp(Run(a), i, stored)
  <2>1. /\ UNCHANGED <<owns, started, intent>> /\ pc[a] = "next"
        /\ pc' = [pc EXCEPT ![a] = "note"] /\ handled' = [handled EXCEPT ![a] = i]
        /\ local' = [local EXCEPT ![a].seen = seen, ![a].listed[i] = "NONE"]
        /\ ~MarkerBlocks(stored, seen)
    BY <1>4 DEF LookUpListed, WorldUnchanged
  <2>2. /\ pc'[a] = "note" /\ handled'[a] = i /\ local'[a].seen = seen
        /\ \A j \in Intents \ {i} : local'[a].listed[j] = local[a].listed[j]
    BY <2>1 DEF JobTypeOK, Locals
  <2>3. ASSUME stored \in Open PROVE seen.lookup = "FOUND" \/ seen.status = "UNKNOWN"
    BY <2>1, <2>3 DEF MarkerBlocks, LookUp, Found, Missing, Open
  <2>4. ASSUME Covered(a) PROVE Covered(a)'
    BY <2>1, <2>2, <2>3, <2>4 DEF Covered, BeforePost, InSubmit
  <2> QED
    BY <2>1, <2>2, <2>4, OwnerMustKnow DEF Ready
<1>5. CASE NoteListed(a)
  <2>1. PICK label \in {"enter", "next"} :
          /\ owns[Run(a)] /\ UNCHANGED <<owns, started>> /\ pc[a] = "note"
          /\ intent' = [intent EXCEPT ![handled[a]] = ProjectedStatus(@, local[a].seen)]
          /\ Goto(a, label) /\ local[a].seen.status # "UNKNOWN"
    BY <1>5 DEF NoteListed, MemUnchanged, memVars, Record
  <2>2. pc'[a] = label /\ handled' = handled /\ local' = local /\ handled[a] \in Intents
    BY <2>1 DEF Goto, JobTypeOK, AboutAnIntent
  <2>3. CASE intent[handled[a]] \in Open => local[a].seen.lookup = "FOUND"
    <3>1. Real(handled[a], local[a].seen) /\ Modest("note", local[a].seen)
      BY <2>1 DEF ProjectionInv, ObservationsAreReal, ObservationsAreModest, Observing
    <3>2. ProjectedStatus(intent[handled[a]], local[a].seen) \in Rows \ Open
      BY <2>2, <2>3, <3>1, RecordCloses DEF Real, Modest, BrokerOrderState, WorldTypeOK, ProjectedStatus, Rows
    <3> QED
      BY <2>1, <2>2, <3>2, ClosedGoesOn DEF BeforePost
  <2>4. CASE ~(intent[handled[a]] \in Open => local[a].seen.lookup = "FOUND")
    BY <2>1, <2>2, <2>4, OwnerMustKnow DEF Covered, Ready, BeforePost
  <2> QED
    BY <2>3, <2>4
<1>6. CASE LoopEnds(a)
  <2>1. /\ UNCHANGED <<owns, started, intent>> /\ Goto(a, "confirm") /\ pc[a] = "next"
        /\ \A i \in Intents : local[a].listed[i] = "NONE"
    BY <1>0, <1>6 DEF LoopEnds, WorldUnchanged, MemUnchanged, memVars
  <2>2. pc'[a] = "confirm" /\ handled' = handled /\ local' = local
    BY <2>1 DEF Goto, JobTypeOK
  <2> QED
    BY <2>1, <2>2, OwnerMustKnow DEF Covered, BeforePost, InSubmit, Ready, Open
<1>7. CASE Confirm(a)
  <2>1. /\ UNCHANGED <<owns, started, intent>> /\ Goto(a, "save") /\ pc[a] = "confirm" /\ owns[Run(a)]
    BY <1>7 DEF Confirm, WorldUnchanged
  <2>2. pc'[a] = "save"
    BY <2>1 DEF Goto, JobTypeOK
  <2> QED
    BY <1>0, <2>1, <2>2 DEF StartupOf, Covered, BeforePost, InSubmit, Ready, StartingStep, Named, GrantsNone
<1>8. CASE SaveReady(a) \/ RowReady(a)
  <2>1. PICK label \in {"ready", "connect"} : Goto(a, label)
    BY <1>0, <1>8 DEF SaveReady, PersistThen, RowReady
  <2>2. pc'[a] = label /\ handled' = handled /\ local' = local
    BY <2>1 DEF Goto, JobTypeOK
  <2>3. UNCHANGED <<owns, started, intent>> /\ pc[a] \in Ready
    BY <1>8 DEF SaveReady, PersistThen, RowReady, WorldUnchanged, MemUnchanged, memVars, Ready
  <2> QED
    BY <1>0, <2>2, <2>3, SameToKnow DEF StartingStep, Ready
<1>9. CASE Connect(a)
  BY <1>9 DEF Connect
<1> QED
  BY <1>2, <1>3, <1>4, <1>5, <1>6, <1>7, <1>8, <1>9 DEF ReconcileLoopLater

(* A halt that dispatch() awaited gives the lease back before it returns;   *)
(* decisions and trade updates come when the streams are connected.         *)
LEMMA OtherHandlersOfAStart ==
  ASSUME DispatchTypeOK, NEW a \in Activities, StartingStep(a), OtherHandler(a)
  PROVE  StartupOf(a)'
<1> USE TypesOfAHandler DEF DispatchTypeOK
<1>1. CASE Throw(a) \/ LoseAndThrow(a) \/ Done(a)
  BY <1>1, LeavingNeedsNothing
<1>2. CASE Goto(a, "haltSave") \/ Goto(a, "haltRelease")
  <2>1. pc'[a] \in {"haltSave", "haltRelease"}
    BY <1>2 DEF Goto, JobTypeOK
  <2> QED
    BY <2>1, NothingToKnow DEF BeforePost, InSubmit, Ready
<1>3. CASE HaltRelease(a) /\ DispatchReturns(a)
  <2>1. ~owns'[Run(a)] /\ pc'[a] \in {"persist", "next"}
    BY <1>3, DispatchReturnsMoves, ActivityParts DEF HaltRelease, Moves, MemTypeOK
  <2> QED
    BY <2>1, NothingToKnow DEF Ready
<1> QED
  BY <1>1, <1>2, <1>3
  DEF OtherHandler, Decide, TradeUpdate, Persist, PersistThen, HaltRow, HaltSave, HaltRelease, ReadFails, StartingStep

(* Every step keeps what a starting run knows. *)
LEMMA StepKeepsStartup ==
  ASSUME DispatchTypeOK, StartsAlone, ProjectionInv, StartupInv, [Next]_vars
  PROVE  StartupInv'
<1> USE ActivityParts, TypesOfAHandler DEF DispatchTypeOK
<1> SUFFICES ASSUME NEW b \in Activities PROVE StartupOf(b)'
  BY DEF StartupInv
<1>0. StartupOf(b) /\ (handled[b] \in Intents \/ pc[b] \notin AboutAnIntent)
  BY DEF StartupInv
<1>1. ASSUME NEW a \in Activities, TakeLease(a) PROVE StartupOf(b)'
  <2>1. Others(a) /\ pc[a] = "acquire" /\ pc'[a] = "row" /\ UNCHANGED started /\ owner' = Run(a)
    BY <1>1, GotoMoves DEF TakeLease, Moves, Acquire
  <2>2. CASE Run(b) # Run(a)
    BY <2>1, <2>2 DEF StartupOf, Named
  <2>3. CASE Run(b) = Run(a)
    <3>1. pc'[b] \in {"idle", "row"}
      BY <2>1, <2>3 DEF StartsAlone, Others
    <3> QED
      BY <3>1, NothingToKnow DEF BeforePost, InSubmit, Ready
  <2> QED
    BY <2>2, <2>3
<1> SUFFICES ASSUME ~\E a \in Activities : TakeLease(a) PROVE StartupOf(b)'
  BY <1>1
<1>2. GrantsNone
  BY OnlyTakeLeaseGrants
<1>3. ASSUME started'[Run(b)] \/ pc'[b] = "idle" \/ ~Named(Run(b)) PROVE StartupOf(b)'
  BY <1>2, <1>3 DEF StartupOf, Covered, BeforePost, InSubmit, Ready, Named, GrantsNone
<1>4. ASSUME NEW a \in Activities, Dispatch(a) \/ ReconcileLoopLater(a) \/ OtherHandler(a)
      PROVE  StartupOf(b)'
  <2>1. Others(a) /\ MemShrinks /\ (pc[a] # "idle" \/ started[Run(a)])
    BY <1>4, DispatchMovesOne, ReconcilingMovesOne, OtherHandlersMoveOne
  <2>2. CASE b = a /\ ~started[Run(a)]
    <3>1. StartingStep(a)
      BY <1>0, <1>2, <2>1, <2>2 DEF StartingStep
    <3>2. CASE Dispatch(a)
      BY <2>2, <3>1, <3>2, BeforeTheClaim, FromTheClaim DEF Dispatch
    <3>3. CASE ReconcileLoopLater(a)
      BY <2>2, <3>1, <3>3, LoopOfAStart
    <3>4. CASE OtherHandler(a)
      BY <2>2, <3>1, <3>4, OtherHandlersOfAStart
    <3> QED
      BY <1>4, <3>2, <3>3, <3>4
  <2>3. CASE b # a /\ ~started[Run(b)] /\ pc[b] # "idle" /\ Named(Run(b))
    <3>1. ~Holds(Run(a))
      BY <2>1, <2>3 DEF StartsAlone, Named, Holds
    <3>2. OpensNone
      BY <1>4, <3>1, OnlyTheHolderOpens DEF ReconcileLoop, ReconcileLoopLater
    <3> QED
      BY <1>0, <1>2, <2>1, <2>3, <3>2, OthersKeepStartup DEF Others, MemShrinks
  <2>4. CASE started[Run(b)] \/ (b # a /\ pc[b] = "idle") \/ ~Named(Run(b))
    BY <1>3, <2>1, <2>4 DEF Others, MemShrinks
  <2> QED
    BY <2>2, <2>3, <2>4
<1>5. ASSUME NEW a \in Activities, Start(a) \/ Connect(a) PROVE StartupOf(b)'
  <2>1. Others(a) /\ UNCHANGED intent
    BY <1>5, ThrowMoves, DoneMoves, GotoMoves DEF Start, Connect, Moves, WorldUnchanged
  <2>2. (owns'[Run(b)] => owns[Run(b)]) /\ (~started'[Run(b)] => ~started[Run(b)])
    BY <1>5 DEF Start, Connect, Throw, Halt, LoseAndThrow, LoseOwnership, MemUnchanged, memVars, MemTypeOK
  <2>3. CASE b # a
    BY <1>0, <1>2, <2>1, <2>2, <2>3, OthersKeepStartup DEF Others, OpensNone
  <2>4. CASE b = a /\ Start(a)
    <3>1. pc'[a] = "acquire"
      BY <2>4, GotoMoves DEF Start, Moves
    <3> QED
      BY <2>4, <3>1, NothingToKnow DEF BeforePost, InSubmit, Ready
  <2>5. CASE b = a /\ Connect(a)
    <3>1. pc[a] # "idle"
      BY <2>5 DEF Connect
    <3> QED
      BY <1>0, <1>2, <1>3, <2>2, <2>5, <3>1, LoopOfAStart DEF StartingStep, MemTypeOK
  <2> QED
    BY <1>5, <2>3, <2>4, <2>5
<1>6. ASSUME NEW r \in Runs, RenewTimer(r) \/ Crash(r) PROVE StartupOf(b)'
  <2>1. /\ pc'[b] = "idle" \/ (pc'[b] = pc[b] /\ handled'[b] = handled[b] /\ local'[b] = local[b])
        /\ UNCHANGED intent
        /\ owns'[Run(b)] => owns[Run(b)]
        /\ pc'[b] # "idle" => started'[Run(b)] = started[Run(b)]
    BY <1>6 DEF RenewTimer, Crash, LoseOwnership, jobVars, WorldUnchanged, MemUnchanged, memVars, MemTypeOK, JobTypeOK
  <2> QED
    BY <1>0, <1>2, <2>1, OthersKeepStartup DEF OpensNone
<1>7. CASE Outside
  <2>1. UNCHANGED <<intent, pc, handled, local, owns, started>>
    BY <1>7 DEF Outside, Arrive, LoseRequest, SettleOrder, TimePasses, vars, memVars, jobVars
  <2> QED
    BY <1>0, <1>2, <2>1, OthersKeepStartup DEF OpensNone
<1> QED
  BY <1>4, <1>5, <1>6, <1>7, KindsOfSteps

(* A run that starts and is still the owner has listed what is open, and    *)
(* goes on to READY with nothing open.                                      *)
THEOREM StartupInvariance == Spec => []StartupInv
<1>1. Init => StartupInv
  BY DEF Init, StartupInv, StartupOf, Covered, BeforePost, InSubmit, Ready
<1>2. TypeOK /\ StartsAlone /\ ProjectionInv /\ StartupInv /\ [Next]_vars => StartupInv'
  BY StepKeepsStartup DEF TypeOK, DispatchTypeOK
<1> QED
  BY <1>1, <1>2, TypeCorrectness, ProcessesStartAlone, ProjectionInvariance, PTL DEF Spec

(* start() connects its streams, with the lease its own, only when every    *)
(* submission of the past was found at the broker or has ended.             *)
THEOREM StartupIsCertain == Spec => []StartupResolvesUncertainty
<1>1. StartupInv => StartupResolvesUncertainty
  BY DEF StartupInv, StartupOf, StartupResolvesUncertainty, Ready, Open, Named, Holds
<1> QED
  BY <1>1, StartupInvariance, PTL
=================================================================================
