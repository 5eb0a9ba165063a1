------------------------------- MODULE WorkerLease -------------------------------
(***************************************************************************)
(* The durable ownership of one worker key: the worker_leases row, the     *)
(* worker_runs rows and the fenced runtime_checkpoint row, as the SQL      *)
(* store changes them (alpaca-worker-store.server.ts).  Every statement or *)
(* transaction of the store is one action.  Worker keys do not share rows, *)
(* so one key is the general case.                                         *)
(*                                                                         *)
(* A run calls acquireOwnership at most once (every start() draws a new    *)
(* run id), so the token it was granted is also its credential for the     *)
(* rest of its life: what it passes to each fenced statement is            *)
(* runToken[r], whether or not it is still the newest.                     *)
(***************************************************************************)
EXTENDS Naturals

CONSTANTS
  Runs,       \* run ids, each the life of one worker process between start() and stop()
  NoRun,      \* "no such row": not a run
  LeaseTicks  \* the lease length, OWNERSHIP_LEASE_SECONDS, in renewal intervals

ASSUME NoRunAssumption == NoRun \notin Runs
ASSUME LeaseTicksAssumption == LeaseTicks \in Nat \ {0}

VARIABLES
  owner,      \* worker_leases.owner_run_id
  token,      \* worker_leases.fencing_token, 0 before the row exists
  ttl,        \* time until worker_leases.lease_expires_at, 0 once it has passed
  locker,     \* the run whose open transaction holds the lease row FOR UPDATE
  lockTtl,    \* the expiry that transaction wrote and will make visible at commit
  runState,   \* worker_runs.state, "NONE" before the row exists
  runToken,   \* worker_runs.fencing_token = the WorkerLease the process was given, 0 for null
  checkpoint  \* the token under which runtime_checkpoint was last written, 0 if it never was

leaseVars == <<owner, token, ttl, locker, lockTtl>>
storeVars == <<owner, token, ttl, locker, lockTtl, runState, runToken, checkpoint>>

Active == {"STARTING", "RECONCILING", "READY"}
Terminal == {"STOPPED", "HALTED", "SUPERSEDED"}
RunStates == {"NONE"} \cup Active \cup Terminal

LeaseInit ==
  /\ owner = NoRun
  /\ token = 0
  /\ ttl = 0
  /\ locker = NoRun
  /\ lockTtl = 0
  /\ runState = [r \in Runs |-> "NONE"]
  /\ runToken = [r \in Runs |-> 0]
  /\ checkpoint = 0

----------------------------------------------------------------------------
(* Guards and updates the statements share.  Each is followed by the broken *)
(* form that the mutation runs put in its place.                            *)

CredentialIgnored(r) == ttl > 0
\* "owner_run_id = $2 and fencing_token = $3 and lease_expires_at > clock_timestamp()":
\* what the row says of the credential of r, as any reader outside the lock sees it.
Holds(r) == owner = r /\ token = runToken[r] /\ ttl > 0

RowLockIgnored == TRUE
\* A statement that updates or locks the lease row waits for the transaction that holds it.
RowUnlocked == locker = NoRun

SameToken == IF token = 0 THEN 1 ELSE token
NextToken == token + 1

PredecessorsKept(r) == runState
\* The rows after r took the lease: every other run of the key that had not ended is superseded.
Superseding(r) ==
  [s \in Runs |-> IF s # r /\ runState[s] \in Active THEN "SUPERSEDED" ELSE runState[s]]

AnyRow(r, s) == s # "SUPERSEDED"
\* The where clause of updateRun: a run that ended stays as it ended.
MayUpdateRun(r, s) == s # "SUPERSEDED" /\ runState[r] \in Active \cup {s}

----------------------------------------------------------------------------
(* createRun *)
CreateRun(r) ==
  /\ runState[r] = "NONE"
  /\ runState' = [runState EXCEPT ![r] = "STARTING"]
  /\ UNCHANGED <<leaseVars, runToken, checkpoint>>

(* acquireOwnership that returns a lease: the upsert of the lease row, the  *)
(* token copied to the run and the predecessors superseded, in one          *)
(* transaction.  It does not look at the state of r itself.                 *)
Acquire(r) ==
  /\ runState[r] # "NONE" /\ runToken[r] = 0
  /\ ttl = 0
  /\ RowUnlocked
  /\ owner' = r
  /\ token' = NextToken
  /\ ttl' = LeaseTicks
  /\ runToken' = [runToken EXCEPT ![r] = NextToken]
  /\ runState' = Superseding(r)
  /\ UNCHANGED <<locker, lockTtl, checkpoint>>

(* renewOwnership that returns a lease *)
Renew(r) ==
  /\ Holds(r)
  /\ RowUnlocked
  /\ ttl' = LeaseTicks
  /\ UNCHANGED <<owner, token, locker, lockTtl, runState, runToken, checkpoint>>

(* releaseOwnership: expires exactly the lease of r, even if it already has *)
Release(r) ==
  /\ owner = r /\ token = runToken[r]
  /\ RowUnlocked
  /\ ttl' = 0
  /\ UNCHANGED <<owner, token, locker, lockTtl, runState, runToken, checkpoint>>

(* updateRun that changes its row; otherwise it throws and changes nothing  *)
UpdateRun(r, s) ==
  /\ runState[r] # "NONE"
  /\ MayUpdateRun(r, s)
  /\ runState' = [runState EXCEPT ![r] = s]
  /\ UNCHANGED <<leaseVars, runToken, checkpoint>>

(* writeCheckpointOwned that returns true *)
WriteCheckpointOwned(r) ==
  /\ Holds(r)
  /\ checkpoint' = runToken[r]
  /\ UNCHANGED <<leaseVars, runState, runToken>>

(* withDispatchAuthority up to the call of submit(): the row is locked and  *)
(* extended inside the transaction                                          *)
LockForSubmit(r) ==
  /\ Holds(r)
  /\ RowUnlocked
  /\ locker' = r
  /\ lockTtl' = LeaseTicks
  /\ UNCHANGED <<owner, token, ttl, runState, runToken, checkpoint>>

(* submit() returned: the extension becomes visible and waiters go on       *)
CommitSubmit(r) ==
  /\ locker = r
  /\ ttl' = lockTtl
  /\ locker' = NoRun
  /\ lockTtl' = 0
  /\ UNCHANGED <<owner, token, runState, runToken, checkpoint>>

(* submit() threw, or the process died with the transaction open            *)
RollbackSubmit(r) ==
  /\ locker = r
  /\ locker' = NoRun
  /\ lockTtl' = 0
  /\ UNCHANGED <<owner, token, ttl, runState, runToken, checkpoint>>

(* The database clock reaches the next renewal interval.  It does not wait  *)
(* for a transaction: lookup and POST may take 25 seconds each, longer      *)
(* together than the lease.                                                 *)
Tick ==
  /\ ttl > 0 \/ lockTtl > 0
  /\ ttl' = IF ttl > 0 THEN ttl - 1 ELSE 0
  /\ lockTtl' = IF lockTtl > 0 THEN lockTtl - 1 ELSE 0
  /\ UNCHANGED <<owner, token, locker, runState, runToken, checkpoint>>

LeaseNext ==
  \/ \E r \in Runs : CreateRun(r)
  \/ \E r \in Runs : Acquire(r)
  \/ \E r \in Runs : Renew(r)
  \/ \E r \in Runs : Release(r)
  \/ \E r \in Runs, s \in RunStates \ {"NONE"} : UpdateRun(r, s)
  \/ \E r \in Runs : WriteCheckpointOwned(r)
  \/ \E r \in Runs : LockForSubmit(r)
  \/ \E r \in Runs : CommitSubmit(r)
  \/ \E r \in Runs : RollbackSubmit(r)
  \/ Tick

LeaseSpec == LeaseInit /\ [][LeaseNext]_storeVars

----------------------------------------------------------------------------
(* Type invariant *)
LeaseTypeOK ==
  /\ owner \in Runs \cup {NoRun}
  /\ token \in Nat
  /\ ttl \in 0..LeaseTicks
  /\ locker \in Runs \cup {NoRun}
  /\ lockTtl \in 0..LeaseTicks
  /\ runState \in [Runs -> RunStates]
  /\ runToken \in [Runs -> Nat]
  /\ checkpoint \in Nat

(* A fencing token identifies one run: no two runs were ever granted the    *)
(* same one, so a statement fenced by a token cannot succeed for two        *)
(* processes (acquireOwnership's fencing_token + 1).                        *)
TokensIdentifyRuns ==
  \A r, s \in Runs : runToken[r] = runToken[s] /\ runToken[r] > 0 => r = s

(* A run that was granted the lease and has not ended is the newest owner:  *)
(* once a successor took over, no row of an earlier run says STARTING,      *)
(* RECONCILING or READY again, whatever that run's callbacks still write    *)
(* (the supersede in acquireOwnership with the where clause of updateRun).  *)
LiveRunOwnsLease ==
  \A r \in Runs : runState[r] \in Active /\ runToken[r] > 0 => owner = r

(* While a run is inside withDispatchAuthority the lease is its own, even   *)
(* after its expiry has passed: takeover waits for the bounded POST.        *)
SubmitPinsOwner ==
  locker # NoRun => owner = locker /\ token = runToken[locker]

(* The checkpoint row is never overwritten by a fenced-out run: the token   *)
(* it is written under does not go back (writeCheckpointOwned).             *)
CheckpointNeverRegresses == [][checkpoint' >= checkpoint]_storeVars

(* The newest token is held by the run the row names, older runs hold       *)
(* smaller ones, and nothing was written under a token never granted: the   *)
(* strengthening the properties above are proved from.                      *)
LeaseHistory ==
  /\ \A r \in Runs : runToken[r] <= token
  /\ \A r \in Runs : owner = r => runToken[r] = token /\ token > 0
  /\ \A r \in Runs : runToken[r] = token /\ token > 0 => owner = r
  /\ owner = NoRun => token = 0 /\ ttl = 0
  /\ checkpoint <= token
  /\ \A r \in Runs : runState[r] = "NONE" => runToken[r] = 0

LeaseInv ==
  /\ LeaseTypeOK
  /\ LeaseHistory
  /\ TokensIdentifyRuns
  /\ LiveRunOwnsLease
  /\ SubmitPinsOwner
=============================================================================
