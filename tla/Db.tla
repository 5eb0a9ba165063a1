--------------------------------- MODULE Db ---------------------------------
(***************************************************************************)
(* The bootstrap of the database (db.ts): the memoized promises of getSql() *)
(* and of the PGLite instance, the chain of migration passes, and the       *)
(* deploy-time migrator (migrate.mjs) on Neon, with the plan they share     *)
(* (migration-plan.mjs).                                                   *)
(*                                                                         *)
(* A module instance is one load of db.ts (HMR makes more of them) or one   *)
(* run of the migrator; on Neon nothing orders two runs.                   *)
(***************************************************************************)
EXTENDS Naturals, FiniteSets

CONSTANTS
  Instances,  \* loads of db.ts, or runs of the migrator
  Files,      \* instance -> the migration files it sees, as numbers in apply order
  MaxFaults   \* bound: statements, imports and connections that fail

VARIABLES
  backend,   \* "pglite" or "neon"
  engine,    \* __pgliteInstance__: "unset", "opening" or "open"; on Neon the database is there
  memo,      \* instance -> sqlPromise: "unset", "pending" or "ready"
  pass,      \* instance -> its migration pass
  chain,     \* __pgliteMigrateChain__: the instance whose pass is last in it, or "none"
  applied,   \* the rows of _migrations
  effects,   \* file -> how often its statements took effect
  faults

vars == <<backend, engine, memo, pass, chain, applied, effects, faults>>

NoPass == [at |-> "idle", after |-> "none", todo |-> {}]

Init ==
  /\ backend \in {"pglite", "neon"}
  /\ engine = IF backend = "neon" THEN "open" ELSE "unset"
  /\ memo = [m \in Instances |-> "unset"]
  /\ pass = [m \in Instances |-> NoPass]
  /\ chain = "none"
  /\ applied = {} /\ effects = [f \in UNION {Files[m] : m \in Instances} |-> 0]
  /\ faults = 0

Fault == faults < MaxFaults /\ faults' = faults + 1
Becomes(m, p) == pass' = [pass EXCEPT ![m] = p]
\* The promise of m's pass settles, for those chained after it too.
Settle(m, p) ==
  /\ pass' = [x \in Instances |->
       IF x = m THEN p ELSE [pass[x] EXCEPT !.after = IF @ = m THEN "none" ELSE @]]
  /\ chain' = IF chain = m THEN "none" ELSE chain

----------------------------------------------------------------------------
\* pendingMigrations(), in the order of the names.
Pending(m, done) == Files[m] \ done
FirstOf(S) == {f \in S : \A g \in S : f <= g}

\* getSql(), and the eager start of the module: the first call makes the promise, the others share it.
\* The migrator of a deploy starts the same way, each in a process of its own.
GetSql(m) ==
  /\ memo[m] = "unset"
  /\ memo' = [memo EXCEPT ![m] = "pending"]
  /\ engine' = IF engine = "unset" THEN "opening" ELSE engine
  /\ Becomes(m, [NoPass EXCEPT !.at = "engine"])
  /\ UNCHANGED <<backend, chain, applied, effects, faults>>

\* The instance is open and has its _migrations table.
Opened == engine = "opening" /\ engine' = "open" /\ UNCHANGED <<backend, memo, pass, chain, applied, effects, faults>>

\* Mutant: a failed start stays memoized.
KeptRejection == "failed"
\* The catch of getSql() and of the instance: the slot is cleared for the next call.
Cleared == "unset"

\* Everybody who waits for the instance fails with it.
OpenFails ==
  /\ engine = "opening" /\ Fault
  /\ engine' = "unset"
  /\ LET waiting == {m \in Instances : pass[m].at = "engine"}
     IN /\ memo' = [m \in Instances |-> IF m \in waiting THEN Cleared ELSE memo[m]]
        /\ pass' = [m \in Instances |-> IF m \in waiting THEN NoPass ELSE pass[m]]
  /\ UNCHANGED <<backend, chain, applied, effects>>

\* Mutant: a pass starts as soon as the instance is open.
Unchained(m) == "none"
Predecessor(m) == IF backend = "pglite" THEN chain ELSE "none"
\* The pass joins the chain, whose earlier passes may have failed.
Join(m) ==
  /\ pass[m].at = "engine" /\ engine = "open"
  /\ Becomes(m, [NoPass EXCEPT !.at = "chained", !.after = Predecessor(m)])
  /\ chain' = IF backend = "pglite" THEN m ELSE chain
  /\ UNCHANGED <<backend, engine, memo, applied, effects, faults>>

\* Its turn: the names that are recorded are read once.
Plan(m) ==
  /\ pass[m].at = "chained" /\ pass[m].after = "none"
  /\ Becomes(m, [pass[m] EXCEPT !.at = "apply", !.todo = Pending(m, applied)])
  /\ UNCHANGED <<backend, engine, memo, chain, applied, effects, faults>>

\* One file, its statements and its row in one transaction; the row's key is unique.
Apply(m) ==
  /\ pass[m].at = "apply"
  /\ \E f \in FirstOf(pass[m].todo) :
       /\ f \notin applied
       /\ applied' = applied \cup {f}
       /\ effects' = [effects EXCEPT ![f] = @ + 1]
       /\ Becomes(m, [pass[m] EXCEPT !.todo = @ \ {f}])
  /\ UNCHANGED <<backend, engine, memo, chain, faults>>

\* Mutant: file and row are not one transaction.
HalfApplied(f) == effects[f] + 1
\* What is left of a file whose transaction failed.
RolledBack(f) == effects[f]

\* A statement failed, or the row was there already: rolled back, and the pass and its promise reject.
ApplyFails(m) ==
  /\ pass[m].at = "apply" /\ pass[m].todo # {}
  /\ IF FirstOf(pass[m].todo) \subseteq applied THEN UNCHANGED faults ELSE Fault
  /\ effects' = [f \in DOMAIN effects |-> IF f \in FirstOf(pass[m].todo) THEN RolledBack(f) ELSE effects[f]]
  /\ Settle(m, NoPass)
  /\ memo' = [memo EXCEPT ![m] = Cleared]
  /\ UNCHANGED <<backend, engine, applied>>

PassEnds(m) ==
  /\ pass[m].at = "apply" /\ pass[m].todo = {}
  /\ Settle(m, [pass[m] EXCEPT !.at = "done"])
  /\ memo' = [memo EXCEPT ![m] = "ready"]
  /\ UNCHANGED <<backend, engine, applied, effects, faults>>

Steps(m) == Join(m) \/ Plan(m) \/ Apply(m) \/ ApplyFails(m) \/ PassEnds(m)
Next == Opened \/ OpenFails \/ \E m \in Instances : GetSql(m) \/ Steps(m)

\* Promises settle, and a request comes for every module instance sooner or later.
Fairness == WF_vars(Opened \/ OpenFails) /\ \A m \in Instances : WF_vars(Steps(m)) /\ WF_vars(GetSql(m))
Spec == Init /\ [][Next]_vars
FairSpec == Spec /\ Fairness

----------------------------------------------------------------------------
\* No pass fails because of another one: on PGLite every failure is a fault of its own.
NoCollision ==
  backend = "pglite" =>
    \A m \in Instances : pass[m].at = "apply" => pass[m].todo \cap applied = {}

\* Whatever fails or runs at the same time, an instance that is ready has had each of its
\* migrations take effect exactly once.
EachOnce ==
  \A m \in Instances :
    memo[m] = "ready" => \A f \in Files[m] : f \in applied /\ effects[f] = 1

\* Once nothing fails any more every instance gets its database: no failure is memoized or wedges the chain.
Boots == \A m \in Instances : <>[](memo[m] = "ready")

----------------------------------------------------------------------------
(* The inductive invariant of the two safety properties.                    *)

AllFiles == UNION {Files[m] : m \in Instances}
Passes ==
  [at : {"idle", "engine", "chained", "apply", "done"}, after : Instances \cup {"none"}, todo : SUBSET AllFiles]
TypeOK ==
  /\ backend \in {"pglite", "neon"}
  /\ memo \in [Instances -> {"unset", "pending", "ready"}]
  /\ pass \in [Instances -> Passes]
  /\ chain \in Instances \cup {"none"}
  /\ applied \subseteq AllFiles
  /\ effects \in [AllFiles -> Nat]

\* A start that is not memoized has no pass under way, one that is under way is memoized.
OneStart ==
  \A m \in Instances :
    /\ memo[m] = "unset" => pass[m].at = "idle"
    /\ pass[m].at \in {"engine", "chained", "apply"} => memo[m] = "pending"

\* The rows of _migrations say what took effect, and of a pass what it has done.
RowsTell ==
  /\ \A f \in AllFiles : effects[f] = IF f \in applied THEN 1 ELSE 0
  /\ \A m \in Instances :
       /\ pass[m].at = "apply" => Files[m] \ pass[m].todo \subseteq applied
       /\ memo[m] = "ready" => Files[m] \subseteq applied

\* The passes that wait in __pgliteMigrateChain__ or have their turn are in an order, whose last is the chain's and
\* in which each follows the one it waits for; the first waits for none.
InChain == {m \in Instances : pass[m].at \in {"chained", "apply"}}
Linear(order) == \A x, y \in InChain : x # y => (<<x, y>> \in order <=> <<y, x>> \notin order)
EndsAtChain(order) ==
  IF chain = "none" THEN InChain = {} ELSE chain \in InChain /\ \A x \in InChain \ {chain} : <<x, chain>> \in order
Follows(order, m) ==
  LET p == pass[m].after
  IN IF p = "none" THEN \A x \in InChain \ {m} : <<m, x>> \in order
     ELSE p \in InChain \ {m} /\ <<p, m>> \in order /\ \A x \in InChain \ {m, p} : <<x, m>> \in order => <<x, p>> \in order
Ordered(order) == Linear(order) /\ EndsAtChain(order) /\ \A m \in InChain : Follows(order, m)
ChainIsOrdered ==
  /\ \A m \in Instances : pass[m].at = "apply" => pass[m].after = "none"
  /\ backend = "pglite" => \E order \in SUBSET (Instances \X Instances) : Ordered(order)

MigrationsInv == TypeOK /\ OneStart /\ RowsTell /\ ChainIsOrdered /\ NoCollision
=============================================================================
