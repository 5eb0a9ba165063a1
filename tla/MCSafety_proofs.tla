-------------------------- MODULE MCSafety_proofs --------------------------
(***************************************************************************)
(* Proofs about the web application: the migrations of its database, who is *)
(* signed in and as whom, and what lives in a page; and about the research  *)
(* on what the stock worker traded: parity, the comparison of strategies    *)
(* and round trips.  Each part is an instance whose variables are s1, s2,   *)
(* ... of MCSafety; the invariants are at the end of the parts' modules.    *)
(***************************************************************************)
EXTENDS MCSafety, FiniteSetTheorems, SequenceTheorems, WellFoundedInduction, TLAPS

----------------------------------------------------------------------------
(* The migrations.  Of Db, s1 is backend, s2 engine, s3 memo, s4 pass, s5   *)
(* chain, s6 applied, s7 effects and s8 faults.                             *)

(* The order of the chain holds as long as nobody joins it or leaves it. *)
LEMMA ChainKeeps ==
  ASSUME Boot!ChainIsOrdered, s1' = s1, s5' = s5, Boot!InChain' = Boot!InChain,
         \A m \in Boot!InChain : s4'[m].after = s4[m].after,
         \A m \in Instances : s4'[m].at = "apply" => s4'[m].after = "none"
  PROVE  Boot!ChainIsOrdered'
<1>1. ASSUME s1 = "pglite" PROVE (\E order \in SUBSET (Instances \X Instances) : Boot!Ordered(order))'
  <2>1. PICK order \in SUBSET (Instances \X Instances) : Boot!Ordered(order)
    BY <1>1 DEF Boot!ChainIsOrdered
  <2>2. Boot!Ordered(order)'
    BY <2>1 DEF Boot!Ordered, Boot!Linear, Boot!EndsAtChain, Boot!Follows
  <2> QED
    BY <2>2
<1> QED
  BY <1>1 DEF Boot!ChainIsOrdered

(* Who joins is the last. *)
LEMMA ChainGrows ==
  ASSUME Boot!TypeOK, Boot!ChainIsOrdered, NEW m \in Instances, Boot!Join(m)
  PROVE  Boot!ChainIsOrdered'
<1>1. /\ s1' = s1 /\ m \notin Boot!InChain /\ s4'[m].at = "chained" /\ s4'[m].after = Boot!Predecessor(m)
      /\ \A x \in Instances \ {m} : s4'[x] = s4[x]
  BY DEF Boot!Join, Boot!Becomes, Boot!TypeOK, Boot!InChain, Boot!NoPass
<1>2. Boot!InChain' = Boot!InChain \cup {m}
  BY <1>1 DEF Boot!InChain
<1>3. ASSUME s1 = "pglite" PROVE (\E order \in SUBSET (Instances \X Instances) : Boot!Ordered(order))'
  <2>1. PICK order \in SUBSET (Instances \X Instances) : Boot!Ordered(order)
    BY <1>3 DEF Boot!ChainIsOrdered
  <2>2. PICK after \in SUBSET (Instances \X Instances) :
          \A x, y \in Instances :
            <<x, y>> \in after <=> IF y = m THEN x \in Boot!InChain ELSE x # m /\ <<x, y>> \in order
    <3> DEFINE q == {p \in Instances \X Instances : IF p[2] = m THEN p[1] \in Boot!InChain ELSE p[1] # m /\ p \in order}
    <3>1. \A x, y \in Instances : <<x, y>> \in q <=> IF y = m THEN x \in Boot!InChain ELSE x # m /\ <<x, y>> \in order
      OBVIOUS
    <3> QED
      BY <3>1
  <2>3. \A x, y \in Boot!InChain : <<x, y>> \in after <=> <<x, y>> \in order
    BY <1>1, <2>2 DEF Boot!InChain
  <2>4. \A x \in Boot!InChain : <<x, m>> \in after /\ <<m, x>> \notin after
    BY <1>1, <2>2 DEF Boot!InChain
  <2>5. s4'[m].after = s5 /\ s5' = m
    BY <1>1, <1>3 DEF Boot!Predecessor, Boot!Join
  <2>6. \A x \in Boot!InChain : s4'[x].after = s4[x].after /\ s4[x].after # m
    BY <1>1, <2>1, InstanceNames DEF Boot!Ordered, Boot!Follows, Boot!InChain
  <2>7. Boot!InChain \subseteq Instances
    BY DEF Boot!InChain
  <2>8. Boot!Linear(after)'
    BY <1>2, <2>1, <2>3, <2>4 DEF Boot!Ordered, Boot!Linear
  <2>9. Boot!EndsAtChain(after)'
    BY <1>2, <2>4, <2>5, <2>7, InstanceNames DEF Boot!EndsAtChain
  <2>10. Boot!Follows(after, m)'
    BY <1>1, <1>2, <2>1, <2>3, <2>4, <2>5, <2>7 DEF Boot!Ordered, Boot!EndsAtChain, Boot!Follows
  <2>11. ASSUME NEW y \in Boot!InChain PROVE Boot!Follows(after, y)'
    BY <1>1, <1>2, <2>1, <2>3, <2>4, <2>6 DEF Boot!Ordered, Boot!Follows
  <2> QED
    BY <1>2, <2>8, <2>9, <2>10, <2>11 DEF Boot!Ordered
<1>4. \A x \in Instances : s4'[x].at = "apply" => s4'[x].after = "none"
  BY <1>1 DEF Boot!ChainIsOrdered
<1> QED
  BY <1>1, <1>3, <1>4 DEF Boot!ChainIsOrdered

(* Who settles was the first, and the next has its turn. *)
LEMMA ChainShrinks ==
  ASSUME Boot!TypeOK, Boot!ChainIsOrdered, NEW m \in Instances, s4[m].at = "apply", UNCHANGED s1,
         NEW p \in Boot!Passes, p.at \in {"idle", "done"}, Boot!Settle(m, p)
  PROVE  Boot!ChainIsOrdered'
<1>1. /\ s4'[m] = p
      /\ \A x \in Instances \ {m} :
           s4'[x].at = s4[x].at /\ s4'[x].after = IF s4[x].after = m THEN "none" ELSE s4[x].after
  BY DEF Boot!Settle, Boot!TypeOK, Boot!Passes
<1>2. Boot!InChain' = Boot!InChain \ {m} /\ m \in Boot!InChain /\ Boot!InChain \subseteq Instances
  BY <1>1 DEF Boot!InChain
<1>3. ASSUME s1 = "pglite" PROVE (\E order \in SUBSET (Instances \X Instances) : Boot!Ordered(order))'
  <2>1. PICK order \in SUBSET (Instances \X Instances) : Boot!Ordered(order)
    BY <1>3 DEF Boot!ChainIsOrdered
  <2>2. \A x \in Boot!InChain \ {m} : <<m, x>> \in order /\ <<x, m>> \notin order
    BY <1>2, <2>1 DEF Boot!Ordered, Boot!Linear, Boot!Follows, Boot!ChainIsOrdered
  <2>3. Boot!Linear(order)'
    BY <1>2, <2>1 DEF Boot!Ordered, Boot!Linear
  <2>4. s5' = IF s5 = m THEN "none" ELSE s5
    BY DEF Boot!Settle
  <2>5. Boot!EndsAtChain(order)'
    BY <1>2, <2>1, <2>2, <2>4, InstanceNames DEF Boot!Ordered, Boot!EndsAtChain
  <2>6. ASSUME NEW y \in Boot!InChain \ {m} PROVE Boot!Follows(order, y)'
    <3>1. CASE s4[y].after = m
      BY <1>1, <1>2, <2>1, <2>2, <3>1, InstanceNames DEF Boot!Ordered, Boot!Linear, Boot!Follows
    <3>2. CASE s4[y].after # m
      BY <1>1, <1>2, <2>1, <3>2 DEF Boot!Ordered, Boot!Follows
    <3> QED
      BY <3>1, <3>2
  <2> QED
    BY <1>2, <2>3, <2>5, <2>6 DEF Boot!Ordered
<1> QED
  BY <1>1, <1>3 DEF Boot!ChainIsOrdered

(* On PGLite one pass at a time is applied. *)
LEMMA OneApplies ==
  ASSUME Boot!ChainIsOrdered, s1 = "pglite", NEW x \in Instances, NEW y \in Instances, s4[x].at = "apply", s4[y].at = "apply"
  PROVE  x = y
<1>1. PICK order \in SUBSET (Instances \X Instances) : Boot!Ordered(order)
  BY DEF Boot!ChainIsOrdered
<1> QED
  BY <1>1 DEF Boot!ChainIsOrdered, Boot!Ordered, Boot!Linear, Boot!Follows, Boot!InChain

(* The files of an instance are files of all. *)
LEMMA FilesOfAll == ASSUME NEW m \in Instances PROVE Files[m] \subseteq Boot!AllFiles
  BY DEF Boot!AllFiles

(* At the start nothing has been applied, and nobody waits. *)
LEMMA BootStarts == Boot!Init => Boot!MigrationsInv
<1> SUFFICES ASSUME Boot!Init PROVE Boot!MigrationsInv
  OBVIOUS
<1>1. Boot!TypeOK
  BY DEF Boot!Init, Boot!TypeOK, Boot!Passes, Boot!NoPass, Boot!AllFiles
<1>2. Boot!OneStart /\ Boot!RowsTell /\ Boot!NoCollision
  BY DEF Boot!Init, Boot!OneStart, Boot!RowsTell, Boot!NoCollision, Boot!NoPass, Boot!AllFiles
<1>3. Boot!InChain = {}
  BY DEF Boot!Init, Boot!InChain, Boot!NoPass
<1>4. Boot!Ordered({})
  BY <1>3 DEF Boot!Init, Boot!Ordered, Boot!Linear, Boot!EndsAtChain
<1>5. Boot!ChainIsOrdered
  BY <1>4 DEF Boot!Init, Boot!ChainIsOrdered, Boot!NoPass
<1> QED
  BY <1>1, <1>2, <1>5 DEF Boot!MigrationsInv

(* Nobody in the chain starts anew, and who fails to get the instance is not in it. *)
LEMMA StartKeeps ==
  ASSUME Boot!MigrationsInv, (\E m \in Instances : Boot!GetSql(m)) \/ Boot!Opened \/ Boot!OpenFails
  PROVE  Boot!MigrationsInv'
<1>1. Boot!TypeOK'
  BY DEF Boot!MigrationsInv, Boot!TypeOK, Boot!Passes, Boot!GetSql, Boot!Opened, Boot!OpenFails, Boot!Becomes, Boot!NoPass,
         Boot!Cleared, Boot!AllFiles
<1>2. \A m \in Instances :
        s4'[m] = s4[m] \/ (s4[m].at \in {"idle", "engine"} /\ s4'[m].at \in {"idle", "engine"} /\ s4'[m].after = "none")
  BY DEF Boot!MigrationsInv, Boot!TypeOK, Boot!OneStart, Boot!GetSql, Boot!Opened, Boot!OpenFails, Boot!Becomes, Boot!NoPass
<1>3. UNCHANGED <<s1, s5, s6, s7>>
  BY DEF Boot!GetSql, Boot!Opened, Boot!OpenFails
<1>4. Boot!InChain' = Boot!InChain /\ Boot!InChain \subseteq Instances
  BY <1>2 DEF Boot!InChain
<1>5. Boot!ChainIsOrdered'
  <2>1. \A m \in Boot!InChain : s4'[m].after = s4[m].after
    BY <1>2, <1>4 DEF Boot!InChain
  <2>2. \A m \in Instances : s4'[m].at = "apply" => s4'[m].after = "none"
    BY <1>2 DEF Boot!MigrationsInv, Boot!ChainIsOrdered
  <2> QED
    BY <1>3, <1>4, <2>1, <2>2, ChainKeeps DEF Boot!MigrationsInv
<1>6. Boot!OneStart'
  BY DEF Boot!MigrationsInv, Boot!TypeOK, Boot!OneStart, Boot!GetSql, Boot!Opened, Boot!OpenFails, Boot!Becomes, Boot!NoPass,
         Boot!Cleared
<1>7. \A m \in Instances : s3'[m] = "ready" => s3[m] = "ready"
  BY DEF Boot!MigrationsInv, Boot!TypeOK, Boot!GetSql, Boot!Opened, Boot!OpenFails, Boot!Cleared
<1>8. Boot!RowsTell' /\ Boot!NoCollision'
  BY <1>2, <1>3, <1>7 DEF Boot!MigrationsInv, Boot!RowsTell, Boot!NoCollision, Boot!AllFiles
<1> QED
  BY <1>1, <1>5, <1>6, <1>8 DEF Boot!MigrationsInv

(* A pass that joins, or reads what is recorded. *)
LEMMA JoinKeeps ==
  ASSUME Boot!MigrationsInv, NEW m \in Instances, Boot!Join(m)
  PROVE  Boot!MigrationsInv'
<1>1. Boot!TypeOK'
  BY DEF Boot!MigrationsInv, Boot!TypeOK, Boot!Passes, Boot!Join, Boot!Becomes, Boot!NoPass, Boot!Predecessor, Boot!AllFiles
<1>2. Boot!ChainIsOrdered'
  BY ChainGrows DEF Boot!MigrationsInv
<1>3. Boot!OneStart' /\ Boot!RowsTell' /\ Boot!NoCollision'
  BY DEF Boot!MigrationsInv, Boot!TypeOK, Boot!OneStart, Boot!RowsTell, Boot!NoCollision, Boot!Join, Boot!Becomes, Boot!NoPass,
         Boot!AllFiles
<1> QED
  BY <1>1, <1>2, <1>3 DEF Boot!MigrationsInv

(* A pass that has its turn reads which migrations are left. *)
LEMMA PlanKeeps ==
  ASSUME Boot!MigrationsInv, NEW m \in Instances, Boot!Plan(m)
  PROVE  Boot!MigrationsInv'
<1>1. /\ s4'[m] = [s4[m] EXCEPT !.at = "apply", !.todo = Files[m] \ s6] /\ \A x \in Instances \ {m} : s4'[x] = s4[x]
      /\ s4' \in [Instances -> Boot!Passes] /\ s4[m].at = "chained" /\ s4[m].after = "none"
  BY FilesOfAll DEF Boot!MigrationsInv, Boot!TypeOK, Boot!Passes, Boot!Plan, Boot!Becomes, Boot!Pending
<1>2. /\ s4'[m].at = "apply" /\ s4'[m].after = s4[m].after /\ s4'[m].todo = Files[m] \ s6
  BY <1>1 DEF Boot!MigrationsInv, Boot!TypeOK, Boot!Passes
<1>3. UNCHANGED <<s1, s3, s5, s6, s7>>
  BY DEF Boot!Plan
<1>4. Boot!TypeOK'
  BY <1>1, <1>3 DEF Boot!MigrationsInv, Boot!TypeOK, Boot!AllFiles
<1>5. Boot!ChainIsOrdered'
  <2>1. Boot!InChain' = Boot!InChain /\ Boot!InChain \subseteq Instances
    BY <1>1, <1>2 DEF Boot!InChain
  <2> QED
    BY <1>1, <1>2, <1>3, <2>1, ChainKeeps DEF Boot!MigrationsInv, Boot!ChainIsOrdered
<1>6. Boot!OneStart'
  BY <1>1, <1>2, <1>3 DEF Boot!MigrationsInv, Boot!OneStart
<1>7. Boot!RowsTell'
  BY <1>1, <1>2, <1>3 DEF Boot!MigrationsInv, Boot!RowsTell, Boot!AllFiles
<1>8. Boot!NoCollision'
  BY <1>1, <1>2, <1>3 DEF Boot!MigrationsInv, Boot!NoCollision
<1> QED
  BY <1>4, <1>5, <1>6, <1>7, <1>8 DEF Boot!MigrationsInv

(* A file is applied: no other pass has it before it on PGLite, and none has it twice anywhere. *)
LEMMA ApplyKeeps ==
  ASSUME Boot!MigrationsInv, NEW m \in Instances, Boot!Apply(m)
  PROVE  Boot!MigrationsInv'
<1>1. PICK f \in s4[m].todo :
        /\ f \notin s6 /\ s6' = s6 \cup {f} /\ s7' = [s7 EXCEPT ![f] = @ + 1]
        /\ s4' = [s4 EXCEPT ![m] = [s4[m] EXCEPT !.todo = @ \ {f}]]
  BY DEF Boot!Apply, Boot!FirstOf, Boot!Becomes
<1>2. /\ s4' \in [Instances -> Boot!Passes] /\ \A x \in Instances \ {m} : s4'[x] = s4[x]
      /\ s4'[m].at = "apply" /\ s4'[m].after = s4[m].after /\ s4'[m].todo = s4[m].todo \ {f} /\ s4[m].at = "apply"
  BY <1>1 DEF Boot!MigrationsInv, Boot!TypeOK, Boot!Passes, Boot!Apply
<1>3. UNCHANGED <<s1, s3, s5>>
  BY DEF Boot!Apply
<1>4. f \in Boot!AllFiles
  BY <1>1 DEF Boot!MigrationsInv, Boot!TypeOK, Boot!Passes
<1>5. Boot!TypeOK'
  BY <1>1, <1>2, <1>3, <1>4 DEF Boot!MigrationsInv, Boot!TypeOK, Boot!AllFiles
<1>6. Boot!ChainIsOrdered'
  <2>1. Boot!InChain' = Boot!InChain /\ Boot!InChain \subseteq Instances
    BY <1>2 DEF Boot!InChain
  <2> QED
    BY <1>2, <1>3, <2>1, ChainKeeps DEF Boot!MigrationsInv, Boot!ChainIsOrdered
<1>7. Boot!OneStart'
  BY <1>2, <1>3 DEF Boot!MigrationsInv, Boot!OneStart
<1>8. Boot!RowsTell'
  <2>1. \A g \in Boot!AllFiles : s7'[g] = IF g \in s6' THEN 1 ELSE 0
    BY <1>1, <1>4 DEF Boot!MigrationsInv, Boot!TypeOK, Boot!RowsTell
  <2>2. \A x \in Instances : s4'[x].at = "apply" => Files[x] \ s4'[x].todo \subseteq s6'
    BY <1>1, <1>2 DEF Boot!MigrationsInv, Boot!RowsTell
  <2>3. \A x \in Instances : s3'[x] = "ready" => Files[x] \subseteq s6'
    BY <1>1, <1>3 DEF Boot!MigrationsInv, Boot!RowsTell
  <2> QED
    BY <2>1, <2>2, <2>3 DEF Boot!RowsTell, Boot!AllFiles
<1>9. Boot!NoCollision'
  <2>1. ASSUME s1 = "pglite", NEW x \in Instances, s4'[x].at = "apply" PROVE s4'[x].todo \cap s6' = {}
    <3>1. x = m
      BY <1>2, <2>1, OneApplies DEF Boot!MigrationsInv
    <3> QED
      BY <1>1, <1>2, <2>1, <3>1 DEF Boot!MigrationsInv, Boot!NoCollision
  <2> QED
    BY <1>3, <2>1 DEF Boot!NoCollision
<1> QED
  BY <1>5, <1>6, <1>7, <1>8, <1>9 DEF Boot!MigrationsInv

(* A pass is over, done or not. *)
LEMMA SettleKeeps ==
  ASSUME Boot!MigrationsInv, NEW m \in Instances, Boot!ApplyFails(m) \/ Boot!PassEnds(m)
  PROVE  Boot!MigrationsInv'
<1>1. PICK p \in Boot!Passes, v \in {"unset", "ready"} :
        /\ Boot!Settle(m, p) /\ s3' = [s3 EXCEPT ![m] = v]
        /\ (v = "unset" /\ p.at = "idle") \/ (v = "ready" /\ p.at = "done" /\ s4[m].todo = {})
  <2>1. CASE Boot!ApplyFails(m)
    <3>1. Boot!NoPass \in Boot!Passes /\ Boot!NoPass.at = "idle"
      BY DEF Boot!NoPass, Boot!Passes
    <3>2. Boot!Settle(m, Boot!NoPass) /\ s3' = [s3 EXCEPT ![m] = "unset"]
      BY <2>1 DEF Boot!ApplyFails, Boot!Cleared
    <3> QED
      BY <3>1, <3>2
  <2>2. CASE Boot!PassEnds(m)
    BY <2>2 DEF Boot!MigrationsInv, Boot!TypeOK, Boot!PassEnds, Boot!Passes
  <2> QED
    BY <2>1, <2>2
<1>2. UNCHANGED <<s1, s6>> /\ s4[m].at = "apply"
  BY DEF Boot!ApplyFails, Boot!PassEnds
<1>3. s7' = s7
  BY DEF Boot!MigrationsInv, Boot!TypeOK, Boot!ApplyFails, Boot!PassEnds, Boot!RolledBack
<1>4. /\ s4' \in [Instances -> Boot!Passes] /\ s4'[m] = p
      /\ \A x \in Instances \ {m} : s4'[x].at = s4[x].at /\ s4'[x].todo = s4[x].todo
  BY <1>1 DEF Boot!MigrationsInv, Boot!TypeOK, Boot!Passes, Boot!Settle
<1>5. /\ s3' \in [Instances -> {"unset", "pending", "ready"}] /\ \A x \in Instances \ {m} : s3'[x] = s3[x]
      /\ (s3'[m] = "unset" /\ p.at = "idle") \/ (s3'[m] = "ready" /\ p.at = "done" /\ s4[m].todo = {})
  BY <1>1 DEF Boot!MigrationsInv, Boot!TypeOK
<1>6. Boot!TypeOK'
  BY <1>1, <1>2, <1>3, <1>4, <1>5 DEF Boot!MigrationsInv, Boot!TypeOK, Boot!Settle, Boot!AllFiles
<1>7. Boot!ChainIsOrdered'
  BY <1>1, <1>2, ChainShrinks DEF Boot!MigrationsInv
<1>8. Boot!OneStart'
  BY <1>1, <1>4, <1>5 DEF Boot!MigrationsInv, Boot!OneStart
<1>9. Boot!RowsTell'
  BY <1>1, <1>2, <1>3, <1>4, <1>5 DEF Boot!MigrationsInv, Boot!RowsTell, Boot!AllFiles
<1>10. Boot!NoCollision'
  BY <1>1, <1>2, <1>4 DEF Boot!MigrationsInv, Boot!NoCollision
<1> QED
  BY <1>6, <1>7, <1>8, <1>9, <1>10 DEF Boot!MigrationsInv

(* Every step of the bootstrap keeps its invariant. *)
LEMMA BootStep == Boot!MigrationsInv /\ Boot!Next => Boot!MigrationsInv'
  BY StartKeeps, JoinKeeps, PlanKeeps, ApplyKeeps, SettleKeeps DEF Boot!Next, Boot!Steps

(* The promises of the bootstrap follow from its invariant. *)
LEMMA BootTells == Boot!MigrationsInv => Boot!NoCollision /\ Boot!EachOnce
  BY FilesOfAll DEF Boot!MigrationsInv, Boot!RowsTell, Boot!EachOnce

(* A step in which the bootstrap rests keeps it too. *)
LEMMA BootRests == Boot!MigrationsInv /\ UNCHANGED partVars => Boot!MigrationsInv'
<1> SUFFICES ASSUME Boot!MigrationsInv, UNCHANGED partVars PROVE Boot!MigrationsInv'
  OBVIOUS
<1>1. UNCHANGED <<s1, s3, s4, s5, s6, s7>>
  BY DEF partVars
<1>2. Boot!TypeOK' /\ Boot!OneStart' /\ Boot!RowsTell' /\ Boot!NoCollision'
  BY <1>1 DEF Boot!MigrationsInv, Boot!TypeOK, Boot!OneStart, Boot!RowsTell, Boot!NoCollision, Boot!AllFiles
<1>3. Boot!InChain' = Boot!InChain /\ Boot!InChain \subseteq Instances
  BY <1>1 DEF Boot!InChain
<1>4. Boot!ChainIsOrdered'
  BY <1>1, <1>3, ChainKeeps DEF Boot!MigrationsInv, Boot!ChainIsOrdered
<1> QED
  BY <1>2, <1>4 DEF Boot!MigrationsInv

----------------------------------------------------------------------------
(* A connector call.  Of Connector, s1 is header, s2 expired, s3 rejected,  *)
(* s4 memo, s5 call, s6 result and s7 hook.                                 *)

(* The page starts with no call and no token held back. *)
LEMMA ConnectorStarts == Proxy!Init => Proxy!ConnectorInv
  BY DEF Proxy!Init, Proxy!ConnectorInv, Proxy!CallTypeOK, Proxy!RefusalsAreReal, Proxy!HeldBackIsRefused, Proxy!NoCall

(* A step that leaves the calls and what was refused alone keeps the invariant. *)
LEMMA CallsRest ==
  ASSUME Proxy!ConnectorInv, s1' \in Nat, s5' = s5, s3' = s3, s2 \subseteq s2'
  PROVE  Proxy!ConnectorInv'
  BY DEF Proxy!ConnectorInv, Proxy!CallTypeOK, Proxy!RefusalsAreReal, Proxy!HeldBackIsRefused

(* So does one that asks again, or not at all. *)
LEMMA AskKeeps ==
  ASSUME Proxy!ConnectorInv, NEW q \in Proxy!Queries, Proxy!Refetch(q), UNCHANGED <<s1, s2, s3>>
  PROVE  Proxy!ConnectorInv'
  BY DEF Proxy!ConnectorInv, Proxy!CallTypeOK, Proxy!RefusalsAreReal, Proxy!HeldBackIsRefused, Proxy!Refetch

(* So does a call that is answered by the page itself. *)
LEMMA AnswerKeeps ==
  ASSUME Proxy!ConnectorInv, NEW q \in Proxy!Queries, NEW r, Proxy!Answered(q, r), UNCHANGED <<s1, s2>>,
         s3' = s3 \/ s3' = 0 \/ s3' \in s2
  PROVE  Proxy!ConnectorInv'
  BY DEF Proxy!ConnectorInv, Proxy!CallTypeOK, Proxy!RefusalsAreReal, Proxy!HeldBackIsRefused, Proxy!Answered, Proxy!NoCall

(* Every step of the connector keeps the invariant: the token that is held back is the one of the call. *)
LEMMA ConnectorStep == Proxy!ConnectorInv /\ Proxy!Next => Proxy!ConnectorInv'
<1> SUFFICES ASSUME Proxy!ConnectorInv, Proxy!Next PROVE Proxy!ConnectorInv'
  OBVIOUS
<1> USE DEF Proxy!Queries
<1>1. s1 \in Nat
  BY DEF Proxy!ConnectorInv
<1>2. CASE Proxy!Push \/ Proxy!Expire \/ Proxy!MemoExpires \/ Proxy!Mount \/ Proxy!Deadline \/ Proxy!Probe \/ Proxy!Refetched
  BY <1>1, <1>2, CallsRest
  DEF Proxy!Push, Proxy!Expire, Proxy!MemoExpires, Proxy!Mount, Proxy!Deadline, Proxy!Probe, Proxy!Refetched
<1>3. ASSUME NEW ready \in BOOLEAN, Proxy!Probed(ready) PROVE Proxy!ConnectorInv'
  BY <1>1, <1>3, CallsRest, AskKeeps DEF Proxy!Probed
<1>4. CASE Proxy!TokenReady
  BY <1>4, AskKeeps DEF Proxy!TokenReady
<1>5. ASSUME NEW q \in Proxy!Queries PROVE Proxy!Ask(q) \/ Proxy!Serves(q) => Proxy!ConnectorInv'
  <2>1. CASE Proxy!Ask(q)
    BY <1>5, <2>1, AskKeeps DEF Proxy!Ask
  <2>2. CASE Proxy!Call(q)
    <3>1. CASE s5' = [s5 EXCEPT ![q].at = "sent", ![q].token = s1]
      BY <1>1, <1>5, <2>2, <3>1
      DEF Proxy!Call, Proxy!ConnectorInv, Proxy!CallTypeOK, Proxy!RefusalsAreReal, Proxy!HeldBackIsRefused
    <3>2. CASE \E r \in {"pending", "error"} : Proxy!Answered(q, r)
      BY <1>5, <2>2, <3>2, AnswerKeeps DEF Proxy!Call
    <3> QED
      BY <2>2, <3>1, <3>2 DEF Proxy!Call
  <2>3. ASSUME NEW status \in {"ok", "401", "fail", "throw"}, Proxy!Gate(q, status) PROVE Proxy!ConnectorInv'
    BY <1>5, <2>3
    DEF Proxy!Gate, Proxy!ConnectorInv, Proxy!CallTypeOK, Proxy!RefusalsAreReal, Proxy!HeldBackIsRefused
  <2>4. CASE Proxy!Return(q)
    <3>1. UNCHANGED <<s1, s2>> /\ \E r : Proxy!Answered(q, r)
      BY <2>4 DEF Proxy!Return
    <3>2. s3' = s3 \/ s3' = 0 \/ s3' \in s2
      BY <1>5, <2>4 DEF Proxy!Return, Proxy!Refused, Proxy!ConnectorInv, Proxy!RefusalsAreReal
    <3> QED
      BY <1>5, <3>1, <3>2, AnswerKeeps
  <2> QED
    BY <2>1, <2>2, <2>3, <2>4 DEF Proxy!Serves
<1> QED
  BY <1>2, <1>3, <1>4, <1>5 DEF Proxy!Next

----------------------------------------------------------------------------
(* The gate's session.  Of GateSession, s1 is viewer, s2 db, s3 browser,    *)
(* s4 req, s5 shown and s6 trouble.                                         *)

(* The page starts with no request. *)
LEMMA GateStarts == Gate!Init => Gate!GateInv
  BY DEF Gate!Init, Gate!GateInv, Gate!TypeOK, Gate!LetThrough, Gate!NeverTheOther, Gate!GateRequests, Gate!Cookies,
     Gate!People, Gate!MaybeSession, Gate!Idle, Gate!NoCookies

(* A step of request r to x keeps the invariant, if x is let through rightly and the others keep their sessions. *)
LEMMA RequestGoes ==
  ASSUME Gate!GateInv, NEW r \in Requests, NEW x \in Gate!GateRequests, Gate!Goes(r, x), s6' \in Nat,
         s2' \in [SessionRows -> Gate!People],
         \A o \in Requests \ {r} :
           LET s == s4[o].cookies.session IN s # Gate!NoSession => s2'[s] \in {s2[s], Gate!Nobody},
         x.at = "endpoint" /\ x.viewer # Gate!Nobody /\ ~x.failed => Gate!NamesViewer(x)',
         x.at = "answered" /\ x.viewer # Gate!Nobody /\ ~x.failed => x.user \in {x.viewer, Gate!Nobody}
  PROVE  Gate!GateInv'
<1>1. s4' = [s4 EXCEPT ![r] = x] /\ UNCHANGED <<s1, s3, s5>>
  BY DEF Gate!Goes
<1>2. s4 \in [Requests -> Gate!GateRequests]
  BY DEF Gate!GateInv, Gate!TypeOK
<1>3. s4' \in [Requests -> Gate!GateRequests] /\ s4'[r] = x /\ \A o \in Requests \ {r} : s4'[o] = s4[o]
  BY <1>1, <1>2
<1>4. Gate!TypeOK'
  BY <1>1, <1>3 DEF Gate!GateInv, Gate!TypeOK
<1>5. Gate!NeverTheOther'
  BY <1>3 DEF Gate!GateInv, Gate!NeverTheOther
<1>6. Gate!LetThrough'
  BY <1>3 DEF Gate!GateInv, Gate!LetThrough, Gate!NamesViewer
<1> QED
  BY <1>4, <1>5, <1>6 DEF Gate!GateInv

(* A step of the browser or of the visitor that touches no request and no session keeps the invariant. *)
LEMMA RequestsRest ==
  ASSUME Gate!GateInv, UNCHANGED <<s2, s4>>, s1' \in Viewers \cup {Gate!Nobody}, s3' \in Gate!Cookies, s6' \in Nat
  PROVE  Gate!GateInv'
  BY DEF Gate!GateInv, Gate!TypeOK, Gate!LetThrough, Gate!NeverTheOther, Gate!NamesViewer

(* The visitor. *)
LEMMA VisitorKeeps ==
  ASSUME Gate!GateInv, Gate!Opens \/ Gate!ViewerChanges \/ Gate!CacheExpires
  PROVE  Gate!GateInv'
  BY RequestsRest DEF Gate!Opens, Gate!ViewerChanges, Gate!CacheExpires, Gate!Counted, Gate!GateInv, Gate!TypeOK, Gate!Cookies, Gate!People

(* A sign-in through the broker leaves no request under way. *)
LEMMA BrokerKeeps ==
  ASSUME Gate!GateInv, Gate!BrokerSignIn
  PROVE  Gate!GateInv'
<1>1. s4' = [r \in Requests |-> Gate!Idle] /\ Gate!Idle \in Gate!GateRequests /\ Gate!Idle.at = "idle"
  BY DEF Gate!BrokerSignIn, Gate!Idle, Gate!GateRequests, Gate!NoCookies, Gate!Cookies, Gate!People, Gate!MaybeSession
<1>2. s1' = s1 /\ s6' \in Nat
  BY DEF Gate!BrokerSignIn, Gate!Counted, Gate!GateInv, Gate!TypeOK
<1>3. PICK s \in SessionRows :
        /\ s2' = [x \in SessionRows |-> IF x = s THEN Gate!Broker ELSE IF x = s3.session THEN Gate!Nobody ELSE s2[x]]
        /\ s3' = [s3 EXCEPT !.session = s, !.cached = Gate!Broker]
  BY DEF Gate!BrokerSignIn
<1>4. s2' \in [SessionRows -> Gate!People] /\ s3' \in Gate!Cookies
  BY <1>3 DEF Gate!GateInv, Gate!TypeOK, Gate!Cookies, Gate!People, Gate!MaybeSession
<1> QED
  BY <1>1, <1>2, <1>4 DEF Gate!GateInv, Gate!TypeOK, Gate!LetThrough, Gate!NeverTheOther

(* A request is sent with the cookies of the browser, and its answer sets them. *)
LEMMA BrowserKeeps ==
  ASSUME Gate!GateInv, NEW r \in Requests, Gate!Send(r) \/ Gate!Receive(r)
  PROVE  Gate!GateInv'
<1>1. CASE Gate!Send(r)
  <2> DEFINE x == [Gate!Idle EXCEPT !.at = "asked", !.viewer = s1, !.cookies = s3]
  <2>1. x \in Gate!GateRequests /\ x.at = "asked"
    BY DEF Gate!GateInv, Gate!TypeOK, Gate!Idle, Gate!GateRequests, Gate!NoCookies, Gate!Cookies, Gate!People, Gate!MaybeSession
  <2>2. Gate!Goes(r, x) /\ UNCHANGED <<s2, s6>>
    BY <1>1 DEF Gate!Send, Gate!Goes
  <2> HIDE DEF x
  <2> QED
    BY <2>1, <2>2, RequestGoes DEF Gate!GateInv, Gate!TypeOK
<1>2. CASE Gate!Receive(r)
  <2>1. s4' = [s4 EXCEPT ![r] = Gate!Idle] /\ UNCHANGED <<s1, s2, s6>>
    BY <1>2 DEF Gate!Receive
  <2>2. Gate!Idle \in Gate!GateRequests /\ Gate!Idle.at = "idle"
    BY DEF Gate!Idle, Gate!GateRequests, Gate!NoCookies, Gate!Cookies, Gate!People, Gate!MaybeSession
  <2>3. s3' \in Gate!Cookies
    <3>1. s3 \in Gate!Cookies /\ s4[r].set \in Gate!Cookies
      BY DEF Gate!GateInv, Gate!TypeOK, Gate!GateRequests
    <3>2. s3' = [c \in DOMAIN s3 |-> IF c \in s4[r].changed THEN s4[r].set[c] ELSE s3[c]]
      BY <1>2 DEF Gate!Receive
    <3> QED
      BY <3>1, <3>2 DEF Gate!Cookies
  <2>4. Gate!TypeOK'
    BY <2>1, <2>2, <2>3 DEF Gate!GateInv, Gate!TypeOK
  <2>5. \A o \in Requests : s4'[o] = IF o = r THEN Gate!Idle ELSE s4[o]
    BY <2>1 DEF Gate!GateInv, Gate!TypeOK
  <2> QED
    BY <2>1, <2>2, <2>4, <2>5 DEF Gate!GateInv, Gate!LetThrough, Gate!NeverTheOther, Gate!NamesViewer
<1> QED
  BY <1>1, <1>2

(* The state of a request is one of a request. *)
LEMMA RequestTypes ==
  ASSUME Gate!GateInv, NEW r \in Requests
  PROVE  s4[r] \in Gate!GateRequests /\ s2 \in [SessionRows -> Gate!People] /\ s6 \in Nat
  BY DEF Gate!GateInv, Gate!TypeOK

(* What the hook does to the cookies of a request is one of a request again. *)
LEMMA CookiesSet ==
  ASSUME NEW x \in Gate!GateRequests
  PROVE  /\ \A flag \in BOOLEAN : [x.set EXCEPT !.marker = flag] \in Gate!Cookies
         /\ \A s \in Gate!MaybeSession : [x.set EXCEPT !.session = s] \in Gate!Cookies
         /\ \A u \in Gate!People : [x.set EXCEPT !.cached = u] \in Gate!Cookies
         /\ \A s \in Gate!MaybeSession, u \in Gate!People : [x.set EXCEPT !.cached = u, !.session = s] \in Gate!Cookies
  BY DEF Gate!GateRequests, Gate!Cookies

(* The marker is cleared and set. *)
LEMMA MarkerTypes ==
  ASSUME NEW x \in Gate!GateRequests
  PROVE  /\ Gate!MarkerSet(x) \in Gate!GateRequests /\ Gate!MarkerSet(x).viewer = x.viewer
         /\ Gate!MarkerSet(x).cookies = x.cookies /\ Gate!MarkerSet(x).failed = x.failed
         /\ Gate!MarkerCleared(x) \in Gate!GateRequests /\ Gate!MarkerCleared(x).viewer = x.viewer
<1> DEFINE changed == x.changed \cup {"marker"}
<1>1. changed \in SUBSET {"session", "cached", "marker"}
  BY DEF Gate!GateRequests
<1>2. PICK on, off \in Gate!Cookies : on = [x.set EXCEPT !.marker = TRUE] /\ off = [x.set EXCEPT !.marker = FALSE]
  BY CookiesSet
<1> DEFINE y == [x EXCEPT !.changed = changed, !.set = on]
           z == [x EXCEPT !.changed = changed, !.set = off]
<1>3. Gate!MarkerSet(x) = y /\ (Gate!MarkerCleared(x) = z \/ Gate!MarkerCleared(x) = x)
  BY <1>2 DEF Gate!MarkerSet, Gate!MarkerCleared, Gate!GateRequests
<1> HIDE DEF changed
<1>4. y \in Gate!GateRequests /\ y.viewer = x.viewer /\ y.cookies = x.cookies /\ y.failed = x.failed
  BY <1>1 DEF Gate!GateRequests
<1>5. z \in Gate!GateRequests /\ z.viewer = x.viewer
  BY <1>1 DEF Gate!GateRequests
<1> HIDE DEF y, z
<1> QED
  BY <1>3, <1>4, <1>5

(* The cookies of a session that was made. *)
LEMMA EmittedTypes ==
  ASSUME NEW x \in Gate!GateRequests, NEW s \in SessionRows
  PROVE  LET y == Gate!Expired(Gate!MarkerSet(Gate!Emitted(x, s)))
         IN y \in Gate!GateRequests /\ y.viewer = x.viewer
<1>1. PICK e \in Gate!GateRequests : e = Gate!Emitted(x, s) /\ e.viewer = x.viewer
  <2>1. PICK c \in Gate!Cookies : c = [x.set EXCEPT !.session = s]
    BY CookiesSet DEF Gate!MaybeSession
  <2>2. PICK changed \in SUBSET {"session", "cached", "marker"} : changed = x.changed \cup {"session"}
    BY DEF Gate!GateRequests
  <2> DEFINE y == [x EXCEPT !.changed = changed, !.set = c]
  <2>3. Gate!Emitted(x, s) = y
    BY <2>1, <2>2 DEF Gate!Emitted, Gate!GateRequests
  <2>4. y \in Gate!GateRequests /\ y.viewer = x.viewer
    BY DEF Gate!GateRequests
  <2> HIDE DEF y
  <2> QED
    BY <2>3, <2>4
<1>2. PICK m \in Gate!GateRequests : m = Gate!MarkerSet(e) /\ m.viewer = x.viewer
  BY <1>1, MarkerTypes
<1>3. PICK c \in Gate!Cookies : c = [m.set EXCEPT !.cached = Gate!Nobody]
  BY CookiesSet DEF Gate!People
<1>4. PICK changed \in SUBSET {"session", "cached", "marker"} : changed = m.changed \cup {"cached"}
  BY DEF Gate!GateRequests
<1> DEFINE y == [m EXCEPT !.changed = changed, !.set = c]
<1>5. Gate!Expired(m) = y
  BY <1>3, <1>4 DEF Gate!Expired, Gate!GateRequests
<1>6. y \in Gate!GateRequests /\ y.viewer = m.viewer
  BY DEF Gate!GateRequests
<1> HIDE DEF y
<1> QED
  BY <1>1, <1>2, <1>5, <1>6

(* A failure is counted, and lets the request through as it is. *)
LEMMA FailureKeeps ==
  ASSUME Gate!GateInv, NEW r \in Requests, Gate!Goes(r, Gate!Failed(s4[r])), UNCHANGED s6 \/ Gate!Fault,
         s2' \in [SessionRows -> Gate!People],
         \A o \in Requests \ {r} :
           LET s == s4[o].cookies.session IN s # Gate!NoSession => s2'[s] \in {s2[s], Gate!Nobody}
  PROVE  Gate!GateInv'
<1> DEFINE x == Gate!Failed(s4[r])
<1>1. x \in Gate!GateRequests /\ x.at = "endpoint" /\ x.failed
  BY RequestTypes DEF Gate!Failed, Gate!GateRequests
<1>2. s6' \in Nat
  BY RequestTypes DEF Gate!Fault, Gate!Counted
<1> HIDE DEF x
<1>3. Gate!Goes(r, x)
  BY DEF x
<1> QED
  BY <1>1, <1>2, <1>3, RequestGoes

(* A request that goes on, with its cookies as they are. *)
LEMMA GoesOnKeeps ==
  ASSUME Gate!GateInv, NEW r \in Requests, NEW at \in {"lookup", "mint"}, Gate!Goes(r, [s4[r] EXCEPT !.at = at]),
         UNCHANGED s6 \/ Gate!Fault, s2' \in [SessionRows -> Gate!People],
         \A o \in Requests \ {r} :
           LET s == s4[o].cookies.session IN s # Gate!NoSession => s2'[s] \in {s2[s], Gate!Nobody}
  PROVE  Gate!GateInv'
<1> DEFINE x == [s4[r] EXCEPT !.at = at]
<1>1. x \in Gate!GateRequests /\ x.at \in {"lookup", "mint"}
  BY RequestTypes DEF Gate!GateRequests
<1>2. s6' \in Nat
  BY RequestTypes DEF Gate!Fault, Gate!Counted
<1> HIDE DEF x
<1>3. Gate!Goes(r, x)
  BY DEF x
<1> QED
  BY <1>1, <1>2, <1>3, RequestGoes

(* The start of the hook. *)
LEMMA HookKeeps ==
  ASSUME Gate!GateInv, NEW r \in Requests, Gate!Hook(r)
  PROVE  Gate!GateInv'
<1>1. s2' = s2
  BY DEF Gate!Hook
<1>2. CASE s4[r].viewer = Gate!Nobody
  <2>0. PICK y \in Gate!GateRequests : y = Gate!MarkerCleared(s4[r]) /\ y.viewer = Gate!Nobody
    BY <1>2, RequestTypes, MarkerTypes
  <2> DEFINE x == [y EXCEPT !.at = "endpoint"]
  <2>1. x \in Gate!GateRequests /\ x.viewer = Gate!Nobody /\ x.at = "endpoint"
    BY <2>0 DEF Gate!GateRequests
  <2>2. Gate!Goes(r, x) /\ UNCHANGED s6
    BY <1>2, <2>0 DEF Gate!Hook, Gate!NoFault
  <2> HIDE DEF x
  <2> QED
    BY <1>1, <2>1, <2>2, RequestTypes, RequestGoes
<1>3. CASE Gate!Goes(r, Gate!Failed(s4[r])) /\ Gate!Fault
  BY <1>1, <1>3, RequestTypes, FailureKeeps
<1>4. ASSUME NEW at \in {"lookup", "mint"}, Gate!Goes(r, [s4[r] EXCEPT !.at = at]), UNCHANGED s6 PROVE Gate!GateInv'
  BY <1>1, <1>4, RequestTypes, GoesOnKeeps
<1> QED
  BY <1>2, <1>3, <1>4 DEF Gate!Hook, Gate!NoFault

(* The session of the request, kept when it is the viewer's. *)
LEMMA LookUpKeeps ==
  ASSUME Gate!GateInv, NEW r \in Requests, Gate!LookUp(r)
  PROVE  Gate!GateInv'
<1> DEFINE user == Gate!UserOf(s4[r].cookies)
<1>1. CASE Gate!Goes(r, [s4[r] EXCEPT !.at = "mint"]) /\ (UNCHANGED s6 \/ Gate!Fault)
  <2>1. \/ s2' = s2
        \/ s2' = [s2 EXCEPT ![s4[r].cookies.session] = Gate!Nobody]
    BY <1>1 DEF Gate!LookUp
  <2>2. s2' \in [SessionRows -> Gate!People]
    BY <2>1, RequestTypes DEF Gate!People
  <2>3. \A o \in Requests : s4[o].cookies.session # Gate!NoSession => s4[o].cookies.session \in SessionRows
    BY RequestTypes DEF Gate!GateRequests, Gate!Cookies, Gate!MaybeSession
  <2>4. \A s \in SessionRows : s2'[s] \in {s2[s], Gate!Nobody}
    BY <2>1, RequestTypes
  <2> QED
    BY <1>1, <2>2, <2>3, <2>4, GoesOnKeeps
<1>2. CASE Gate!Goes(r, Gate!Failed(s4[r])) /\ Gate!Fault /\ UNCHANGED s2
  BY <1>2, RequestTypes, FailureKeeps
<1>3. CASE /\ Gate!Bound(user, s4[r].viewer) /\ UNCHANGED <<s2, s6>>
           /\ Gate!Goes(r, [Gate!MarkerSet(s4[r]) EXCEPT !.at = "endpoint"])
  <2>0. PICK y \in Gate!GateRequests : y = Gate!MarkerSet(s4[r]) /\ y.cookies = s4[r].cookies /\ y.viewer = s4[r].viewer
    BY RequestTypes, MarkerTypes
  <2> DEFINE x == [y EXCEPT !.at = "endpoint"]
  <2>1. x \in Gate!GateRequests /\ x.at = "endpoint" /\ x.cookies = s4[r].cookies /\ x.viewer = s4[r].viewer
    BY <2>0 DEF Gate!GateRequests
  <2>4. Gate!Goes(r, x)
    BY <1>3, <2>0
  <2> HIDE DEF x
  <2>2. Gate!NamesViewer(x)
    BY <1>3, <2>1 DEF Gate!Bound, Gate!UserOf, Gate!NamesViewer
  <2>3. Gate!NamesViewer(x)'
    BY <1>3, <2>2 DEF Gate!NamesViewer
  <2> QED
    BY <1>3, <2>1, <2>3, <2>4, RequestTypes, RequestGoes
<1> QED
  BY <1>1, <1>2, <1>3 DEF Gate!LookUp, Gate!NoFault

(* A session that is made is the viewer's, in a row that no other request names. *)
LEMMA MintKeeps ==
  ASSUME Gate!GateInv, NEW r \in Requests, Gate!Mint(r)
  PROVE  Gate!GateInv'
<1>1. CASE Gate!Goes(r, Gate!Failed(s4[r])) /\ Gate!Fault /\ UNCHANGED s2
  BY <1>1, RequestTypes, FailureKeeps
<1>2. ASSUME NEW s \in SessionRows, Gate!Fresh(s), s2' = [s2 EXCEPT ![s] = s4[r].viewer],
             \/ Gate!Goes(r, Gate!Failed(s4[r])) /\ Gate!Fault
             \/ /\ Gate!Goes(r, [Gate!Expired(Gate!MarkerSet(Gate!Emitted(s4[r], s))) EXCEPT
                                   !.at = "endpoint", !.cookies = Gate!Injected(s4[r].cookies, s)])
                /\ Gate!NoFault
      PROVE  Gate!GateInv'
  <2>1. s2' \in [SessionRows -> Gate!People] /\ s2'[s] = s4[r].viewer
    BY <1>2, RequestTypes DEF Gate!GateRequests, Gate!People
  <2>2. \A o \in Requests : s4[o].cookies.session # s /\ s4[o].cookies.session \in SessionRows \cup {Gate!NoSession}
    BY <1>2, RequestTypes DEF Gate!Fresh, Gate!InUse, Gate!GateRequests, Gate!Cookies, Gate!MaybeSession
  <2>3. \A o \in Requests \ {r} :
          LET t == s4[o].cookies.session IN t # Gate!NoSession => s2'[t] \in {s2[t], Gate!Nobody}
    BY <1>2, <2>2, RequestTypes
  <2>4. CASE Gate!Goes(r, Gate!Failed(s4[r])) /\ Gate!Fault
    BY <2>1, <2>3, <2>4, FailureKeeps
  <2>5. CASE ~(Gate!Goes(r, Gate!Failed(s4[r])) /\ Gate!Fault)
    <3>0. PICK o \in Gate!Cookies : o = s4[r].cookies
      BY RequestTypes DEF Gate!GateRequests
    <3> DEFINE c == Gate!Injected(o, s)
    <3>1. c \in Gate!Cookies /\ c.session = s /\ c.cached = Gate!Nobody
      BY DEF Gate!Injected, Gate!GateRequests, Gate!Cookies, Gate!People, Gate!MaybeSession
    <3>2. PICK y \in Gate!GateRequests :
            y = Gate!Expired(Gate!MarkerSet(Gate!Emitted(s4[r], s))) /\ y.viewer = s4[r].viewer
      BY RequestTypes, EmittedTypes
    <3> DEFINE x == [y EXCEPT !.at = "endpoint", !.cookies = c]
    <3>4. Gate!Goes(r, x) /\ UNCHANGED s6
      BY <1>2, <2>5, <3>0, <3>2 DEF Gate!NoFault
    <3> HIDE DEF c
    <3>3. x \in Gate!GateRequests /\ x.at = "endpoint" /\ x.viewer = s4[r].viewer /\ x.cookies = c
      BY <3>1, <3>2 DEF Gate!GateRequests
    <3> HIDE DEF x
    <3>5. Gate!NamesViewer(x)'
      BY <2>1, <3>1, <3>3 DEF Gate!NamesViewer
    <3> QED
      BY <2>1, <2>3, <3>3, <3>4, <3>5, RequestTypes, RequestGoes
  <2> QED
    BY <2>4, <2>5
<1> QED
  BY <1>1, <1>2 DEF Gate!Mint

(* The endpoint answers with the user whom the cookies name. *)
LEMMA EndpointKeeps ==
  ASSUME Gate!GateInv, NEW r \in Requests, Gate!Endpoint(r)
  PROVE  Gate!GateInv'
<1>1. PICK user, slot, changed :
        /\ user = Gate!UserOf(s4[r].cookies)
        /\ slot = IF user = Gate!Nobody THEN Gate!NoSession ELSE s4[r].set.session
        /\ changed = s4[r].changed \cup {"cached"} \cup IF user = Gate!Nobody THEN {"session"} ELSE {}
        /\ Gate!Goes(r, [s4[r] EXCEPT !.at = "answered", !.user = user, !.set.cached = user, !.set.session = slot,
                                      !.changed = changed])
  BY DEF Gate!Endpoint
<1>2. UNCHANGED <<s2, s6>> /\ s4[r].at = "endpoint"
  BY DEF Gate!Endpoint, Gate!NoFault
<1>3. user \in Gate!People
  BY <1>1, RequestTypes DEF Gate!UserOf, Gate!GateRequests, Gate!Cookies, Gate!People, Gate!MaybeSession
<1>4. slot \in Gate!MaybeSession /\ changed \in SUBSET {"session", "cached", "marker"}
  BY <1>1, RequestTypes DEF Gate!GateRequests, Gate!Cookies, Gate!MaybeSession
<1>5. s4[r].viewer # Gate!Nobody /\ ~s4[r].failed => user \in {s4[r].viewer, Gate!Nobody}
  BY <1>1, <1>2 DEF Gate!GateInv, Gate!LetThrough, Gate!NamesViewer, Gate!UserOf
<1>6. PICK old \in Gate!GateRequests : old = s4[r]
  BY RequestTypes
<1>7. PICK c \in Gate!Cookies : c = [old.set EXCEPT !.cached = user, !.session = slot]
  BY <1>3, <1>4, CookiesSet
<1> DEFINE x == [old EXCEPT !.at = "answered", !.user = user, !.set = c, !.changed = changed]
<1>8. Gate!Goes(r, x)
  <2>1. x = [old EXCEPT !.at = "answered", !.user = user, !.set.cached = user, !.set.session = slot, !.changed = changed]
    BY <1>7 DEF Gate!GateRequests, Gate!Cookies
  <2> QED
    BY <1>1, <1>6, <2>1
<1>9. x \in Gate!GateRequests /\ x.at = "answered" /\ x.user = user /\ x.viewer = s4[r].viewer /\ x.failed = s4[r].failed
  BY <1>3, <1>4, <1>6 DEF Gate!GateRequests
<1> HIDE DEF x
<1> QED
  BY <1>2, <1>5, <1>8, <1>9, RequestTypes, RequestGoes

(* Every step of the session keeps its invariant. *)
LEMMA GateStep == Gate!GateInv /\ Gate!Next => Gate!GateInv'
  BY VisitorKeeps, BrokerKeeps, BrowserKeeps, HookKeeps, LookUpKeeps, MintKeeps, EndpointKeeps DEF Gate!Next, Gate!Step

----------------------------------------------------------------------------
(* Signing in and out.  Of SignIn, s1 is preview, s2 made, s3 alive, s4 jar, *)
(* s5 bearer, s6 flow, s7 request, s8 popup and s9 grace.                   *)

(* A page starts with no call. *)
LEMMA SignInStarts == Sign!Init => Sign!SignInInv
<1> SUFFICES ASSUME Sign!Init PROVE Sign!SignInInv
  OBVIOUS
<1> USE DEF Sign!None, Sign!Silence, Sign!NoRequest, Sign!NoPopup, Sign!Credential
<1>1. /\ s1 \in BOOLEAN /\ s2 = 0 /\ s3 = {} /\ s4 = 0 /\ s5 = 0 /\ s9 = FALSE
      /\ s6 = [call |-> "none", at |-> "over", since |-> 0]
      /\ s7 = [at |-> "none", session |-> 0]
      /\ s8 = [at |-> "none", message |-> {}, token |-> 0, missed |-> FALSE]
  BY DEF Sign!Init
<1>2. Sign!TypeOK
  BY <1>1 DEF Sign!TypeOK
<1>3. Sign!BeforeTheCall /\ Sign!CallAndWindow /\ Sign!MessageIsNew /\ Sign!DeployedPage
  BY <1>1 DEF Sign!BeforeTheCall, Sign!CallAndWindow, Sign!MessageIsNew, Sign!DeployedPage
<1>4. Sign!SignedOutIsOut /\ Sign!SignedInAnew /\ Sign!CompletedIsNotCancelled
  BY <1>1 DEF Sign!SignedOutIsOut, Sign!SignedInAnew, Sign!CompletedIsNotCancelled
<1> QED
  BY <1>2, <1>3, <1>4 DEF Sign!SignInInv

(* A call starts anew, with a window of its own. *)
LEMMA StartOfACall ==
  ASSUME Sign!SignInInv, Sign!SignsIn \/ Sign!SignsOut
  PROVE  Sign!SignInInv'
<1> USE DEF Sign!SignInInv, Sign!TypeOK, Sign!None, Sign!Silence, Sign!NoRequest, Sign!NoPopup, Sign!Credential,
        Sign!SignsIn, Sign!SignsOut, Sign!Start, Sign!Asks, Sign!Idle
<1>1. Sign!TypeOK'
  <2>1. PICK call \in {"in", "out"}, window \in {"none", "login", "blocked"} : Sign!Start(call, window)
    BY Zenon DEF Sign!SignsIn, Sign!SignsOut
  <2>2. PICK asks \in BOOLEAN, slot \in Nat :
          /\ s6' = [call |-> call, at |-> IF asks THEN "clearing" ELSE "cleared", since |-> s2]
          /\ s7' = IF asks THEN [at |-> "sent", session |-> slot] ELSE [at |-> "none", session |-> 0]
          /\ s8' = [at |-> window, message |-> {}, token |-> 0, missed |-> FALSE]
    BY <2>1
  <2>3. s6' \in [call : {"none", "in", "out"}, at : {"over", "clearing", "cleared", "away", "waiting", "done", "threw"}, since : Nat]
    BY <2>2
  <2>4. s7' \in [at : {"none", "sent", "ok", "failed"}, session : Nat]
    BY <2>2
  <2>5. s8' \in [at : {"none", "login", "blocked", "closed"}, message : SUBSET Nat, token : Nat, missed : BOOLEAN]
    BY <2>2
  <2> QED
    BY <2>1, <2>3, <2>4, <2>5
<1>2. Sign!BeforeTheCall'
  BY DEF Sign!BeforeTheCall
<1>3. Sign!CallAndWindow'
  BY DEF Sign!CallAndWindow
<1>4. Sign!MessageIsNew'
  BY DEF Sign!MessageIsNew, Sign!BeforeTheCall, Sign!CallAndWindow
<1>5. Sign!DeployedPage'
  BY DEF Sign!DeployedPage, Sign!CallAndWindow
<1>6. Sign!SignedOutIsOut'
  BY DEF Sign!SignedOutIsOut, Sign!CallAndWindow, Sign!DeployedPage
<1>7. Sign!SignedInAnew'
  BY DEF Sign!SignedInAnew, Sign!BeforeTheCall, Sign!CallAndWindow, Sign!MessageIsNew, Sign!DeployedPage
<1>8. Sign!CompletedIsNotCancelled'
  BY DEF Sign!CompletedIsNotCancelled, Sign!CallAndWindow, Sign!MessageIsNew
<1> QED
  BY <1>1, <1>2, <1>3, <1>4, <1>5, <1>6, <1>7, <1>8

(* The server answers. *)
LEMMA ServerKeeps ==
  ASSUME Sign!SignInInv, Sign!ServerEnds \/ Sign!ServerFails
  PROVE  Sign!SignInInv'
<1> USE DEF Sign!SignInInv, Sign!TypeOK, Sign!None, Sign!Silence, Sign!NoRequest, Sign!NoPopup, Sign!Credential,
        Sign!ServerEnds, Sign!ServerFails
<1>1. Sign!TypeOK'
  OBVIOUS
<1>2. Sign!BeforeTheCall'
  BY DEF Sign!BeforeTheCall
<1>3. Sign!CallAndWindow'
  BY DEF Sign!CallAndWindow
<1>4. Sign!MessageIsNew'
  BY DEF Sign!MessageIsNew, Sign!BeforeTheCall, Sign!CallAndWindow
<1>5. Sign!DeployedPage'
  BY DEF Sign!DeployedPage, Sign!CallAndWindow
<1>6. Sign!SignedOutIsOut'
  BY DEF Sign!SignedOutIsOut, Sign!CallAndWindow, Sign!DeployedPage
<1>7. Sign!SignedInAnew'
  BY DEF Sign!SignedInAnew, Sign!BeforeTheCall, Sign!CallAndWindow, Sign!MessageIsNew, Sign!DeployedPage
<1>8. Sign!CompletedIsNotCancelled'
  BY DEF Sign!CompletedIsNotCancelled, Sign!CallAndWindow, Sign!MessageIsNew
<1> QED
  BY <1>1, <1>2, <1>3, <1>4, <1>5, <1>6, <1>7, <1>8

(* The page waits no longer. *)
LEMMA ClearKeeps ==
  ASSUME Sign!SignInInv, Sign!Clear
  PROVE  Sign!SignInInv'
<1> USE DEF Sign!SignInInv, Sign!TypeOK, Sign!None, Sign!Silence, Sign!NoRequest, Sign!NoPopup, Sign!Credential,
        Sign!Clear, Sign!Settles
<1>1. Sign!TypeOK'
  OBVIOUS
<1>2. Sign!BeforeTheCall'
  BY DEF Sign!BeforeTheCall
<1>3. Sign!CallAndWindow'
  BY DEF Sign!CallAndWindow
<1>4. Sign!MessageIsNew'
  BY DEF Sign!MessageIsNew, Sign!BeforeTheCall, Sign!CallAndWindow
<1>5. Sign!DeployedPage'
  BY DEF Sign!DeployedPage, Sign!CallAndWindow
<1>6. Sign!SignedOutIsOut'
  BY DEF Sign!SignedOutIsOut, Sign!CallAndWindow, Sign!DeployedPage
<1>7. Sign!SignedInAnew'
  BY DEF Sign!SignedInAnew, Sign!BeforeTheCall, Sign!CallAndWindow, Sign!MessageIsNew, Sign!DeployedPage
<1>8. Sign!CompletedIsNotCancelled'
  BY DEF Sign!CompletedIsNotCancelled, Sign!CallAndWindow, Sign!MessageIsNew
<1> QED
  BY <1>1, <1>2, <1>3, <1>4, <1>5, <1>6, <1>7, <1>8

(* The end of signOut(). *)
LEMMA SignOutEnds ==
  ASSUME Sign!SignInInv, Sign!EndsSignOut
  PROVE  Sign!SignInInv'
<1> USE DEF Sign!SignInInv, Sign!TypeOK, Sign!None, Sign!Silence, Sign!NoRequest, Sign!NoPopup, Sign!Credential,
        Sign!EndsSignOut, Sign!IsOut
<1>1. Sign!TypeOK'
  OBVIOUS
<1>2. Sign!BeforeTheCall'
  BY DEF Sign!BeforeTheCall
<1>3. Sign!CallAndWindow'
  BY DEF Sign!CallAndWindow
<1>4. Sign!MessageIsNew'
  BY DEF Sign!MessageIsNew, Sign!BeforeTheCall, Sign!CallAndWindow
<1>5. Sign!DeployedPage'
  BY DEF Sign!DeployedPage, Sign!CallAndWindow
<1>6. Sign!SignedOutIsOut'
  BY DEF Sign!SignedOutIsOut, Sign!CallAndWindow, Sign!DeployedPage
<1>7. Sign!SignedInAnew'
  BY DEF Sign!SignedInAnew, Sign!BeforeTheCall, Sign!CallAndWindow, Sign!MessageIsNew, Sign!DeployedPage
<1>8. Sign!CompletedIsNotCancelled'
  BY DEF Sign!CompletedIsNotCancelled, Sign!CallAndWindow, Sign!MessageIsNew
<1> QED
  BY <1>1, <1>2, <1>3, <1>4, <1>5, <1>6, <1>7, <1>8

(* The rest of signIn() before it waits or leaves. *)
LEMMA SignInGoesOn ==
  ASSUME Sign!SignInInv, Sign!GoesOn
  PROVE  Sign!SignInInv'
<1> USE DEF Sign!SignInInv, Sign!TypeOK, Sign!None, Sign!Silence, Sign!NoRequest, Sign!NoPopup, Sign!Credential,
        Sign!GoesOn
<1>1. Sign!TypeOK'
  OBVIOUS
<1>2. Sign!BeforeTheCall'
  BY DEF Sign!BeforeTheCall
<1>3. Sign!CallAndWindow'
  BY DEF Sign!CallAndWindow
<1>4. Sign!MessageIsNew'
  BY DEF Sign!MessageIsNew, Sign!BeforeTheCall, Sign!CallAndWindow
<1>5. Sign!DeployedPage'
  BY DEF Sign!DeployedPage, Sign!CallAndWindow
<1>6. Sign!SignedOutIsOut'
  BY DEF Sign!SignedOutIsOut, Sign!CallAndWindow, Sign!DeployedPage
<1>7. Sign!SignedInAnew'
  BY DEF Sign!SignedInAnew, Sign!BeforeTheCall, Sign!CallAndWindow, Sign!MessageIsNew, Sign!DeployedPage
<1>8. Sign!CompletedIsNotCancelled'
  BY DEF Sign!CompletedIsNotCancelled, Sign!CallAndWindow, Sign!MessageIsNew
<1> QED
  BY <1>1, <1>2, <1>3, <1>4, <1>5, <1>6, <1>7, <1>8

(* The broker sends the deployed page back. *)
LEMMA ReturnsKeep ==
  ASSUME Sign!SignInInv, Sign!ReturnsSigned \/ Sign!ReturnsWithError
  PROVE  Sign!SignInInv'
<1> USE DEF Sign!SignInInv, Sign!TypeOK, Sign!None, Sign!Silence, Sign!NoRequest, Sign!NoPopup, Sign!Credential,
        Sign!ReturnsSigned, Sign!ReturnsWithError, Sign!NewSession
<1>1. Sign!TypeOK'
  OBVIOUS
<1>2. Sign!BeforeTheCall'
  BY DEF Sign!BeforeTheCall
<1>3. Sign!CallAndWindow'
  BY DEF Sign!CallAndWindow
<1>4. Sign!MessageIsNew'
  BY DEF Sign!MessageIsNew, Sign!BeforeTheCall, Sign!CallAndWindow
<1>5. Sign!DeployedPage'
  BY DEF Sign!DeployedPage, Sign!CallAndWindow
<1>6. Sign!SignedOutIsOut'
  BY DEF Sign!SignedOutIsOut, Sign!CallAndWindow, Sign!DeployedPage
<1>7. Sign!SignedInAnew'
  BY DEF Sign!SignedInAnew, Sign!BeforeTheCall, Sign!CallAndWindow, Sign!MessageIsNew, Sign!DeployedPage
<1>8. Sign!CompletedIsNotCancelled'
  BY DEF Sign!CompletedIsNotCancelled, Sign!CallAndWindow, Sign!MessageIsNew
<1> QED
  BY <1>1, <1>2, <1>3, <1>4, <1>5, <1>6, <1>7, <1>8

(* The window ends, with a session of its own making or without one. *)
LEMMA PopupKeeps ==
  ASSUME Sign!SignInInv, Sign!PopupSucceeds \/ Sign!PopupFails \/ Sign!PopupDismissed
  PROVE  Sign!SignInInv'
<1> USE DEF Sign!SignInInv, Sign!TypeOK, Sign!None, Sign!Silence, Sign!NoRequest, Sign!NoPopup, Sign!Credential,
        Sign!PopupSucceeds, Sign!PopupFails, Sign!PopupDismissed, Sign!NewSession, Sign!Posts, Sign!TokenOnError
<1>1. Sign!TypeOK'
  <2>1. CASE Sign!PopupDismissed
    BY <2>1
  <2>2. CASE Sign!PopupSucceeds \/ Sign!PopupFails
    <3>1. PICK token \in Nat : s8' = [s8 EXCEPT !.at = "closed", !.message = {token}, !.token = token]
      <4>1. CASE Sign!PopupSucceeds
        <5>1. s4' = s2 + 1 /\ s2 + 1 \in Nat
          BY <4>1
        <5>2. Sign!Posts(s4')
          BY <4>1
        <5> QED
          BY <5>1, <5>2
      <4>2. CASE Sign!PopupFails
        BY <4>2
      <4> QED
        BY <2>2, <4>1, <4>2
    <3>2. s8' \in [at : {"none", "login", "blocked", "closed"}, message : SUBSET Nat, token : Nat, missed : BOOLEAN]
      BY <3>1
    <3> QED
      BY <2>2, <3>2
  <2> QED
    BY <2>1, <2>2
<1>2. Sign!BeforeTheCall'
  <2>1. CASE Sign!PopupSucceeds
    BY <2>1 DEF Sign!BeforeTheCall
  <2>2. CASE Sign!PopupFails
    BY <2>2 DEF Sign!BeforeTheCall
  <2>3. CASE Sign!PopupDismissed
    BY <2>3 DEF Sign!BeforeTheCall
  <2> QED
    BY <2>1, <2>2, <2>3
<1>3. Sign!CallAndWindow'
  BY DEF Sign!CallAndWindow
<1>4. Sign!MessageIsNew'
  <2>1. CASE Sign!PopupSucceeds
    BY <2>1 DEF Sign!MessageIsNew, Sign!BeforeTheCall, Sign!CallAndWindow
  <2>2. CASE Sign!PopupFails
    BY <2>2 DEF Sign!MessageIsNew, Sign!CallAndWindow
  <2>3. CASE Sign!PopupDismissed
    BY <2>3 DEF Sign!MessageIsNew, Sign!CallAndWindow
  <2> QED
    BY <2>1, <2>2, <2>3
<1>5. Sign!DeployedPage'
  BY DEF Sign!DeployedPage, Sign!CallAndWindow
<1>6. Sign!SignedOutIsOut'
  BY DEF Sign!SignedOutIsOut, Sign!CallAndWindow, Sign!DeployedPage
<1>7. Sign!SignedInAnew'
  BY DEF Sign!SignedInAnew, Sign!BeforeTheCall, Sign!CallAndWindow, Sign!MessageIsNew, Sign!DeployedPage
<1>8. Sign!CompletedIsNotCancelled'
  BY DEF Sign!CompletedIsNotCancelled, Sign!CallAndWindow, Sign!MessageIsNew
<1> QED
  BY <1>1, <1>2, <1>3, <1>4, <1>5, <1>6, <1>7, <1>8

(* The message comes. *)
LEMMA MessageKeeps ==
  ASSUME Sign!SignInInv, Sign!Message
  PROVE  Sign!SignInInv'
<1> USE DEF Sign!SignInInv, Sign!TypeOK, Sign!None, Sign!Silence, Sign!NoRequest, Sign!NoPopup, Sign!Credential,
        Sign!Message, Sign!Settle
<1>1. Sign!TypeOK'
  BY ZenonT(40)
<1>2. Sign!BeforeTheCall'
  <2>1. \A token \in s8.message : token <= s2
    BY DEF Sign!MessageIsNew, Sign!BeforeTheCall
  <2>2. s5' = s5 \/ s5' \in s8.message
    OBVIOUS
  <2>3. UNCHANGED <<s2, s4, s7>> /\ s6'.since = s6.since
    OBVIOUS
  <2> QED
    BY <2>1, <2>2, <2>3 DEF Sign!BeforeTheCall
<1>3. Sign!CallAndWindow'
  <2>1. /\ UNCHANGED s1 /\ s6'.call = s6.call /\ s8'.at = s8.at
        /\ s6'.at = s6.at \/ (s6.at = "waiting" /\ s6'.at \in {"done", "threw"})
        /\ s9' \in {s9, FALSE} /\ s8.message # {}
    OBVIOUS
  <2> QED
    BY <2>1 DEF Sign!CallAndWindow, Sign!MessageIsNew
<1>4. Sign!MessageIsNew'
  BY DEF Sign!MessageIsNew, Sign!BeforeTheCall, Sign!CallAndWindow
<1>5. Sign!DeployedPage'
  BY DEF Sign!DeployedPage, Sign!CallAndWindow
<1>6. Sign!SignedOutIsOut'
  BY DEF Sign!SignedOutIsOut, Sign!CallAndWindow, Sign!DeployedPage
<1>7. Sign!SignedInAnew'
  BY DEF Sign!SignedInAnew, Sign!BeforeTheCall, Sign!CallAndWindow, Sign!MessageIsNew, Sign!DeployedPage
<1>8. Sign!CompletedIsNotCancelled'
  BY DEF Sign!CompletedIsNotCancelled, Sign!CallAndWindow, Sign!MessageIsNew
<1> QED
  BY <1>1, <1>2, <1>3, <1>4, <1>5, <1>6, <1>7, <1>8

(* The timers that look for the window. *)
LEMMA TimersKeep ==
  ASSUME Sign!SignInInv, Sign!Poll \/ Sign!GraceOver
  PROVE  Sign!SignInInv'
<1> USE DEF Sign!SignInInv, Sign!TypeOK, Sign!None, Sign!Silence, Sign!NoRequest, Sign!NoPopup, Sign!Credential,
        Sign!Poll, Sign!GraceOver, Sign!Grace, Sign!Settle
<1>1. Sign!TypeOK'
  OBVIOUS
<1>2. Sign!BeforeTheCall'
  <2>1. CASE Sign!Poll
    BY <2>1 DEF Sign!BeforeTheCall
  <2>2. CASE Sign!GraceOver
    BY <2>2 DEF Sign!BeforeTheCall
  <2> QED
    BY <2>1, <2>2
<1>3. Sign!CallAndWindow'
  <2>1. CASE Sign!Poll
    BY <2>1 DEF Sign!CallAndWindow
  <2>2. CASE Sign!GraceOver
    BY <2>2 DEF Sign!CallAndWindow
  <2> QED
    BY <2>1, <2>2
<1>4. Sign!MessageIsNew'
  BY DEF Sign!MessageIsNew, Sign!BeforeTheCall, Sign!CallAndWindow
<1>5. Sign!DeployedPage'
  BY DEF Sign!DeployedPage, Sign!CallAndWindow
<1>6. Sign!SignedOutIsOut'
  BY DEF Sign!SignedOutIsOut, Sign!CallAndWindow, Sign!DeployedPage
<1>7. Sign!SignedInAnew'
  BY DEF Sign!SignedInAnew, Sign!BeforeTheCall, Sign!CallAndWindow, Sign!MessageIsNew, Sign!DeployedPage
<1>8. Sign!CompletedIsNotCancelled'
  BY DEF Sign!CompletedIsNotCancelled, Sign!CallAndWindow, Sign!MessageIsNew
<1> QED
  BY <1>1, <1>2, <1>3, <1>4, <1>5, <1>6, <1>7, <1>8

(* Every step keeps the invariant. *)
LEMMA SignInStep == Sign!SignInInv /\ Sign!Next => Sign!SignInInv'
  BY StartOfACall, ServerKeeps, ClearKeeps, SignOutEnds, SignInGoesOn, ReturnsKeep, PopupKeeps, MessageKeeps, TimersKeep DEF Sign!Next

----------------------------------------------------------------------------
(* The preview bridge.  Of PreviewBridge, s1 is before, s2 entries, s3 pos, *)
(* s4 installed, s5 going, s6 hashed, s7 asked and s8 bar.                  *)

(* There is a number for a document that no entry has: there are more numbers than entries. *)
LEMMA NewDocIsNew ==
  ASSUME s2 \in Seq(Bridge!Entries)
  PROVE  Bridge!NewDoc \in Nat
<1> DEFINE free(d) == \A i \in DOMAIN s2 : s2[i].doc # d
           docs == 1..(Len(s2) + 1)
<1>1. \E d \in docs : free(d)
  <2> SUFFICES ASSUME \A d \in docs : ~free(d) PROVE FALSE
    OBVIOUS
  <2> DEFINE f == [d \in docs |-> CHOOSE i \in 1..Len(s2) : s2[i].doc = d]
  <2>1. \A d \in docs : f[d] \in 1..Len(s2) /\ s2[f[d]].doc = d
    OBVIOUS
  <2>2. f \in [docs -> 1..Len(s2)]
    BY <2>1
  <2>3. /\ IsFiniteSet(docs) /\ Cardinality(docs) = Len(s2) + 1
        /\ IsFiniteSet(1..Len(s2)) /\ Cardinality(1..Len(s2)) = Len(s2)
    <3>1. Len(s2) \in Nat /\ Len(s2) + 1 \in Nat /\ 1 \in Int
      OBVIOUS
    <3> QED
      BY <3>1, FS_Interval
  <2> HIDE DEF f, docs
  <2>4. PICK d, e \in docs : d # e /\ f[d] = f[e]
    BY <2>2, <2>3, FS_PigeonHole
  <2> QED
    BY <2>1, <2>4
<1>2. Bridge!NewDoc = CHOOSE d \in docs : free(d)
  BY DEF Bridge!NewDoc
<1> HIDE DEF free
<1> QED
  BY <1>1, <1>2

(* The page starts with one entry. *)
LEMMA BridgeStarts == Bridge!Init => Bridge!BridgeInv
<1> SUFFICES ASSUME Bridge!Init PROVE Bridge!BridgeInv
  OBVIOUS
<1>1. PICK path \in Paths : s2 = <<[path |-> path, doc |-> 1, root |-> FALSE]>>
  BY DEF Bridge!Init, Bridge!Entry
<1>2. [path |-> path, doc |-> 1, root |-> FALSE] \in Bridge!Entries
  BY DEF Bridge!Entries
<1>3. s2 \in Seq(Bridge!Entries) /\ Len(s2) = 1 /\ DOMAIN s2 = {1} /\ s2[1].root = FALSE
  BY <1>1, <1>2
<1>4. << >> \in Seq({"back", "forward"})
  OBVIOUS
<1>5. s1 \in Nat /\ s3 = 1 /\ s4 \in BOOLEAN /\ ~s4 /\ s5 = << >> /\ s6 \in BOOLEAN /\ s7 \in BOOLEAN
  BY EntriesAround DEF Bridge!Init
<1>6. Bridge!TypeOK
  BY <1>3, <1>4, <1>5 DEF Bridge!TypeOK
<1> QED
  BY <1>3, <1>5, <1>6 DEF Bridge!BridgeInv, Bridge!RefusedOnlyAtRoot, Bridge!AddressInStep

(* A new entry is one of the frame without the mark, the entries behind it stay as they are. *)
LEMMA PushKeeps ==
  ASSUME Bridge!TypeOK, Bridge!RefusedOnlyAtRoot, NEW path \in Paths, NEW doc \in Nat, Bridge!Inside,
         Bridge!Pushed(Bridge!Entry(path, doc, FALSE))
  PROVE  /\ s2' \in Seq(Bridge!Entries) /\ s3' \in 1..Len(s2') /\ s2'[s3'].path = path
         /\ Bridge!RefusedOnlyAtRoot'
<1> DEFINE e == Bridge!Entry(path, doc, FALSE)
           kept == SubSeq(s2, 1, s3)
<1>1. e \in Bridge!Entries /\ e.root = FALSE /\ e.path = path
  BY DEF Bridge!Entry, Bridge!Entries
<1>2. s2' = Append(kept, e) /\ s3' = s3 + 1
  BY DEF Bridge!Pushed
<1>3. s2 \in Seq(Bridge!Entries) /\ s3 \in 1..Len(s2) /\ DOMAIN s2 = 1..Len(s2)
  BY DEF Bridge!TypeOK, Bridge!Inside
<1>4. kept \in Seq(Bridge!Entries) /\ Len(kept) = s3 /\ \A i \in 1..s3 : kept[i] = s2[i]
  BY <1>3
<1> HIDE DEF e, kept
<1>5. s2' \in Seq(Bridge!Entries) /\ Len(s2') = s3 + 1 /\ s2'[s3 + 1] = e /\ \A i \in 1..s3 : s2'[i] = s2[i]
  BY <1>1, <1>2, <1>3, <1>4
<1>6. DOMAIN s2' = 1..(s3 + 1)
  BY <1>5
<1>7. Bridge!RefusedOnlyAtRoot'
  <2> SUFFICES ASSUME NEW i \in 1..(s3 + 1), s2'[i].root PROVE i = 1
    BY <1>6 DEF Bridge!RefusedOnlyAtRoot
  <2>1. i # s3 + 1
    BY <1>1, <1>5
  <2>2. i \in 1..s3 /\ s2[i].root
    BY <1>3, <1>5, <2>1
  <2> QED
    BY <1>3, <2>2 DEF Bridge!RefusedOnlyAtRoot
<1> QED
  BY <1>1, <1>2, <1>3, <1>5, <1>7

(* A change of one entry that leaves its mark, or sets it on the only entry there is. *)
LEMMA EntryKeeps ==
  ASSUME Bridge!TypeOK, Bridge!RefusedOnlyAtRoot, Bridge!Inside, NEW e \in Bridge!Entries, s2' = [s2 EXCEPT ![s3] = e],
         e.root => s3 = 1
  PROVE  /\ s2' \in Seq(Bridge!Entries) /\ Len(s2') = Len(s2) /\ s2'[s3] = e
         /\ Bridge!RefusedOnlyAtRoot'
  BY DEF Bridge!TypeOK, Bridge!RefusedOnlyAtRoot, Bridge!Inside

(* The entry at hand. *)
LEMMA HereIsEntry ==
  ASSUME Bridge!TypeOK, Bridge!RefusedOnlyAtRoot, Bridge!Inside
  PROVE  s3 \in 1..Len(s2) /\ s2[s3] \in Bridge!Entries /\ Bridge!Here = s2[s3] /\ (s2[s3].root => s3 = 1)
  BY DEF Bridge!TypeOK, Bridge!RefusedOnlyAtRoot, Bridge!Inside, Bridge!Here

(* Every step of the bridge keeps its invariant. *)
LEMMA BridgeStep == Bridge!BridgeInv /\ Bridge!Next => Bridge!BridgeInv'
<1> SUFFICES ASSUME Bridge!BridgeInv, Bridge!Next PROVE Bridge!BridgeInv'
  OBVIOUS
<1>0. Bridge!TypeOK /\ Bridge!RefusedOnlyAtRoot /\ Bridge!AddressInStep
  BY DEF Bridge!BridgeInv
<1>1. CASE Bridge!Install
  <2>1. Bridge!Inside
    BY <1>1 DEF Bridge!Install
  <2>2. PICK e \in Bridge!Entries : s2' = [s2 EXCEPT ![s3] = e] /\ e.path = s2[s3].path /\ (e.root => s3 = 1)
    <3>1. CASE Bridge!HistoryLength <= 1
      <4> DEFINE e == [s2[s3] EXCEPT !.root = TRUE]
      <4>1. e \in Bridge!Entries /\ e.path = s2[s3].path
        BY <1>0, <2>1, HereIsEntry DEF Bridge!Entries
      <4>2. s2' = [s2 EXCEPT ![s3] = e]
        BY <1>1, <3>1 DEF Bridge!Install
      <4>3. s3 = 1
        BY <1>0, <2>1, <3>1 DEF Bridge!HistoryLength, Bridge!TypeOK, Bridge!Inside
      <4> QED
        BY <4>1, <4>2, <4>3
    <3>2. CASE ~(Bridge!HistoryLength <= 1)
      <4>1. s2' = [s2 EXCEPT ![s3] = s2[s3]]
        BY <1>0, <1>1, <3>2 DEF Bridge!Install, Bridge!TypeOK
      <4> QED
        BY <1>0, <2>1, <4>1, HereIsEntry
    <3> QED
      BY <3>1, <3>2
  <2>3. s2' \in Seq(Bridge!Entries) /\ Len(s2') = Len(s2) /\ s2'[s3] = e /\ Bridge!RefusedOnlyAtRoot'
    BY <1>0, <2>1, <2>2, EntryKeeps
  <2>4. Bridge!AddressInStep'
    BY <1>1, <2>2, <2>3 DEF Bridge!Install, Bridge!AddressInStep, Bridge!Here
  <2> QED
    BY <1>0, <1>1, <2>3, <2>4 DEF Bridge!BridgeInv, Bridge!TypeOK, Bridge!Install
<1>2. CASE Bridge!HostMounts \/ Bridge!Hello \/ Bridge!HashChange \/ Bridge!Reload
  <2>1. UNCHANGED <<s1, s2, s3, s5>>
    BY <1>2 DEF Bridge!HostMounts, Bridge!Hello, Bridge!HashChange, Bridge!Reload
  <2>2. Bridge!TypeOK'
    BY <1>0, <1>2, <2>1 DEF Bridge!TypeOK, Bridge!HostMounts, Bridge!Hello, Bridge!HashChange, Bridge!Reload
  <2>3. Bridge!RefusedOnlyAtRoot'
    BY <1>0, <2>1 DEF Bridge!RefusedOnlyAtRoot
  <2>4. Bridge!AddressInStep'
    BY <1>0, <1>2, <2>1 DEF Bridge!AddressInStep, Bridge!Here, Bridge!HostMounts, Bridge!Hello, Bridge!HashChange, Bridge!Reload, Bridge!Reported, Bridge!Inside
  <2> QED
    BY <2>2, <2>3, <2>4 DEF Bridge!BridgeInv
<1>3. CASE Bridge!Push
  <2>1. PICK path \in Paths : Bridge!Pushed(Bridge!Entry(path, s2[s3].doc, FALSE)) /\ s8' = path
    BY <1>3 DEF Bridge!Push, Bridge!PushedRoot, Bridge!Here
  <2>2. Bridge!Inside /\ s2[s3].doc \in Nat
    BY <1>0, <1>3, HereIsEntry DEF Bridge!Push, Bridge!Entries
  <2>3. /\ s2' \in Seq(Bridge!Entries) /\ s3' \in 1..Len(s2') /\ s2'[s3'].path = path /\ Bridge!RefusedOnlyAtRoot'
    BY <1>0, <2>1, <2>2, PushKeeps
  <2> QED
    BY <1>0, <1>3, <2>1, <2>3 DEF Bridge!Push, Bridge!BridgeInv, Bridge!TypeOK, Bridge!AddressInStep, Bridge!Here
<1>4. CASE Bridge!HashLink
  <2>1. PICK path \in Paths : Bridge!Pushed(Bridge!Entry(path, s2[s3].doc, FALSE))
    BY <1>4 DEF Bridge!HashLink, Bridge!Here
  <2>2. Bridge!Inside /\ s2[s3].doc \in Nat
    BY <1>0, <1>4, HereIsEntry DEF Bridge!HashLink, Bridge!Entries
  <2>3. s2' \in Seq(Bridge!Entries) /\ s3' \in 1..Len(s2') /\ Bridge!RefusedOnlyAtRoot'
    BY <1>0, <2>1, <2>2, PushKeeps
  <2> QED
    BY <1>0, <1>4, <2>3 DEF Bridge!HashLink, Bridge!BridgeInv, Bridge!TypeOK, Bridge!AddressInStep
<1>5. CASE Bridge!Link
  <2>1. PICK path \in Paths : Bridge!Pushed(Bridge!Entry(path, Bridge!NewDoc, FALSE))
    BY <1>5 DEF Bridge!Link
  <2>2. Bridge!Inside /\ Bridge!NewDoc \in Nat
    BY <1>0, <1>5, NewDocIsNew DEF Bridge!Link, Bridge!TypeOK
  <2>3. s2' \in Seq(Bridge!Entries) /\ s3' \in 1..Len(s2') /\ Bridge!RefusedOnlyAtRoot'
    BY <1>0, <2>1, <2>2, PushKeeps
  <2>4. s4' \in BOOLEAN /\ ~s4' /\ s6' \in BOOLEAN /\ UNCHANGED <<s1, s5, s7>>
    BY <1>5 DEF Bridge!Link
  <2>5. Bridge!TypeOK' /\ Bridge!AddressInStep'
    BY <1>0, <2>3, <2>4 DEF Bridge!TypeOK, Bridge!AddressInStep
  <2> QED
    BY <2>3, <2>5 DEF Bridge!BridgeInv
<1>6. CASE Bridge!Replace
  <2>1. PICK path \in Paths : s2' = [s2 EXCEPT ![s3].path = path] /\ s8' = path
    BY <1>6 DEF Bridge!Replace
  <2>2. Bridge!Inside /\ UNCHANGED <<s1, s3, s4, s5, s6, s7>>
    BY <1>6 DEF Bridge!Replace
  <2> DEFINE e == [s2[s3] EXCEPT !.path = path]
  <2>3. e \in Bridge!Entries /\ e.path = path /\ (e.root => s3 = 1)
    BY <1>0, <2>2, HereIsEntry DEF Bridge!Entries
  <2>4. s2' = [s2 EXCEPT ![s3] = e]
    BY <2>1
  <2> HIDE DEF e
  <2>5. s2' \in Seq(Bridge!Entries) /\ Len(s2') = Len(s2) /\ s2'[s3] = e /\ Bridge!RefusedOnlyAtRoot'
    BY <1>0, <2>2, <2>3, <2>4, EntryKeeps
  <2>6. s8' = s2'[s3].path
    BY <2>1, <2>3, <2>5
  <2>7. Bridge!TypeOK'
    BY <1>0, <2>2, <2>5 DEF Bridge!TypeOK
  <2>8. Bridge!AddressInStep'
    BY <2>2, <2>6 DEF Bridge!AddressInStep, Bridge!Here
  <2> QED
    BY <2>5, <2>7, <2>8 DEF Bridge!BridgeInv
<1>7. CASE Bridge!HostBack \/ Bridge!HostForward
  <2>1. s5' \in Seq({"back", "forward"})
    <3>1. s5 \in Seq({"back", "forward"})
      BY <1>0 DEF Bridge!TypeOK
    <3>2. s5' = Append(s5, "back") \/ s5' = Append(s5, "forward")
      BY <1>7 DEF Bridge!HostBack, Bridge!HostForward, Bridge!Goes
    <3> QED
      BY <3>1, <3>2
  <2>2. UNCHANGED <<s1, s2, s3, s4, s6, s7, s8>>
    BY <1>7 DEF Bridge!HostBack, Bridge!HostForward, Bridge!Goes
  <2> QED
    BY <1>0, <2>1, <2>2 DEF Bridge!BridgeInv, Bridge!TypeOK, Bridge!RefusedOnlyAtRoot, Bridge!AddressInStep, Bridge!Here, Bridge!Inside
<1>8. CASE Bridge!Traverse
  <2>1. s5' \in Seq({"back", "forward"})
    BY <1>0, <1>8 DEF Bridge!Traverse, Bridge!TypeOK
  <2>2. Bridge!Inside /\ UNCHANGED <<s1, s2, s7>>
    BY <1>8 DEF Bridge!Traverse
  <2>3. PICK to \in {s3 - 1, s3 + 1} :
          IF to > Len(s2) \/ (to = 0 /\ s1 = 0) THEN UNCHANGED <<s3, s4, s6, s8>>
          ELSE /\ s3' = to
               /\ \/ s8' = (IF s4 THEN s2[to].path ELSE s8) /\ UNCHANGED <<s4, s6>> /\ to > 0
                  \/ s4' = FALSE /\ s6' = FALSE /\ UNCHANGED s8
    BY <1>8 DEF Bridge!Traverse
  <2>4. s3' \in 0..Len(s2) /\ s4' \in BOOLEAN /\ s6' \in BOOLEAN
    <3>1. s3 \in 1..Len(s2) /\ Len(s2) \in Nat /\ s4 \in BOOLEAN /\ s6 \in BOOLEAN
      BY <1>0, <2>2 DEF Bridge!TypeOK, Bridge!Inside
    <3>2. CASE to > Len(s2) \/ (to = 0 /\ s1 = 0)
      BY <2>3, <3>1, <3>2
    <3>3. CASE ~(to > Len(s2) \/ (to = 0 /\ s1 = 0))
      <4>1. to \in 0..Len(s2)
        BY <3>1, <3>3
      <4> QED
        BY <2>3, <3>1, <3>3, <4>1
    <3> QED
      BY <3>2, <3>3
  <2>5. Bridge!AddressInStep'
    BY <1>0, <2>2, <2>3 DEF Bridge!AddressInStep, Bridge!Here, Bridge!Inside
  <2> QED
    BY <1>0, <2>1, <2>2, <2>4, <2>5 DEF Bridge!BridgeInv, Bridge!TypeOK, Bridge!RefusedOnlyAtRoot
<1> QED
  BY <1>1, <1>2, <1>3, <1>4, <1>5, <1>6, <1>7, <1>8 DEF Bridge!Next

----------------------------------------------------------------------------
(* The room.  Of P2PRoom, s1 is room, s2 peer, s3 slots, s4 poll and s5     *)
(* relay; its invariant is that of P2PRoom_proofs.                         *)

RoomP == INSTANCE P2PRoom_proofs WITH
  room <- s1, peer <- s2, slots <- s3, poll <- s4, relay <- s5

(* The assumptions of the room are those of the run. *)
LEMMA RoomIsBounded == RoomP!RoomBounds
  BY RoomNumbers DEF RoomP!RoomBounds

(* A room starts in its invariant. *)
LEMMA RoomBegins == Room!Init => RoomP!BufferInv
<1>1. Room!Init => RoomP!Init
  BY DEF Room!Init, RoomP!Init, Room!Idle, RoomP!Idle
<1> QED
  BY <1>1, RoomIsBounded, RoomP!BuffersStart

(* Every step of the room keeps its invariant, and so does one that leaves the room alone. *)
LEMMA RoomGoesOn == RoomP!BufferInv /\ (Room!Next \/ UNCHANGED partVars) => RoomP!BufferInv'
<1>1. Room!Next => RoomP!Next
  BY DEF Room!Next, RoomP!Next, Room!Kinds, RoomP!Kinds, Room!Idle, RoomP!Idle, Room!NewSlot, RoomP!NewSlot, Room!Polite, RoomP!Polite,
     Room!Shut, RoomP!Shut, Room!Discarded, RoomP!Discarded, Room!Scheduled, RoomP!Scheduled, Room!Connect, RoomP!Connect,
     Room!Post, RoomP!Post, Room!Roster, RoomP!Roster, Room!TimerFires, RoomP!TimerFires, Room!Ended, RoomP!Ended,
     Room!FetchFails, RoomP!FetchFails, Room!Fetched, RoomP!Fetched, Room!PollEnds, RoomP!PollEnds, Room!Goes, RoomP!Goes,
     Room!Taken, RoomP!Taken, Room!Handle, RoomP!Handle, Room!Signal, RoomP!Signal, Room!Takes, RoomP!Takes,
     Room!RemoteSet, RoomP!RemoteSet, Room!MayRecreate, RoomP!MayRecreate, Room!RemoteRefused, RoomP!RemoteRefused, Room!Applied, RoomP!Applied,
     Room!Flushed, RoomP!Flushed, Room!LocalSet, RoomP!LocalSet, Room!Settled, RoomP!Settled, Room!Negotiate, RoomP!Negotiate,
     Room!Offered, RoomP!Offered, Room!MayBecome, RoomP!MayBecome, Room!Progressed, RoomP!Progressed, Room!StateChange, RoomP!StateChange,
     Room!DiesSilently, RoomP!DiesSilently, Room!Stalls, RoomP!Stalls, Room!Live, RoomP!Live, Room!Counted, RoomP!Counted,
     Room!Rebuilt, RoomP!Rebuilt, Room!Watchdog, RoomP!Watchdog, Room!Close, RoomP!Close, Room!OnPoll, RoomP!OnPoll,
     Room!OnSlot, RoomP!OnSlot
<1>2. UNCHANGED partVars => UNCHANGED RoomP!vars
  BY DEF partVars, RoomP!vars
<1> QED
  BY <1>1, <1>2, RoomIsBounded, RoomP!BufferStep

(* The promises of the room follow. *)
LEMMA RoomTells == RoomP!BufferInv => Room!PollingGoesOn /\ Room!OnePerPeer /\ Room!BufferIsFlushed
  BY DEF RoomP!BufferInv, RoomP!RoomInv, RoomP!PollingGoesOn, RoomP!Hangs, RoomP!OnePerPeer, RoomP!BufferIsFlushed,
     Room!PollingGoesOn, Room!Hangs, Room!OnePerPeer, Room!BufferIsFlushed

----------------------------------------------------------------------------
(* One part moves, the others rest.                                         *)

(* A step that is of another part leaves the invariants alone. *)
LEMMA ConnectorRests == Proxy!ConnectorInv /\ UNCHANGED partVars => Proxy!ConnectorInv'
  BY CallsRest DEF partVars, Proxy!ConnectorInv
(* The gate's session too. *)
LEMMA GateRests == Gate!GateInv /\ UNCHANGED partVars => Gate!GateInv'
  BY RequestsRest DEF partVars, Gate!GateInv, Gate!TypeOK
(* The page that signs in too. *)
LEMMA SignInRests == Sign!SignInInv /\ UNCHANGED partVars => Sign!SignInInv'
  BY DEF partVars, Sign!SignInInv, Sign!TypeOK, Sign!BeforeTheCall, Sign!CallAndWindow, Sign!MessageIsNew, Sign!DeployedPage,
     Sign!SignedOutIsOut, Sign!SignedInAnew, Sign!CompletedIsNotCancelled, Sign!Credential
(* The bridge too. *)
LEMMA BridgeRests == Bridge!BridgeInv /\ UNCHANGED partVars => Bridge!BridgeInv'
  BY DEF partVars, Bridge!BridgeInv, Bridge!TypeOK, Bridge!RefusedOnlyAtRoot, Bridge!AddressInStep, Bridge!Here, Bridge!Inside

----------------------------------------------------------------------------
(* Numbers, sets and recursion.                                             *)

(* A set of numbers has a least element. *)
LEMMA HasLeast == ASSUME NEW S \in SUBSET Nat, S # {} PROVE \E m \in S : \A k \in S : m <= k
<1>1. PICK m \in S : \A k \in S : ~(<<k, m>> \in OpToRel(<, Nat))
  BY NatLessThanWellFounded, WFMin
<1>2. ASSUME NEW k \in S PROVE m <= k
  <2>1. m \in Nat /\ k \in Nat
    OBVIOUS
  <2>2. k < m => <<k, m>> \in OpToRel(<, Nat)
    BY <2>1 DEF OpToRel
  <2>3. ~(k < m)
    BY <1>1, <2>2, Zenon
  <2> QED
    BY <2>1, <2>3
<1> QED
  BY <1>2

(* What holds at the start of an interval, and of the next number with each one, holds all along it. *)
LEMMA Climb ==
  ASSUME NEW a \in Int, NEW n \in Int, NEW S, a \in S, \A i \in (a + 1)..n : i - 1 \in S => i \in S
  PROVE  \A i \in a..n : i \in S
<1> SUFFICES ASSUME NEW x \in a..n, x \notin S PROVE FALSE
  OBVIOUS
<1> DEFINE U == {k \in 0..(n - a) : a + k \notin S}
<1>1. x - a \in U /\ U \in SUBSET Nat
  OBVIOUS
<1>2. PICK m \in U : \A k \in U : m <= k
  BY <1>1, HasLeast
<1>3. m \in 0..(n - a) /\ a + m \notin S
  OBVIOUS
<1>4. m # 0
  BY <1>3
<1>5. m - 1 \in 0..(n - a) /\ ~(m <= m - 1)
  BY <1>3, <1>4
<1>6. m - 1 \notin U
  <2> HIDE DEF U
  <2> QED
    BY <1>2, <1>5
<1>7. a + (m - 1) \in S
  BY <1>5, <1>6
<1>8. a + m \in (a + 1)..n /\ (a + m) - 1 = a + (m - 1)
  BY <1>3, <1>4
<1> QED
  BY <1>3, <1>7, <1>8

(* The same from zero on. *)
LEMMA ClimbUp ==
  ASSUME NEW n \in Nat, NEW S, 0 \in S, \A i \in 1..n : i - 1 \in S => i \in S
  PROVE  \A i \in 0..n : i \in S
<1>1. 0 + 1 = 1 /\ 0 \in Int /\ n \in Int
  OBVIOUS
<1>2. \A i \in (0 + 1)..n : i - 1 \in S => i \in S
  BY <1>1
<1> QED
  BY <1>1, <1>2, Climb

\* f starts with b and goes on as g says, each value from the one before it.
Unfolds(f, a, n, b, g) == f[a] = b /\ \A i \in (a + 1)..n : f[i] = g[i][f[i - 1]]

(* A recursion over an interval, each value from the one before it, has a solution. *)
LEMMA Recursion ==
  ASSUME NEW a \in Int, NEW n \in Int, NEW V, NEW b \in V, a <= n
  PROVE  \A g \in [(a + 1)..n -> [V -> V]] : \E f \in [a..n -> V] : Unfolds(f, a, n, b, g)
<1> SUFFICES ASSUME NEW g \in [(a + 1)..n -> [V -> V]]
             PROVE  \E f \in [a..n -> V] : f[a] = b /\ \A i \in (a + 1)..n : f[i] = g[i][f[i - 1]]
  BY DEF Unfolds
<1> DEFINE Upto(k, f) == f \in [a..k -> V] /\ f[a] = b /\ \A i \in (a + 1)..k : f[i] = g[i][f[i - 1]]
           S == {k \in a..n : \E f : Upto(k, f)}
<1>1. a \in S
  <2>1. Upto(a, [i \in a..a |-> b])
    OBVIOUS
  <2> HIDE DEF Upto
  <2> QED
    BY <2>1
<1>2. ASSUME NEW k \in (a + 1)..n, k - 1 \in S PROVE k \in S
  <2>1. PICK f : Upto(k - 1, f)
    BY <1>2
  <2>2. k - 1 \in a..(k - 1) /\ f[k - 1] \in V /\ g[k] \in [V -> V]
    BY <2>1
  <2> DEFINE v == g[k][f[k - 1]]
             h == [i \in a..k |-> IF i = k THEN v ELSE f[i]]
  <2>3. v \in V
    BY <2>2
  <2>4. \A i \in a..k : i # k => i \in a..(k - 1)
    OBVIOUS
  <2>5. h \in [a..k -> V]
    <3> HIDE DEF v
    <3> QED
      BY <2>1, <2>3, <2>4
  <2>6. a \in a..k /\ a # k
    OBVIOUS
  <2>7. h[a] = b
    BY <2>1, <2>6
  <2>8. ASSUME NEW i \in (a + 1)..k PROVE h[i] = g[i][h[i - 1]]
    <3>1. i \in a..k /\ i - 1 \in a..k /\ i - 1 # k
      OBVIOUS
    <3>2. h[i - 1] = f[i - 1]
      BY <3>1
    <3>3. CASE i = k
      BY <3>1, <3>2, <3>3
    <3>4. CASE i # k
      <4>1. i \in (a + 1)..(k - 1) /\ h[i] = f[i]
        BY <3>1, <3>4
      <4> HIDE DEF h
      <4> QED
        BY <2>1, <3>2, <4>1
    <3> QED
      BY <3>3, <3>4
  <2>9. Upto(k, h)
    <3> HIDE DEF h
    <3> QED
      BY <2>5, <2>7, <2>8
  <2> HIDE DEF Upto
  <2>10. k \in a..n
    OBVIOUS
  <2> QED
    BY <2>9, <2>10
<1>3. n \in S
  <2> HIDE DEF S
  <2>1. \A i \in a..n : i \in S
    BY <1>1, <1>2, Climb
  <2> QED
    BY <2>1
<1> QED
  BY <1>3

----------------------------------------------------------------------------
(* The research on a session.  Of PaperSession, s1 is market, s2 at, s3     *)
(* decisions, s4 saved and s5 runId.                                        *)

(* Neither strategy nor the risk policy has another target than flat and long. *)
LEMMA TargetsAreBits ==
  /\ \A window, class : \A prior \in {0, 1} : Paper!V1(window, class, prior) \in {0, 1}
  /\ \A prefix, class, before : \A prior \in {0, 1} : Paper!V2(prefix, class, before, prior) \in {0, 1}
  /\ \A window, drawdown : \A target \in {0, 1} : Paper!RiskTarget(target, window, drawdown) \in {0, 1}
  BY DEF Paper!V1, Paper!V2, Paper!RiskTarget

(* Cardinality as the instance of the session has it. *)
LEMMA PaperCounts == \A S : Paper!Cardinality(S) = Cardinality(S)
  BY DEF Paper!Cardinality, Cardinality

(* A session starts with nothing stored. *)
LEMMA SessionStarts == Paper!Init => Paper!SessionInv
<1> SUFFICES ASSUME Paper!Init PROVE Paper!SessionInv
  OBVIOUS
<1>1. s1 = <<>> /\ s2 = <<>> /\ s3 = <<>> /\ s4 = 0 /\ s5 = 1
  BY DEF Paper!Init
<1>2. <<>> \in Seq(Paper!Classes) /\ <<>> \in Seq(Nat) /\ <<>> \in Seq(Paper!Decisions) /\ DOMAIN <<>> = {}
  OBVIOUS
<1> QED
  BY <1>1, <1>2, SessionNumbers DEF Paper!SessionInv, Paper!TypeOK, Paper!now

\* The window of minute b, of the rows r that were there in it, and what a decision is made of.
WindowOf(r, b) == Paper!Slice(Paper!ContinuousPrefix(Paper!Stored(r, 2 * b), b), b)
Made(m, r, d) ==
  /\ d.bar \in 1..Len(m) /\ r[d.bar] = 2 * d.bar
  /\ d.count = Cardinality(WindowOf(r, d.bar))
  /\ d.proposed = Paper!V1(WindowOf(r, d.bar), m[d.bar], d.prior)
  /\ d.final = Paper!RiskTarget(d.proposed, WindowOf(r, d.bar), d.drawdown)
Sound(m, r, ds, kept, run) ==
  /\ m \in Seq(Paper!Classes) /\ Len(m) <= SessionMinutes
  /\ r \in Seq(Nat) /\ Len(r) = Len(m)
  /\ ds \in Seq(Paper!Decisions) /\ kept \in {0, 1} /\ run \in Nat
  /\ \A i \in 1..Len(ds) : Made(m, r, ds[i])

(* The invariant of the session, said of its state. *)
LEMMA SessionSays ==
  /\ Paper!SessionInv <=> Sound(s1, s2, s3, s4, s5)
  /\ Paper!SessionInv' <=> Sound(s1', s2', s3', s4', s5')
<1>1. \A ds \in Seq(Paper!Decisions) : DOMAIN ds = 1..Len(ds)
  OBVIOUS
<1>2. Paper!SessionInv <=> Sound(s1, s2, s3, s4, s5)
  BY <1>1, PaperCounts DEF Paper!SessionInv, Paper!TypeOK, Paper!now, Paper!MadeOf, Paper!Minutes, Paper!Live, Paper!Seen, Sound, Made, WindowOf
<1>3. Paper!SessionInv' <=> Sound(s1', s2', s3', s4', s5')
  BY <1>1, PaperCounts DEF Paper!SessionInv, Paper!TypeOK, Paper!now, Paper!MadeOf, Paper!Minutes, Paper!Live, Paper!Seen, Sound, Made, WindowOf
<1> QED
  BY <1>2, <1>3

(* A decision stays made of what it was while the bars and the rows of its time stay. *)
LEMMA MadeKeeps ==
  ASSUME NEW m, NEW r, NEW m2, NEW r2, NEW d, Made(m, r, d), Len(m) \in Nat, Len(m2) \in Nat, Len(m) <= Len(m2),
         m2[d.bar] = m[d.bar], r2[d.bar] = r[d.bar], Paper!Stored(r2, 2 * d.bar) = Paper!Stored(r, 2 * d.bar)
  PROVE  Made(m2, r2, d)
  BY DEF Made, WindowOf

(* What is stored after the minutes so far does not reach the rows of a time before. *)
LEMMA StoredKeeps ==
  ASSUME NEW r \in Seq(Nat), NEW x \in Nat, NEW b \in 1..Len(r), x = 0 \/ x > 2 * Len(r)
  PROVE  /\ Paper!Stored(Append(r, x), 2 * b) = Paper!Stored(r, 2 * b)
         /\ \A t \in 1..Len(r) : r[t] = 0 => Paper!Stored([r EXCEPT ![t] = x], 2 * b) = Paper!Stored(r, 2 * b)
<1>1. DOMAIN r = 1..Len(r) /\ DOMAIN Append(r, x) = 1..(Len(r) + 1) /\ Append(r, x)[Len(r) + 1] = x
  OBVIOUS
<1>2. \A u \in 1..Len(r) : Append(r, x)[u] = r[u]
  OBVIOUS
<1>3. ~(x # 0 /\ x <= 2 * b)
  OBVIOUS
<1>4. Paper!Stored(Append(r, x), 2 * b) = Paper!Stored(r, 2 * b)
  BY <1>1, <1>2, <1>3 DEF Paper!Stored, Paper!Never
<1>5. ASSUME NEW t \in 1..Len(r), r[t] = 0 PROVE Paper!Stored([r EXCEPT ![t] = x], 2 * b) = Paper!Stored(r, 2 * b)
  BY <1>1, <1>3, <1>5 DEF Paper!Stored, Paper!Never
<1> QED
  BY <1>4, <1>5

(* A window is a finite set of minutes. *)
LEMMA WindowsAreFinite ==
  ASSUME NEW r \in Seq(Nat), NEW time, NEW b \in Nat
  PROVE  /\ IsFiniteSet(Paper!ContinuousPrefix(Paper!Stored(r, time), b))
         /\ IsFiniteSet(Paper!Slice(Paper!ContinuousPrefix(Paper!Stored(r, time), b), b))
         /\ Cardinality(Paper!Slice(Paper!ContinuousPrefix(Paper!Stored(r, time), b), b)) \in Nat
<1>1. IsFiniteSet(1..Len(r)) /\ DOMAIN r = 1..Len(r)
  BY FS_Interval
<1>2. Paper!ContinuousPrefix(Paper!Stored(r, time), b) \subseteq 1..Len(r)
  BY <1>1 DEF Paper!ContinuousPrefix, Paper!Stored
<1>3. Paper!Slice(Paper!ContinuousPrefix(Paper!Stored(r, time), b), b) \subseteq 1..Len(r)
  BY <1>2 DEF Paper!Slice
<1> QED
  BY <1>1, <1>2, <1>3, FS_Subset, FS_CardinalityType

\* The decision of minute t, of the bars and rows so far.
Decided(r, t, class, kept, drawdown, run) ==
  LET window == WindowOf(Append(r, 2 * t), t)
      target == Paper!V1(window, class, kept)
  IN [bar |-> t, prior |-> kept, proposed |-> target, final |-> Paper!RiskTarget(target, window, drawdown),
      count |-> Cardinality(window), drawdown |-> drawdown, run |-> run]

(* A bar that reaches the worker: the older decisions stay as they are, the new one is made of what is there. *)
LEMMA LiveBarKeeps ==
  ASSUME NEW m, NEW r, NEW ds, NEW kept, NEW run, Sound(m, r, ds, kept, run),
         NEW class \in Paper!Classes, NEW drawdown \in BOOLEAN, NEW checkpointed \in BOOLEAN, NEW t, t = Len(m) + 1,
         t <= SessionMinutes, NEW e,
         e = Decided(r, t, class, kept, drawdown, run)
  PROVE  Sound(Append(m, class), Append(r, 2 * t), Append(ds, e),
           IF checkpointed THEN e.final ELSE kept, IF checkpointed THEN run ELSE run + 1)
<1> DEFINE received == Append(r, 2 * t)
           window == WindowOf(received, t)
           seen == Append(m, class)
           all == Append(ds, e)
<1>1. /\ m \in Seq(Paper!Classes) /\ r \in Seq(Nat) /\ Len(r) = Len(m) /\ Len(m) \in Nat
      /\ ds \in Seq(Paper!Decisions) /\ kept \in {0, 1} /\ run \in Nat /\ \A i \in 1..Len(ds) : Made(m, r, ds[i])
  BY DEF Sound
<1>2. t \in Nat /\ 2 * t \in Nat /\ 2 * t > 2 * Len(r)
  BY <1>1
<1>3. received \in Seq(Nat) /\ Len(received) = t /\ received[t] = 2 * t /\ \A u \in 1..Len(m) : received[u] = r[u]
  BY <1>1, <1>2
<1>4. seen \in Seq(Paper!Classes) /\ Len(seen) = t /\ seen[t] = class /\ \A u \in 1..Len(m) : seen[u] = m[u]
  BY <1>1
<1>5. Cardinality(window) \in Nat
  <2> HIDE DEF received
  <2> QED
    BY <1>2, <1>3, WindowsAreFinite DEF WindowOf
<1>6. \A u \in 1..Len(r) : Paper!Stored(received, 2 * u) = Paper!Stored(r, 2 * u)
  BY <1>1, <1>2, StoredKeeps
<1> HIDE DEF received, seen
<1>7. e.proposed \in {0, 1} /\ e.final \in {0, 1}
  <2> DEFINE p == Paper!V1(window, class, kept)
  <2>1. p \in {0, 1}
    BY <1>1, TargetsAreBits
  <2> HIDE DEF p
  <2>2. Paper!RiskTarget(p, window, drawdown) \in {0, 1}
    BY <2>1, TargetsAreBits
  <2> QED
    BY <2>1, <2>2 DEF p, received, Decided
<1>8. /\ e.bar = t /\ e.prior = kept /\ e.proposed = Paper!V1(window, class, kept)
      /\ e.final = Paper!RiskTarget(e.proposed, window, drawdown) /\ e.count = Cardinality(window)
      /\ e.drawdown = drawdown /\ e.run = run
      /\ e = [bar |-> e.bar, prior |-> e.prior, proposed |-> e.proposed, final |-> e.final, count |-> e.count,
              drawdown |-> e.drawdown, run |-> e.run]
  BY DEF received, Decided
<1>9. e \in Paper!Decisions
  BY <1>1, <1>2, <1>5, <1>7, <1>8 DEF Paper!Decisions
<1>10. Made(seen, received, e)
  <2>1. e.bar = t /\ t \in 1..Len(seen) /\ received[t] = 2 * t
    BY <1>2, <1>3, <1>4, <1>8
  <2>2. /\ e.count = Cardinality(WindowOf(received, e.bar))
        /\ e.proposed = Paper!V1(WindowOf(received, e.bar), seen[e.bar], e.prior)
        /\ e.final = Paper!RiskTarget(e.proposed, WindowOf(received, e.bar), e.drawdown)
    <3>1. seen[e.bar] = class /\ WindowOf(received, e.bar) = window
      BY <1>4, <2>1
    <3> HIDE DEF window
    <3> QED
      BY <1>8, <3>1
  <2> QED
    BY <2>1, <2>2 DEF Made
<1>11. ASSUME NEW i \in 1..Len(ds) PROVE Made(seen, received, ds[i])
  <2>1. Made(m, r, ds[i]) /\ ds[i].bar \in 1..Len(m) /\ Len(seen) \in Nat /\ Len(m) <= Len(seen)
    BY <1>1, <1>2, <1>4 DEF Made
  <2> QED
    BY <1>1, <1>3, <1>4, <1>6, <2>1, MadeKeeps
<1>12. all \in Seq(Paper!Decisions) /\ Len(all) = Len(ds) + 1 /\ all[Len(ds) + 1] = e /\ \A i \in 1..Len(ds) : all[i] = ds[i]
  BY <1>1, <1>9
<1>13. \A i \in 1..Len(all) : Made(seen, received, all[i])
  <2> SUFFICES ASSUME NEW i \in 1..(Len(ds) + 1) PROVE Made(seen, received, all[i])
    BY <1>12
  <2>1. CASE i = Len(ds) + 1
    BY <1>10, <1>12, <2>1
  <2>2. CASE i \in 1..Len(ds)
    BY <1>11, <1>12, <2>2
  <2> QED
    BY <1>1, <2>1, <2>2
<1> DEFINE k == IF checkpointed THEN e.final ELSE kept
           rr == IF checkpointed THEN run ELSE run + 1
<1>14. k \in {0, 1} /\ rr \in Nat
  BY <1>1, <1>7
<1> HIDE DEF all, k, rr
<1>15. Sound(seen, received, all, k, rr)
  BY <1>3, <1>4, <1>12, <1>13, <1>14 DEF Sound
<1> QED
  BY <1>15 DEF seen, received, all, k, rr

(* A bar that never reached the worker, and one that a recovery stores later, change no decision. *)
LEMMA OtherBarsKeep ==
  ASSUME NEW m, NEW r, NEW ds, NEW kept, NEW run, Sound(m, r, ds, kept, run)
  PROVE  /\ \A class \in Paper!Classes :
              Len(m) < SessionMinutes => Sound(Append(m, class), Append(r, 0), ds, kept, run)
         /\ \A t \in 1..Len(m) : r[t] = 0 => Sound(m, [r EXCEPT ![t] = 2 * Len(m) + 1], ds, kept, run)
<1>1. /\ m \in Seq(Paper!Classes) /\ r \in Seq(Nat) /\ Len(r) = Len(m) /\ Len(m) \in Nat
      /\ ds \in Seq(Paper!Decisions) /\ kept \in {0, 1} /\ run \in Nat /\ \A i \in 1..Len(ds) : Made(m, r, ds[i])
  BY DEF Sound
<1>2. ASSUME NEW i \in 1..Len(ds) PROVE ds[i].bar \in 1..Len(m) /\ r[ds[i].bar] = 2 * ds[i].bar
  BY <1>1 DEF Made
<1>3. ASSUME NEW class \in Paper!Classes, Len(m) < SessionMinutes
      PROVE  Sound(Append(m, class), Append(r, 0), ds, kept, run)
  <2> DEFINE seen == Append(m, class)
             received == Append(r, 0)
  <2>1. seen \in Seq(Paper!Classes) /\ Len(seen) = Len(m) + 1 /\ \A u \in 1..Len(m) : seen[u] = m[u]
    BY <1>1
  <2>2. received \in Seq(Nat) /\ Len(received) = Len(m) + 1 /\ \A u \in 1..Len(m) : received[u] = r[u]
    BY <1>1
  <2>3. \A u \in 1..Len(r) : Paper!Stored(received, 2 * u) = Paper!Stored(r, 2 * u)
    BY <1>1, StoredKeeps
  <2> HIDE DEF seen, received
  <2>4. ASSUME NEW i \in 1..Len(ds) PROVE Made(seen, received, ds[i])
    <3> DEFINE b == ds[i].bar
    <3>1. b \in 1..Len(m) /\ Made(m, r, ds[i]) /\ Len(r) = Len(m) /\ Len(m) \in Nat
      BY <1>1, <1>2
    <3>2. Len(seen) \in Nat /\ Len(m) <= Len(seen)
      BY <2>1, <3>1
    <3>3. received[b] = r[b] /\ seen[b] = m[b] /\ Paper!Stored(received, 2 * b) = Paper!Stored(r, 2 * b)
      <4> HIDE DEF b
      <4> QED
        BY <2>1, <2>2, <2>3, <3>1
    <3> QED
      BY <3>1, <3>2, <3>3, MadeKeeps
  <2>5. Len(seen) <= SessionMinutes
    BY <1>1, <1>3, <2>1, SessionNumbers
  <2>6. Sound(seen, received, ds, kept, run)
    BY <1>1, <2>1, <2>2, <2>4, <2>5 DEF Sound
  <2> QED
    BY <2>6 DEF seen, received
<1>4. ASSUME NEW t \in 1..Len(m), r[t] = 0 PROVE Sound(m, [r EXCEPT ![t] = 2 * Len(m) + 1], ds, kept, run)
  <2> DEFINE x == 2 * Len(m) + 1
             received == [r EXCEPT ![t] = x]
  <2>1. x \in Nat /\ x > 2 * Len(r)
    BY <1>1
  <2> HIDE DEF x
  <2>2. received \in Seq(Nat) /\ Len(received) = Len(m) /\ \A u \in 1..Len(m) : u # t => received[u] = r[u]
    BY <1>1, <2>1
  <2>3. \A u \in 1..Len(r) : Paper!Stored(received, 2 * u) = Paper!Stored(r, 2 * u)
    <3>1. r \in Seq(Nat) /\ t \in 1..Len(r) /\ r[t] = 0
      BY <1>1, <1>4
    <3> QED
      BY <2>1, <3>1, StoredKeeps
  <2> HIDE DEF received
  <2>4. ASSUME NEW i \in 1..Len(ds) PROVE Made(m, received, ds[i])
    <3>1. ds[i].bar # t
      BY <1>2, <1>4
    <3> DEFINE b == ds[i].bar
    <3>2. b \in 1..Len(m) /\ Made(m, r, ds[i]) /\ Len(r) = Len(m) /\ Len(m) \in Nat /\ Len(m) <= Len(m)
      BY <1>1, <1>2
    <3>3. received[b] = r[b] /\ Paper!Stored(received, 2 * b) = Paper!Stored(r, 2 * b)
      <4> HIDE DEF b
      <4> QED
        BY <2>2, <2>3, <3>1, <3>2 DEF b
    <3> QED
      BY <3>2, <3>3, MadeKeeps
  <2>5. Sound(m, received, ds, kept, run)
    BY <1>1, <2>2, <2>4 DEF Sound
  <2> QED
    BY <2>5 DEF received, x
<1> QED
  BY <1>3, <1>4

(* Every step of the session keeps its invariant. *)
LEMMA SessionStep == Paper!SessionInv /\ Paper!Next => Paper!SessionInv'
<1> SUFFICES ASSUME Sound(s1, s2, s3, s4, s5), Paper!Next PROVE Sound(s1', s2', s3', s4', s5')
  BY SessionSays
<1>0. Len(s1) \in Nat /\ DOMAIN s1 = 1..Len(s1)
  BY DEF Sound
<1>1. ASSUME NEW class \in Paper!Classes, Paper!MissedBar(class) PROVE Sound(s1', s2', s3', s4', s5')
  <2>1. /\ Len(s1) < SessionMinutes /\ s1' = Append(s1, class) /\ s2' = Append(s2, 0)
        /\ s3' = s3 /\ s4' = s4 /\ s5' = s5
    BY <1>1 DEF Paper!MissedBar, Paper!now, Paper!Never
  <2> QED
    BY <2>1, OtherBarsKeep
<1>2. ASSUME NEW class \in Paper!Classes, NEW d \in BOOLEAN, NEW c \in BOOLEAN, Paper!LiveBar(class, d, c)
      PROVE  Sound(s1', s2', s3', s4', s5')
  <2> DEFINE t == Len(s1) + 1
             e == Decided(s2, t, class, s4, d, s5)
  <2>1. /\ t <= SessionMinutes /\ s1' = Append(s1, class) /\ s2' = Append(s2, 2 * t) /\ s3' = Append(s3, e)
        /\ s4' = (IF c THEN e.final ELSE s4) /\ s5' = (IF c THEN s5 ELSE s5 + 1)
    BY <1>2, PaperCounts DEF Paper!LiveBar, Paper!now, Paper!Live, WindowOf, Decided
  <2> HIDE DEF e
  <2>2. e = Decided(s2, t, class, s4, d, s5)
    BY DEF e
  <2> HIDE DEF t
  <2>3. t = Len(s1) + 1
    BY DEF t
  <2> QED
    BY <2>1, <2>2, <2>3, LiveBarKeeps
<1>3. ASSUME NEW t \in Paper!Minutes, Paper!Backfill(t) PROVE Sound(s1', s2', s3', s4', s5')
  <2>1. t \in 1..Len(s1) /\ s2[t] = 0 /\ s2' = [s2 EXCEPT ![t] = 2 * Len(s1) + 1]
    BY <1>3 DEF Paper!Backfill, Paper!Minutes, Paper!now, Paper!Never, Paper!Between
  <2>2. s1' = s1 /\ s3' = s3 /\ s4' = s4 /\ s5' = s5
    BY <1>3 DEF Paper!Backfill
  <2> QED
    BY <2>1, <2>2, OtherBarsKeep
<1> QED
  BY <1>1, <1>2, <1>3 DEF Paper!Next

(* A session that rests keeps its invariant. *)
LEMMA SessionRests == Paper!SessionInv /\ UNCHANGED partVars => Paper!SessionInv'
<1>1. UNCHANGED partVars => s1' = s1 /\ s2' = s2 /\ s3' = s3 /\ s4' = s4 /\ s5' = s5
  BY DEF partVars
<1> QED
  BY <1>1, SessionSays

----------------------------------------------------------------------------
(* The frozen session.                                                      *)

(* An export holds decisions of the session, from its first minute on, and the rows that they may have seen. *)
LEMMA ExportSays ==
  ASSUME Sound(s1, s2, s3, s4, s5), NEW first \in 1..Len(s1), NEW run \in Nat
  PROVE  /\ Paper!Export(first, run).decisions \in Seq({d \in Paper!Decisions : d.bar >= first /\ Made(s1, s2, d)})
         /\ Paper!Export(first, run).received =
              [t \in 1..Len(s1) |-> IF t + SessionWidth < first THEN 0 ELSE s2[t]]
<1> DEFINE n == Len(s3)
           E == {d \in Paper!Decisions : d.bar >= first /\ Made(s1, s2, d)}
           V == Seq(E)
           asked(d) == d.bar >= first /\ (run = 0 \/ d.run = run)
           Rows(f) == f = [i \in 0..n |-> IF i = 0 THEN <<>> ELSE IF asked(s3[i]) THEN Append(f[i - 1], s3[i]) ELSE f[i - 1]]
           rows == CHOOSE f : Rows(f)
           g == [i \in (0 + 1)..n |-> [v \in V |-> IF asked(s3[i]) THEN Append(v, s3[i]) ELSE v]]
<1>1. /\ Paper!Export(first, run).decisions = rows[n]
      /\ Paper!Export(first, run).received = [t \in 1..Len(s1) |-> IF t + SessionWidth < first THEN 0 ELSE s2[t]]
  BY DEF Paper!Export, Paper!Minutes, Paper!now, Paper!Never
<1>2. n \in Nat /\ \A i \in 1..n : asked(s3[i]) => s3[i] \in E
  BY DEF Sound
<1>3. \A v \in V : \A i \in 1..n : asked(s3[i]) => Append(v, s3[i]) \in V
  <2> HIDE DEF E, asked
  <2> QED
    BY <1>2
<1>4. <<>> \in V
  <2> HIDE DEF E
  <2> QED
    OBVIOUS
<1> HIDE DEF asked, V
<1>5. g \in [(0 + 1)..n -> [V -> V]]
  BY <1>3
<1> HIDE DEF n
<1>6. PICK f \in [0..n -> V] : f[0] = <<>> /\ \A i \in (0 + 1)..n : f[i] = g[i][f[i - 1]]
  <2>1. PICK f \in [0..n -> V] : Unfolds(f, 0, n, <<>>, g)
    <3>1. 0 \in Int /\ n \in Int /\ 0 <= n
      BY <1>2
    <3> HIDE DEF g
    <3> QED
      BY <1>4, <1>5, <3>1, Recursion
  <2> HIDE DEF g
  <2> QED
    BY <2>1 DEF Unfolds
<1>7. \A i \in 1..n : i - 1 \in 0..n /\ i # 0 /\ i \in 0..n
  BY <1>2
<1>8. Rows(f)
  <2>1. \A i \in 1..n : f[i] = IF asked(s3[i]) THEN Append(f[i - 1], s3[i]) ELSE f[i - 1]
    <3> SUFFICES ASSUME NEW i \in 1..n
                 PROVE  f[i] = IF asked(s3[i]) THEN Append(f[i - 1], s3[i]) ELSE f[i - 1]
      OBVIOUS
    <3>1. f[i - 1] \in V /\ i \in (0 + 1)..n
      BY <1>6, <1>7
    <3>2. g[i][f[i - 1]] = IF asked(s3[i]) THEN Append(f[i - 1], s3[i]) ELSE f[i - 1]
      BY <3>1
    <3> HIDE DEF g
    <3> QED
      BY <1>6, <3>1, <3>2
  <2>2. \A i \in 0..n : i = 0 \/ i \in 1..n
    BY <1>2
  <2> QED
    BY <1>6, <2>1, <2>2
<1>9. Rows(rows)
  <2> HIDE DEF Rows
  <2> QED
    BY <1>8
<1> DEFINE S == {i \in 0..n : rows[i] \in V}
<1>10. rows[0] = <<>> /\ \A i \in 1..n : rows[i] = IF asked(s3[i]) THEN Append(rows[i - 1], s3[i]) ELSE rows[i - 1]
  <2> HIDE DEF rows
  <2>1. rows = [i \in 0..n |-> IF i = 0 THEN <<>> ELSE IF asked(s3[i]) THEN Append(rows[i - 1], s3[i]) ELSE rows[i - 1]]
    BY <1>9
  <2>2. 0 \in 0..n
    BY <1>2
  <2> QED
    BY <1>7, <2>1, <2>2
<1> HIDE DEF rows
<1>11. 0 \in S /\ \A i \in 1..n : i - 1 \in S => i \in S
  BY <1>2, <1>3, <1>4, <1>7, <1>10
<1>12. n \in S
  <2> HIDE DEF S
  <2>1. \A i \in 0..n : i \in S
    BY <1>2, <1>11, ClimbUp
  <2> QED
    BY <1>2, <2>1
<1> QED
  BY <1>1, <1>12 DEF V

\* The rows that an export from minute first on has of r.
Exported(r, first) == [t \in 1..Len(r) |-> IF t + SessionWidth < first THEN 0 ELSE r[t]]

(* The rows that an export leaves out belong to no window of its decisions. *)
LEMMA WindowKept ==
  ASSUME NEW r \in Seq(Nat), NEW first \in Nat, NEW b \in Nat, b >= first
  PROVE  WindowOf(Exported(r, first), b) = WindowOf(r, b)
<1> DEFINE q == Exported(r, first)
           R == Paper!Stored(r, 2 * b)
           Q == Paper!Stored(q, 2 * b)
<1>1. DOMAIN r = 1..Len(r) /\ Len(r) \in Nat /\ SessionWidth \in Nat
  BY SessionNumbers
<1>2. Q = {t \in R : ~(t + SessionWidth < first)}
  BY <1>1 DEF Paper!Stored, Paper!Never, Exported
<1>3. R \subseteq 1..Len(r)
  BY <1>1 DEF Paper!Stored
<1> HIDE DEF Q, R, q
<1>4. ASSUME NEW u \in Nat, u + SessionWidth > b PROVE u..b \subseteq Q <=> u..b \subseteq R
  <2>1. \A t \in u..b : ~(t + SessionWidth < first)
    BY <1>1, <1>4
  <2> QED
    BY <1>2, <2>1
<1>5. ASSUME NEW u \in Nat, u + SessionWidth > b PROVE u \in Q <=> u \in R
  BY <1>1, <1>2, <1>5
<1>6. {u \in {v \in Q : v <= b /\ v..b \subseteq Q} : u + SessionWidth > b}
        = {u \in {v \in R : v <= b /\ v..b \subseteq R} : u + SessionWidth > b}
  <2>1. R \subseteq Nat
    BY <1>1, <1>3
  <2>2. Q \subseteq Nat
    BY <1>2, <2>1
  <2> QED
    BY <1>4, <1>5, <2>1, <2>2
<1> QED
  BY <1>6 DEF WindowOf, Paper!Slice, Paper!ContinuousPrefix, Q, R, q

\* The replay rep of the decisions of x makes decision i again, and is asked if it is as it was.
Replays(x, rep, i) ==
  LET d == x.decisions[i]
      window == WindowOf(s2, d.bar)
  IN /\ rep[i].proposed = Paper!V1(window, s1[d.bar], IF i = 1 THEN d.prior ELSE rep[i - 1].target)
     /\ rep[i].target = Paper!RiskTarget(rep[i].proposed, window, d.drawdown)
     /\ Paper!SignalParity(x)[i] <=>
          /\ i > 1 => d.bar = x.decisions[i - 1].bar + 1 /\ d.prior = rep[i - 1].target
          /\ rep[i].proposed = d.proposed /\ rep[i].target = d.final

(* What the replay of an export does, decision by decision, and when it finds a decision as it was. *)
LEMMA ParitySays ==
  ASSUME Sound(s1, s2, s3, s4, s5), NEW first \in 1..Len(s1), NEW run \in Nat, NEW x, x = Paper!Export(first, run)
  PROVE  \E rep : \A i \in 1..Len(x.decisions) : Replays(x, rep, i)
<1> DEFINE ds == x.decisions
           n == Len(ds)
           win(d) == Paper!Slice(Paper!ContinuousPrefix(Paper!Stored(x.received, 2 * d.bar), d.bar), d.bar)
           next(i, prior) == Paper!V1(win(ds[i]), s1[ds[i].bar], prior)
           from(i, v) == IF i = 1 THEN ds[i].prior ELSE v.target
           made(i, v) == [proposed |-> next(i, from(i, v)),
                          target |-> Paper!RiskTarget(next(i, from(i, v)), win(ds[i]), ds[i].drawdown)]
           start == [prior |-> 0, target |-> 0]
           V == [prior : {0}, target : {0}] \cup [proposed : {0, 1}, target : {0, 1}]
           Rep(f) == f = [i \in 0..n |-> IF i = 0 THEN start ELSE made(i, f[i - 1])]
           rep == CHOOSE f : Rep(f)
           g == [i \in (0 + 1)..n |-> [v \in V |-> made(i, v)]]
<1>1. /\ ds \in Seq({d \in Paper!Decisions : d.bar >= first /\ Made(s1, s2, d)})
      /\ x.received = [t \in 1..Len(s1) |-> IF t + SessionWidth < first THEN 0 ELSE s2[t]]
  BY ExportSays
<1>2. /\ n \in Nat /\ DOMAIN ds = 1..n
      /\ \A i \in 1..n : ds[i] \in Paper!Decisions /\ ds[i].bar >= first /\ Made(s1, s2, ds[i])
  BY <1>1
<1>3. ASSUME NEW i \in 1..n
      PROVE  /\ win(ds[i]) = WindowOf(s2, ds[i].bar) /\ ds[i].count = Cardinality(WindowOf(s2, ds[i].bar))
             /\ ds[i].prior \in {0, 1}
  <2>1. ds[i].bar \in Nat /\ first \in Nat /\ s2 \in Seq(Nat) /\ Len(s2) = Len(s1) /\ ds[i].bar >= first
    BY <1>2 DEF Paper!Decisions, Sound
  <2>2. WindowOf(x.received, ds[i].bar) = WindowOf(s2, ds[i].bar)
    <3> DEFINE b == ds[i].bar
    <3>1. x.received = Exported(s2, first)
      BY <1>1, <2>1 DEF Exported
    <3>2. b \in Nat /\ b >= first /\ s2 \in Seq(Nat) /\ first \in Nat
      BY <2>1
    <3> HIDE DEF b
    <3>3. WindowOf(Exported(s2, first), b) = WindowOf(s2, b)
      BY <3>2, WindowKept
    <3> QED
      BY <3>1, <3>3 DEF b
  <2> QED
    BY <1>2, <2>2 DEF WindowOf, Made, Paper!Decisions
<1>4. Paper!SignalParity(x) =
        [i \in DOMAIN ds |->
          /\ ds[i].count = Cardinality(win(ds[i]))
          /\ i > 1 => ds[i].bar = ds[i - 1].bar + 1 /\ ds[i].prior = rep[i - 1].target
          /\ rep[i].proposed = ds[i].proposed /\ rep[i].target = ds[i].final]
  BY Zenon, PaperCounts DEF Paper!SignalParity, Paper!Available, Paper!Live
<1>5. start \in V
  OBVIOUS
<1>6. ASSUME NEW i \in 1..n, NEW v \in V PROVE made(i, v) \in V
  <2>1. v.target \in {0, 1}
    OBVIOUS
  <2>2. from(i, v) \in {0, 1}
    BY <1>3, <2>1
  <2> HIDE DEF from
  <2>3. next(i, from(i, v)) \in {0, 1}
    BY <2>2, TargetsAreBits
  <2> HIDE DEF next
  <2>4. Paper!RiskTarget(next(i, from(i, v)), win(ds[i]), ds[i].drawdown) \in {0, 1}
    BY <2>3, TargetsAreBits
  <2> QED
    BY <2>3, <2>4
<1> HIDE DEF start, made, V, n
<1>7. g \in [(0 + 1)..n -> [V -> V]]
  BY <1>6
<1>8. \A i \in 1..n : i - 1 \in 0..n /\ i # 0 /\ i \in 0..n /\ i \in (0 + 1)..n
  BY <1>2
<1>9. PICK f \in [0..n -> V] : f[0] = start /\ \A i \in (0 + 1)..n : f[i] = g[i][f[i - 1]]
  <2>1. PICK f \in [0..n -> V] : Unfolds(f, 0, n, start, g)
    <3>1. 0 \in Int /\ n \in Int /\ 0 <= n
      BY <1>2
    <3> HIDE DEF g
    <3> QED
      BY <1>5, <1>7, <3>1, Recursion
  <2> HIDE DEF g
  <2> QED
    BY <2>1 DEF Unfolds
<1>10. Rep(f)
  <2>1. ASSUME NEW i \in 1..n PROVE f[i] = made(i, f[i - 1])
    <3>1. f[i - 1] \in V /\ i \in (0 + 1)..n
      BY <1>8, <1>9
    <3>2. g[i][f[i - 1]] = made(i, f[i - 1])
      BY <3>1
    <3> HIDE DEF g
    <3> QED
      BY <1>9, <3>1, <3>2
  <2>2. \A i \in 0..n : i = 0 \/ i \in 1..n
    BY <1>2
  <2> QED
    BY <1>9, <2>1, <2>2
<1>11. Rep(rep)
  <2> HIDE DEF Rep
  <2> QED
    BY <1>10
<1>12. \A i \in 1..n : rep[i] = made(i, rep[i - 1])
  <2> HIDE DEF rep
  <2>1. rep = [i \in 0..n |-> IF i = 0 THEN start ELSE made(i, rep[i - 1])]
    BY <1>11
  <2> QED
    BY <1>8, <2>1
<1> HIDE DEF rep
<1>13. ASSUME NEW i \in 1..n PROVE Replays(x, rep, i)
  <2>1. /\ rep[i].proposed = next(i, from(i, rep[i - 1]))
        /\ rep[i].target = Paper!RiskTarget(next(i, from(i, rep[i - 1])), win(ds[i]), ds[i].drawdown)
    <3>1. rep[i] = made(i, rep[i - 1])
      BY <1>12
    <3> DEFINE p == next(i, from(i, rep[i - 1]))
               q == Paper!RiskTarget(p, win(ds[i]), ds[i].drawdown)
    <3>2. made(i, rep[i - 1]) = [proposed |-> p, target |-> q]
      BY DEF made
    <3> HIDE DEF p, q
    <3>3. rep[i].proposed = p /\ rep[i].target = q
      BY <3>1, <3>2
    <3> QED
      BY <3>3 DEF p, q
  <2>2. win(ds[i]) = WindowOf(s2, ds[i].bar) /\ ds[i].count = Cardinality(win(ds[i]))
    BY <1>3
  <2>3. Paper!SignalParity(x)[i] <=>
          /\ ds[i].count = Cardinality(win(ds[i]))
          /\ i > 1 => ds[i].bar = ds[i - 1].bar + 1 /\ ds[i].prior = rep[i - 1].target
          /\ rep[i].proposed = ds[i].proposed /\ rep[i].target = ds[i].final
    BY <1>2, <1>4
  <2>4. ds[i] = x.decisions[i] /\ ds[i - 1] = x.decisions[i - 1]
    OBVIOUS
  <2> HIDE DEF ds, win
  <2> QED
    BY <2>1, <2>2, <2>3, <2>4 DEF Replays
<1> QED
  BY <1>13 DEF n

(* Every session that can be exported is one of the lemmas above. *)
LEMMA SessionsAre ==
  ASSUME NEW x \in Paper!Sessions
  PROVE  \E first \in 1..Len(s1), run \in 0..s5 : x = Paper!Export(first, run)
  BY DEF Paper!Sessions, Paper!Minutes, Paper!now

(* Parity is found exactly where each decision starts from the one of the minute before. *)
LEMMA ParityHolds == Sound(s1, s2, s3, s4, s5) => Paper!ParityIsExact
<1> SUFFICES ASSUME Sound(s1, s2, s3, s4, s5), NEW x \in Paper!Sessions
             PROVE  (\A i \in DOMAIN x.decisions : Paper!SignalParity(x)[i])
                      <=> \A i \in 2..Len(x.decisions) :
                            /\ x.decisions[i].bar = x.decisions[i - 1].bar + 1
                            /\ x.decisions[i].prior = x.decisions[i - 1].final
  BY DEF Paper!ParityIsExact
<1> DEFINE ds == x.decisions
           n == Len(ds)
<1>1. PICK first \in 1..Len(s1), run \in Nat : x = Paper!Export(first, run)
  BY SessionsAre DEF Sound
<1>2. ds \in Seq({d \in Paper!Decisions : d.bar >= first /\ Made(s1, s2, d)})
  BY <1>1, ExportSays
<1>3. n \in Nat /\ DOMAIN ds = 1..n /\ \A i \in 1..n : Made(s1, s2, ds[i])
  BY <1>2
<1>4. PICK rep : \A i \in 1..n : Replays(x, rep, i)
  BY <1>1, ParitySays
<1>5. ASSUME NEW i \in 1..n
      PROVE  /\ rep[i].proposed = Paper!V1(WindowOf(s2, ds[i].bar), s1[ds[i].bar],
                                           IF i = 1 THEN ds[i].prior ELSE rep[i - 1].target)
             /\ rep[i].target = Paper!RiskTarget(rep[i].proposed, WindowOf(s2, ds[i].bar), ds[i].drawdown)
             /\ Paper!SignalParity(x)[i] <=>
                  /\ i > 1 => ds[i].bar = ds[i - 1].bar + 1 /\ ds[i].prior = rep[i - 1].target
                  /\ rep[i].proposed = ds[i].proposed /\ rep[i].target = ds[i].final
  <2>1. Replays(x, rep, i)
    BY <1>4
  <2> QED
    BY <2>1 DEF Replays
<1>6. ASSUME NEW i \in 1..n
      PROVE  /\ ds[i].proposed = Paper!V1(WindowOf(s2, ds[i].bar), s1[ds[i].bar], ds[i].prior)
             /\ ds[i].final = Paper!RiskTarget(ds[i].proposed, WindowOf(s2, ds[i].bar), ds[i].drawdown)
  BY <1>3 DEF Made
<1> HIDE DEF ds, n
<1>7. ASSUME \A i \in 1..n : Paper!SignalParity(x)[i]
      PROVE  \A i \in 2..n : ds[i].bar = ds[i - 1].bar + 1 /\ ds[i].prior = ds[i - 1].final
  <2> SUFFICES ASSUME NEW i \in 2..n PROVE ds[i].bar = ds[i - 1].bar + 1 /\ ds[i].prior = ds[i - 1].final
    OBVIOUS
  <2>1. i \in 1..n /\ i - 1 \in 1..n /\ i > 1
    BY <1>3
  <2> QED
    BY <1>5, <1>7, <2>1
<1>8. ASSUME \A i \in 2..n : ds[i].bar = ds[i - 1].bar + 1 /\ ds[i].prior = ds[i - 1].final
      PROVE  \A i \in 1..n : Paper!SignalParity(x)[i]
  <2> DEFINE S == {i \in 0..n : i # 0 => rep[i].proposed = ds[i].proposed /\ rep[i].target = ds[i].final}
  <2>1. 0 \in S
    BY <1>3
  <2>2. ASSUME NEW i \in 1..n, i - 1 \in S PROVE i \in S /\ Paper!SignalParity(x)[i]
    <3>1. CASE i = 1
      <4>1. rep[i].proposed = ds[i].proposed
        BY <1>5, <1>6, <3>1
      <4>2. rep[i].target = ds[i].final
        BY <1>5, <1>6, <4>1
      <4> QED
        BY <1>3, <1>5, <3>1, <4>1, <4>2
    <3>2. CASE i # 1
      <4>1. i \in 2..n /\ i - 1 # 0 /\ i - 1 \in 0..n
        BY <1>3, <3>2
      <4>2. ds[i].prior = rep[i - 1].target /\ ds[i].bar = ds[i - 1].bar + 1
        BY <1>8, <2>2, <4>1
      <4>3. rep[i].proposed = ds[i].proposed
        BY <1>5, <1>6, <3>2, <4>2
      <4>4. rep[i].target = ds[i].final
        BY <1>5, <1>6, <4>3
      <4> QED
        BY <1>3, <1>5, <4>2, <4>3, <4>4
    <3> QED
      BY <3>1, <3>2
  <2>3. \A i \in 0..n : i \in S
    <3> HIDE DEF S
    <3> QED
      BY <1>3, <2>1, <2>2, ClimbUp
  <2>4. \A i \in 1..n : i - 1 \in 0..n
    BY <1>3
  <2> QED
    BY <2>2, <2>3, <2>4
<1> QED
  BY <1>3, <1>7, <1>8 DEF ds, n

----------------------------------------------------------------------------
(* The comparison of the strategies.                                        *)

\* The minutes of a session, the rows of its bars, and those that end at one of them without a gap.
FirstBar(x) == x.decisions[1].bar
LastBar(x) == x.decisions[Len(x.decisions)].bar
PrefixOf(x, t) == Paper!ContinuousPrefix(Paper!Stored(x.received, 2 * SessionMinutes + 1), t)
\* What a strategy makes of minute t after target v.
Decides(strategy, x, t, v) ==
  IF strategy = "v1" THEN Paper!V1(Paper!Slice(PrefixOf(x, t), t), s1[t], v)
  ELSE Paper!V2(PrefixOf(x, t), s1[t], IF t - 1 \in PrefixOf(x, t) THEN s1[t - 1] ELSE "none", v)

(* The targets of a strategy: flat at first, then each of what it makes of its minute. *)
LEMMA TargetsSay ==
  ASSUME NEW x, NEW strategy, FirstBar(x) \in Nat, LastBar(x) \in Nat, FirstBar(x) <= LastBar(x)
  PROVE  /\ Paper!Targets(strategy, x) \in [(FirstBar(x) - 1)..LastBar(x) -> {0, 1}]
         /\ Paper!Targets(strategy, x)[FirstBar(x) - 1] = 0
         /\ \A t \in FirstBar(x)..LastBar(x) :
              Paper!Targets(strategy, x)[t] = Decides(strategy, x, t, Paper!Targets(strategy, x)[t - 1])
<1> DEFINE a == FirstBar(x)
           b == LastBar(x)
           V == {0, 1}
           decides(t, v) == Decides(strategy, x, t, v)
           Is(f) == f = [t \in (a - 1)..b |-> IF t < a THEN 0 ELSE decides(t, f[t - 1])]
           T == CHOOSE f : Is(f)
           g == [t \in ((a - 1) + 1)..b |-> [v \in V |-> decides(t, v)]]
<1>1. Paper!Targets(strategy, x) = T
  BY DEF Paper!Targets, Paper!Between, FirstBar, LastBar, Decides, PrefixOf
<1>2. a \in Nat /\ b \in Nat /\ a <= b
  OBVIOUS
<1>3. \A t : \A v \in V : decides(t, v) \in V
  BY TargetsAreBits DEF Decides
<1> HIDE DEF decides, a, b
<1>4. g \in [((a - 1) + 1)..b -> [V -> V]]
  BY <1>3
<1>5. /\ \A t \in a..b : t - 1 \in (a - 1)..b /\ t \in (a - 1)..b /\ t \in ((a - 1) + 1)..b /\ ~(t < a)
      /\ a - 1 \in (a - 1)..b /\ a - 1 < a
      /\ \A t \in (a - 1)..b : t = a - 1 \/ t \in a..b
  BY <1>2
<1>6. PICK f \in [(a - 1)..b -> V] : f[a - 1] = 0 /\ \A t \in ((a - 1) + 1)..b : f[t] = g[t][f[t - 1]]
  <2>1. PICK f \in [(a - 1)..b -> V] : Unfolds(f, a - 1, b, 0, g)
    <3>1. a - 1 \in Int /\ b \in Int /\ a - 1 <= b /\ 0 \in V
      BY <1>2
    <3> HIDE DEF g, V
    <3> QED
      BY <1>4, <3>1, Recursion
  <2> HIDE DEF g, V
  <2> QED
    BY <2>1 DEF Unfolds
<1>7. Is(f)
  <2>1. ASSUME NEW t \in a..b PROVE f[t] = decides(t, f[t - 1])
    <3>1. f[t - 1] \in V /\ t \in ((a - 1) + 1)..b
      BY <1>5, <1>6
    <3>2. g[t][f[t - 1]] = decides(t, f[t - 1])
      BY <3>1
    <3> HIDE DEF g
    <3> QED
      BY <1>6, <3>1, <3>2
  <2> QED
    BY <1>5, <1>6, <2>1
<1>8. Is(T)
  <2> HIDE DEF Is
  <2> QED
    BY <1>7
<1> HIDE DEF T
<1>9. T[a - 1] = 0 /\ \A t \in a..b : T[t] = decides(t, T[t - 1])
  <2>1. T = [t \in (a - 1)..b |-> IF t < a THEN 0 ELSE decides(t, T[t - 1])]
    BY <1>8
  <2> QED
    BY <1>5, <2>1
<1> DEFINE S == {t \in (a - 1)..b : T[t] \in V}
<1>10. a - 1 \in S /\ \A t \in ((a - 1) + 1)..b : t - 1 \in S => t \in S
  <2>1. ((a - 1) + 1)..b = a..b
    BY <1>2
  <2>2. a - 1 \in S
    BY <1>5, <1>9
  <2>3. ASSUME NEW t \in a..b, t - 1 \in S PROVE t \in S
    BY <1>3, <1>5, <1>9, <2>3
  <2> QED
    BY <2>1, <2>2, <2>3
<1>11. \A t \in (a - 1)..b : t \in S
  <2>1. a - 1 \in Int /\ b \in Int
    BY <1>2
  <2> HIDE DEF S
  <2> QED
    BY <1>10, <2>1, Climb
<1>12. T \in [(a - 1)..b -> V]
  <2>1. T = [t \in (a - 1)..b |-> IF t < a THEN 0 ELSE decides(t, T[t - 1])]
    BY <1>8
  <2> QED
    BY <1>11, <2>1
<1> QED
  BY <1>1, <1>9, <1>12 DEF a, b, decides

\* Where f changes, after a and up to k.
Flips(f, a, k) == {t \in (a + 1)..k : f[t] # f[t - 1]}

(* Each step adds its change, if it is one. *)
LEMMA FlipsGrow ==
  ASSUME NEW a \in Int, NEW f
  PROVE  /\ Cardinality(Flips(f, a, a)) = 0
         /\ \A k \in Int : IsFiniteSet(Flips(f, a, k)) /\ Cardinality(Flips(f, a, k)) \in Nat
         /\ \A k \in Int : k > a =>
              Cardinality(Flips(f, a, k)) =
                Cardinality(Flips(f, a, k - 1)) + (IF f[k] # f[k - 1] THEN 1 ELSE 0)
<1>1. Flips(f, a, a) = {}
  BY DEF Flips
<1>2. ASSUME NEW k \in Int PROVE IsFiniteSet(Flips(f, a, k)) /\ Cardinality(Flips(f, a, k)) \in Nat
  <2>1. IsFiniteSet((a + 1)..k) /\ Flips(f, a, k) \subseteq (a + 1)..k
    BY FS_Interval DEF Flips
  <2> QED
    BY <2>1, FS_Subset, FS_CardinalityType
<1>3. ASSUME NEW k \in Int, k > a
      PROVE  Cardinality(Flips(f, a, k)) = Cardinality(Flips(f, a, k - 1)) + (IF f[k] # f[k - 1] THEN 1 ELSE 0)
  <2>1. k \notin Flips(f, a, k - 1)
    BY DEF Flips
  <2>2. CASE f[k] # f[k - 1]
    <3>1. Flips(f, a, k) = Flips(f, a, k - 1) \cup {k}
      <4>1. \A t : t \in (a + 1)..k <=> t \in (a + 1)..(k - 1) \/ t = k
        BY <1>3
      <4> QED
        BY <2>2, <4>1 DEF Flips
    <3>2. IsFiniteSet(Flips(f, a, k - 1)) /\ Cardinality(Flips(f, a, k - 1)) \in Nat
      BY <1>2
    <3>3. Cardinality(Flips(f, a, k - 1) \cup {k}) = Cardinality(Flips(f, a, k - 1)) + 1
      BY <2>1, <3>2, FS_AddElement
    <3> QED
      BY <2>2, <3>1, <3>3
  <2>3. CASE f[k] = f[k - 1]
    <3>1. Flips(f, a, k) = Flips(f, a, k - 1)
      <4>1. \A t : t \in (a + 1)..k <=> t \in (a + 1)..(k - 1) \/ t = k
        BY <1>3
      <4> QED
        BY <2>3, <4>1 DEF Flips
    <3>2. Cardinality(Flips(f, a, k - 1)) \in Nat
      BY <1>2
    <3> QED
      BY <2>3, <3>1, <3>2
  <2> QED
    BY <2>2, <2>3
<1> QED
  BY <1>1, <1>2, <1>3, FS_EmptySet

(* Of two targets that start alike, one that changes only to where the other one is changes no more often: from where
   they agree to where it changes again, the other one has changed. *)
LEMMA Damped ==
  ASSUME NEW a \in Int, NEW n \in Int, a <= n, NEW f \in [a..n -> {0, 1}], NEW h \in [a..n -> {0, 1}], f[a] = h[a],
         \A t \in (a + 1)..n : h[t] # h[t - 1] => f[t] = h[t]
  PROVE  Cardinality(Flips(h, a, n)) <= Cardinality(Flips(f, a, n))
<1> DEFINE F(k) == Cardinality(Flips(f, a, k))
           H(k) == Cardinality(Flips(h, a, k))
           S == {k \in a..n : H(k) + (IF f[k] = h[k] THEN 0 ELSE 1) <= F(k)}
<1>1. F(a) = 0 /\ H(a) = 0 /\ \A k \in Int : F(k) \in Nat /\ H(k) \in Nat
  BY FlipsGrow
<1>2. ASSUME NEW k \in Int, k > a
      PROVE  /\ F(k) = F(k - 1) + (IF f[k] # f[k - 1] THEN 1 ELSE 0)
             /\ H(k) = H(k - 1) + (IF h[k] # h[k - 1] THEN 1 ELSE 0)
  BY <1>2, FlipsGrow
<1> HIDE DEF F, H
<1>3. a \in S
  BY <1>1
<1>4. ASSUME NEW k \in (a + 1)..n, k - 1 \in S PROVE k \in S
  <2>1. k > a /\ k \in Int /\ k - 1 \in Int /\ k \in a..n /\ k - 1 \in a..n
    OBVIOUS
  <2>2. f[k] \in {0, 1} /\ f[k - 1] \in {0, 1} /\ h[k] \in {0, 1} /\ h[k - 1] \in {0, 1}
    BY <2>1
  <2>3. F(k - 1) \in Nat /\ H(k - 1) \in Nat
    BY <1>1, <2>1
  <2>4. h[k] # h[k - 1] => f[k] = h[k]
    OBVIOUS
  <2>5. H(k - 1) + (IF f[k - 1] = h[k - 1] THEN 0 ELSE 1) <= F(k - 1)
    BY <1>4
  <2>6. /\ F(k) = F(k - 1) + (IF f[k] # f[k - 1] THEN 1 ELSE 0)
        /\ H(k) = H(k - 1) + (IF h[k] # h[k - 1] THEN 1 ELSE 0)
    BY <1>2, <2>1
  <2>7. H(k) + (IF f[k] = h[k] THEN 0 ELSE 1) <= F(k)
    BY <2>2, <2>3, <2>4, <2>5, <2>6
  <2> QED
    BY <2>1, <2>7
<1>5. n \in S
  <2> HIDE DEF S
  <2>1. \A k \in a..n : k \in S
    BY <1>3, <1>4, Climb
  <2> QED
    BY <2>1
<1>6. H(n) <= F(n)
  <2>1. H(n) \in Nat /\ F(n) \in Nat /\ H(n) + (IF f[n] = h[n] THEN 0 ELSE 1) <= F(n)
    BY <1>1, <1>5
  <2> QED
    BY <2>1
<1> QED
  BY <1>6 DEF F, H

(* The rows of an export are numbers, its runs are some. *)
LEMMA ReceivedIsSeq ==
  ASSUME Sound(s1, s2, s3, s4, s5), NEW x \in Paper!Sessions
  PROVE  x.received \in Seq(Nat)
<1>1. PICK first \in 1..Len(s1), run \in Nat : x = Paper!Export(first, run)
  BY SessionsAre DEF Sound
<1>2. x.received = [t \in 1..Len(s1) |-> IF t + SessionWidth < first THEN 0 ELSE s2[t]]
  BY <1>1, ExportSays
<1>3. Len(s1) \in Nat /\ \A t \in 1..Len(s1) : s2[t] \in Nat
  BY DEF Sound
<1> QED
  BY <1>2, <1>3

(* Whoever has enough bars for the second strategy has enough of them in the window of the first. *)
LEMMA SliceIsLong ==
  ASSUME NEW r \in Seq(Nat), NEW time, NEW t \in Nat,
         Cardinality(Paper!ContinuousPrefix(Paper!Stored(r, time), t)) >= FeatureBars + 1
  PROVE  Cardinality(Paper!Slice(Paper!ContinuousPrefix(Paper!Stored(r, time), t), t)) >= FeatureBars
<1> DEFINE R == Paper!Stored(r, time)
           P == Paper!ContinuousPrefix(R, t)
           L == Paper!Slice(P, t)
<1>1. IsFiniteSet(L) /\ Cardinality(L) \in Nat
  BY WindowsAreFinite
<1>2. FeatureBars \in Nat /\ SessionWidth \in Nat /\ FeatureBars <= SessionWidth
  BY SessionNumbers
<1>3. R \subseteq Nat
  <2>1. DOMAIN r = 1..Len(r) /\ Len(r) \in Nat
    OBVIOUS
  <2> QED
    BY <2>1 DEF Paper!Stored
<1>4. CASE \A u \in P : u + SessionWidth > t
  <2>1. L = P
    BY <1>4 DEF Paper!Slice
  <2> HIDE DEF L, P
  <2>2. Cardinality(P) >= FeatureBars + 1
    BY DEF P
  <2>3. Cardinality(L) >= FeatureBars
    BY <1>1, <1>2, <2>1, <2>2
  <2> QED
    BY <2>3 DEF L, P
<1>5. ASSUME NEW u \in P, ~(u + SessionWidth > t) PROVE Cardinality(L) >= FeatureBars
  <2> DEFINE I == ((t - SessionWidth) + 1)..t
  <2>1. u \in Nat /\ u <= t /\ u..t \subseteq R
    BY <1>3 DEF Paper!ContinuousPrefix
  <2>2. \A v \in I : v \in u..t /\ v..t \subseteq u..t /\ v + SessionWidth > t /\ v <= t
    BY <1>2, <1>5, <2>1
  <2>3. I \subseteq L
    <3> HIDE DEF I, R
    <3> QED
      BY <2>1, <2>2 DEF Paper!ContinuousPrefix, Paper!Slice
  <2>4. Cardinality(I) = SessionWidth
    <3>1. (t - SessionWidth) + 1 \in Int /\ t \in Int
      BY <1>2
    <3>2. Cardinality(I) = IF (t - SessionWidth) + 1 > t THEN 0 ELSE (t - ((t - SessionWidth) + 1)) + 1
      BY <3>1, FS_Interval
    <3> QED
      BY <1>2, <3>2
  <2>5. Cardinality(I) <= Cardinality(L)
    <3> HIDE DEF I, L
    <3> QED
      BY <1>1, <2>3, FS_Subset
  <2> HIDE DEF I, L
  <2> QED
    BY <1>1, <1>2, <2>4, <2>5
<1> QED
  BY <1>4, <1>5

(* Where the second strategy changes its target, the first one takes the same target whatever it had before, and
   an entry of the second has a strong bar of its own minute. *)
LEMMA ChangesAgree ==
  ASSUME Sound(s1, s2, s3, s4, s5), NEW x \in Paper!Sessions, NEW t \in Nat, NEW v \in {0, 1}, NEW w \in {0, 1},
         Decides("v2", x, t, v) # v
  PROVE  /\ Decides("v1", x, t, w) = Decides("v2", x, t, v)
         /\ Decides("v2", x, t, v) = 1 =>
              s1[t] = "strong" /\ Cardinality(PrefixOf(x, t)) >= FeatureBars
<1> DEFINE P == PrefixOf(x, t)
           L == Paper!Slice(P, t)
           before == IF t - 1 \in P THEN s1[t - 1] ELSE "none"
<1>1. x.received \in Seq(Nat)
  BY ReceivedIsSeq
<1>2. Cardinality(P) >= FeatureBars + 1 => Cardinality(L) >= FeatureBars
  BY <1>1, SliceIsLong DEF PrefixOf
<1>3. Cardinality(P) \in Nat /\ Cardinality(L) \in Nat /\ FeatureBars \in Nat
  BY <1>1, WindowsAreFinite, FS_CardinalityType, SessionNumbers DEF PrefixOf
<1>4. /\ Decides("v2", x, t, v) = Paper!V2(P, s1[t], before, v)
      /\ Decides("v1", x, t, w) = Paper!V1(L, s1[t], w)
  BY DEF Decides
<1> HIDE DEF P, L, before
<1>5. /\ Paper!V2(P, s1[t], before, v) =
           IF Cardinality(P) < FeatureBars + 1 THEN v
           ELSE IF v = 1 THEN (IF s1[t] = "down" THEN 0 ELSE 1)
           ELSE IF s1[t] = "strong" /\ before = "strong" THEN 1 ELSE 0
      /\ Paper!V1(L, s1[t], w) =
           IF Cardinality(L) < FeatureBars \/ s1[t] = "neutral" THEN w
           ELSE IF s1[t] \in {"strong", "weak"} THEN 1 ELSE 0
  BY PaperCounts DEF Paper!V1, Paper!V2
<1> QED
  BY <1>2, <1>3, <1>4, <1>5 DEF P

(* A session that passed has a first minute and a last one. *)
LEMMA PassedSays ==
  ASSUME Sound(s1, s2, s3, s4, s5), NEW x \in Paper!Sessions, Paper!Passed(x)
  PROVE  FirstBar(x) \in Nat /\ LastBar(x) \in Nat /\ FirstBar(x) <= LastBar(x)
<1> DEFINE ds == x.decisions
           n == Len(ds)
<1>1. PICK first \in 1..Len(s1), run \in Nat : x = Paper!Export(first, run)
  BY SessionsAre DEF Sound
<1>2. ds \in Seq({d \in Paper!Decisions : d.bar >= first /\ Made(s1, s2, d)})
  BY <1>1, ExportSays
<1>3. n \in Nat /\ DOMAIN ds = 1..n /\ \A i \in 1..n : ds[i].bar \in Nat
  BY <1>2 DEF Paper!Decisions
<1>4. n # 0
  BY <1>2 DEF Paper!Passed
<1>5. \A i \in 2..n : ds[i].bar = ds[i - 1].bar + 1
  BY ParityHolds DEF Paper!Passed, Paper!ParityIsExact
<1> HIDE DEF ds, n
<1> DEFINE S == {i \in 1..n : ds[1].bar <= ds[i].bar}
<1>6. 1 \in S
  BY <1>3, <1>4
<1>7. ASSUME NEW i \in (1 + 1)..n, i - 1 \in S PROVE i \in S
  <2>1. i \in 2..n /\ i \in 1..n /\ i - 1 \in 1..n /\ 1 \in 1..n
    BY <1>3, <1>4
  <2>2. ds[1].bar \in Nat /\ ds[i].bar \in Nat /\ ds[i - 1].bar \in Nat /\ ds[i].bar = ds[i - 1].bar + 1
    BY <1>3, <1>5, <2>1
  <2> QED
    BY <1>7, <2>1, <2>2
<1>8. n \in S
  <2>1. 1 \in Int /\ n \in Int /\ n \in 1..n
    BY <1>3, <1>4
  <2> HIDE DEF S
  <2>2. \A i \in 1..n : i \in S
    BY <1>6, <1>7, <2>1, Climb
  <2> QED
    BY <2>1, <2>2
<1> QED
  BY <1>3, <1>4, <1>8 DEF FirstBar, LastBar, ds, n

(* The targets of both strategies over a session that passed. *)
LEMMA BothTargets ==
  ASSUME Sound(s1, s2, s3, s4, s5), NEW x \in Paper!Sessions, Paper!Passed(x), NEW a, a = FirstBar(x) - 1,
         NEW b, b = LastBar(x), NEW f, f = Paper!Targets("v1", x), NEW h, h = Paper!Targets("v2", x)
  PROVE  /\ a \in Int /\ b \in Int /\ a <= b /\ a + 1 = FirstBar(x) /\ a + 1 \in Nat
         /\ f \in [a..b -> {0, 1}] /\ h \in [a..b -> {0, 1}] /\ f[a] = 0 /\ h[a] = 0
         /\ \A t \in (a + 1)..b : h[t] # h[t - 1] =>
              /\ f[t] = h[t]
              /\ h[t] = 1 => s1[t] = "strong" /\ Cardinality(PrefixOf(x, t)) >= FeatureBars
<1>1. FirstBar(x) \in Nat /\ LastBar(x) \in Nat /\ FirstBar(x) <= LastBar(x)
  BY PassedSays
<1>2. a \in Int /\ b \in Int /\ a <= b /\ a + 1 = FirstBar(x) /\ a + 1 \in Nat
  BY <1>1
<1>3. f \in [a..b -> {0, 1}] /\ f[a] = 0 /\ \A t \in (a + 1)..b : f[t] = Decides("v1", x, t, f[t - 1])
  BY <1>1, <1>2, TargetsSay
<1>4. h \in [a..b -> {0, 1}] /\ h[a] = 0 /\ \A t \in (a + 1)..b : h[t] = Decides("v2", x, t, h[t - 1])
  BY <1>1, <1>2, TargetsSay
<1>5. ASSUME NEW t \in (a + 1)..b, h[t] # h[t - 1]
      PROVE  /\ f[t] = h[t]
             /\ h[t] = 1 => s1[t] = "strong" /\ Cardinality(PrefixOf(x, t)) >= FeatureBars
  <2>1. t - 1 \in a..b /\ t \in Nat
    BY <1>2
  <2>2. f[t - 1] \in {0, 1} /\ h[t - 1] \in {0, 1}
    BY <1>3, <1>4, <2>1
  <2>3. f[t] = Decides("v1", x, t, f[t - 1]) /\ h[t] = Decides("v2", x, t, h[t - 1])
    BY <1>3, <1>4
  <2> QED
    BY <1>5, <2>1, <2>2, <2>3, ChangesAgree
<1> QED
  BY <1>2, <1>3, <1>4, <1>5

(* The second strategy changes its target no more often than the first. *)
LEMMA DampsHolds == Sound(s1, s2, s3, s4, s5) => Paper!HysteresisDamps
<1> SUFFICES ASSUME Sound(s1, s2, s3, s4, s5), NEW x \in Paper!Sessions, Paper!Passed(x)
             PROVE  Paper!SignalFlips("v2", x) <= Paper!SignalFlips("v1", x)
  BY DEF Paper!HysteresisDamps
<1> DEFINE a == FirstBar(x) - 1
           b == LastBar(x)
           f == Paper!Targets("v1", x)
           h == Paper!Targets("v2", x)
<1>1. /\ a \in Int /\ b \in Int /\ a <= b /\ f \in [a..b -> {0, 1}] /\ h \in [a..b -> {0, 1}] /\ f[a] = h[a]
      /\ \A t \in (a + 1)..b : h[t] # h[t - 1] => f[t] = h[t]
  BY BothTargets
<1>2. Paper!SignalFlips("v1", x) = Cardinality({t \in DOMAIN f : t - 1 \in DOMAIN f /\ f[t] # f[t - 1]})
  BY PaperCounts DEF Paper!SignalFlips
<1>3. Paper!SignalFlips("v2", x) = Cardinality({t \in DOMAIN h : t - 1 \in DOMAIN h /\ h[t] # h[t - 1]})
  BY PaperCounts DEF Paper!SignalFlips
<1> HIDE DEF a, b, f, h
<1>4. \A t : t \in a..b /\ t - 1 \in a..b <=> t \in (a + 1)..b
  BY <1>1
<1>5. {t \in DOMAIN f : t - 1 \in DOMAIN f /\ f[t] # f[t - 1]} = Flips(f, a, b)
  BY <1>1, <1>4 DEF Flips
<1>6. {t \in DOMAIN h : t - 1 \in DOMAIN h /\ h[t] # h[t - 1]} = Flips(h, a, b)
  BY <1>1, <1>4 DEF Flips
<1> QED
  BY <1>1, <1>2, <1>3, <1>5, <1>6, Damped

(* No entry of the second strategy is filled on the strength of an older bar. *)
LEMMA EntriesHold == Sound(s1, s2, s3, s4, s5) => Paper!NoWeakEntry
<1> SUFFICES ASSUME Sound(s1, s2, s3, s4, s5), NEW x \in Paper!Sessions, Paper!Passed(x)
             PROVE  Paper!WeakEntries("v2", x) = {}
  BY DEF Paper!NoWeakEntry
<1> DEFINE a == FirstBar(x) - 1
           b == LastBar(x)
           h == Paper!Targets("v2", x)
<1>1. /\ a \in Int /\ b \in Int /\ h \in [a..b -> {0, 1}]
      /\ \A t \in (a + 1)..b : h[t] # h[t - 1] =>
           (h[t] = 1 => s1[t] = "strong" /\ Cardinality(PrefixOf(x, t)) >= FeatureBars)
  BY BothTargets
<1>2. Paper!WeakEntries("v2", x) =
        {t \in {u \in DOMAIN h : {u - 2, u - 1} \subseteq DOMAIN h /\ h[u - 1] = 1 /\ h[u - 2] = 0} :
           ~(Cardinality(PrefixOf(x, t - 1)) >= FeatureBars /\ s1[t - 1] = "strong")}
  BY PaperCounts DEF Paper!WeakEntries, Paper!Between, PrefixOf
<1> HIDE DEF a, b, h
<1>3. ASSUME NEW t \in DOMAIN h, t - 2 \in DOMAIN h, t - 1 \in DOMAIN h, h[t - 1] = 1, h[t - 2] = 0
      PROVE  Cardinality(PrefixOf(x, t - 1)) >= FeatureBars /\ s1[t - 1] = "strong"
  <2>1. t - 1 \in (a + 1)..b /\ (t - 1) - 1 = t - 2
    BY <1>1, <1>3
  <2>2. h[t - 1] # h[(t - 1) - 1]
    BY <1>3, <2>1
  <2> QED
    BY <1>1, <1>3, <2>1, <2>2
<1> QED
  BY <1>2, <1>3

----------------------------------------------------------------------------
(* The fills and their round trips.  Of PaperFills, s1 is history, s2       *)
(* stored and s3 lost.                                                      *)

FillRows == [id : Nat, before : Nat, after : Nat, time : Nat]
\* The history of the broker: each fill starts where the one before it left, no earlier than it, and moves the position.
Chained(h) ==
  /\ h \in Seq(FillRows)
  /\ \A i \in 1..Len(h) : h[i].id = i /\ h[i].after # h[i].before
  /\ \A i \in 2..Len(h) : h[i].before = h[i - 1].after /\ h[i - 1].time <= h[i].time
RangeOf(s) == {s[i] : i \in 1..Len(s)}

(* The invariant of the fills, said of their state. *)
LEMMA FillsSay ==
  /\ Fills!FillsInv <=> Chained(s1) /\ s2 \in Seq(RangeOf(s1)) /\ s3 \subseteq Nat
  /\ Fills!FillsInv' <=> Chained(s1') /\ s2' \in Seq(RangeOf(s1')) /\ s3' \subseteq Nat
<1>1. \A h \in Seq(FillRows) : DOMAIN h = 1..Len(h)
  OBVIOUS
<1>2. \A h \in Seq(FillRows) : \A i : i \in 1..Len(h) /\ i > 1 <=> i \in 2..Len(h)
  OBVIOUS
<1>3. ASSUME NEW h \in Seq(FillRows)
      PROVE  (\A i \in DOMAIN h :
                /\ h[i].id = i /\ h[i].after # h[i].before
                /\ i > 1 => h[i].before = h[i - 1].after /\ h[i - 1].time <= h[i].time)
               <=> Chained(h)
  BY <1>1, <1>2 DEF Chained
<1>4. \A h : Chained(h) => h \in Seq(FillRows)
  BY DEF Chained
<1>5. \A h \in Seq(FillRows) : {h[i] : i \in DOMAIN h} = RangeOf(h)
  BY <1>1 DEF RangeOf
<1>6. Fills!FillsInv <=> Chained(s1) /\ s2 \in Seq(RangeOf(s1)) /\ s3 \subseteq Nat
  <2>1. Fills!TypeOK <=> s1 \in Seq(FillRows) /\ s2 \in Seq({s1[i] : i \in DOMAIN s1}) /\ s3 \subseteq Nat
    BY DEF Fills!TypeOK, Fills!Fills, FillRows
  <2> QED
    BY <1>3, <1>4, <1>5, <2>1 DEF Fills!FillsInv
<1>7. Fills!FillsInv' <=> Chained(s1') /\ s2' \in Seq(RangeOf(s1')) /\ s3' \subseteq Nat
  <2>1. Fills!TypeOK' <=> s1' \in Seq(FillRows) /\ s2' \in Seq({s1'[i] : i \in DOMAIN s1'}) /\ s3' \subseteq Nat
    BY DEF Fills!TypeOK, Fills!Fills, FillRows
  <2> QED
    BY <1>3, <1>4, <1>5, <2>1 DEF Fills!FillsInv
<1> QED
  BY <1>6, <1>7

(* Nothing is filled at first. *)
LEMMA FillsStart == Fills!Init => Fills!FillsInv
<1> SUFFICES ASSUME Fills!Init PROVE Chained(s1) /\ s2 \in Seq(RangeOf(s1)) /\ s3 \subseteq Nat
  BY FillsSay
<1>1. s1 = <<>> /\ s2 = <<>> /\ s3 = {}
  BY DEF Fills!Init
<1> QED
  BY <1>1 DEF Chained

(* The next fill of the broker goes on where the last one left. *)
LEMMA FillKeeps ==
  ASSUME NEW h, Chained(h), NEW e \in FillRows, e.id = Len(h) + 1, e.after # e.before,
         h # <<>> => e.before = h[Len(h)].after /\ h[Len(h)].time <= e.time
  PROVE  Chained(Append(h, e)) /\ RangeOf(h) \subseteq RangeOf(Append(h, e))
<1>1. h \in Seq(FillRows) /\ Len(h) \in Nat
  BY DEF Chained
<1> DEFINE k == Append(h, e)
<1>2. k \in Seq(FillRows) /\ Len(k) = Len(h) + 1 /\ k[Len(h) + 1] = e /\ \A i \in 1..Len(h) : k[i] = h[i]
  BY <1>1
<1> HIDE DEF k
<1>3. ASSUME NEW i \in 1..Len(k) PROVE k[i].id = i /\ k[i].after # k[i].before
  BY <1>1, <1>2 DEF Chained
<1>4. ASSUME NEW i \in 2..Len(k) PROVE k[i].before = k[i - 1].after /\ k[i - 1].time <= k[i].time
  <2>1. CASE i = Len(h) + 1
    <3>1. h # <<>> /\ i - 1 = Len(h) /\ Len(h) \in 1..Len(h)
      BY <1>1, <1>2, <2>1
    <3> QED
      BY <1>2, <2>1, <3>1
  <2>2. CASE i # Len(h) + 1
    <3>1. i \in 2..Len(h) /\ i \in 1..Len(h) /\ i - 1 \in 1..Len(h)
      BY <1>1, <1>2, <2>2
    <3> QED
      BY <1>2, <3>1 DEF Chained
  <2> QED
    BY <2>1, <2>2
<1>5. RangeOf(h) \subseteq RangeOf(k)
  <2>1. 1..Len(h) \subseteq 1..Len(k)
    BY <1>1, <1>2
  <2> QED
    BY <1>2, <2>1 DEF RangeOf
<1> QED
  BY <1>2, <1>3, <1>4, <1>5 DEF Chained, k

(* Every step of the broker and of its updates keeps the invariant. *)
LEMMA FillsStep == Fills!FillsInv /\ Fills!Next => Fills!FillsInv'
<1> SUFFICES ASSUME Chained(s1), s2 \in Seq(RangeOf(s1)), s3 \subseteq Nat, Fills!Next
             PROVE  Chained(s1') /\ s2' \in Seq(RangeOf(s1')) /\ s3' \subseteq Nat
  BY FillsSay
<1>1. s1 \in Seq(FillRows) /\ Len(s1) \in Nat /\ DOMAIN s1 = 1..Len(s1)
  BY DEF Chained
<1>2. CASE Fills!Fill
  <2>1. PICK after \in 0..MaxPosition \ {Fills!Position}, time \in Fills!Clock..(Fills!Clock + 1) :
          s1' = Append(s1, [id |-> Len(s1) + 1, before |-> Fills!Position, after |-> after, time |-> time])
    BY <1>2 DEF Fills!Fill
  <2> DEFINE e == [id |-> Len(s1) + 1, before |-> Fills!Position, after |-> after, time |-> time]
  <2>2. Fills!Position \in Nat /\ Fills!Clock \in Nat
        /\ (s1 # <<>> => Fills!Position = s1[Len(s1)].after /\ Fills!Clock = s1[Len(s1)].time)
    <3>1. s1 # <<>> => s1[Len(s1)] \in FillRows
      BY <1>1
    <3> QED
      BY <3>1 DEF Fills!Position, Fills!Clock, Fills!Last, FillRows
  <2>3. after \in Nat /\ after # Fills!Position /\ time \in Nat /\ Fills!Clock <= time
    BY <2>2, FillNumbers
  <2>4. e.id = Len(s1) + 1 /\ e.before = Fills!Position /\ e.after = after /\ e.time = time
    OBVIOUS
  <2>5. e \in FillRows
    BY <1>1, <2>2, <2>3 DEF FillRows
  <2> HIDE DEF e
  <2>6. Chained(Append(s1, e)) /\ RangeOf(s1) \subseteq RangeOf(Append(s1, e))
    BY <2>2, <2>3, <2>4, <2>5, FillKeeps
  <2>7. s1' = Append(s1, e) /\ s2' = s2 /\ s3' = s3
    BY <1>2, <2>1 DEF Fills!Fill, e
  <2>8. s2 \in Seq(RangeOf(s1'))
    BY <2>6, <2>7
  <2> QED
    BY <2>6, <2>7, <2>8
<1>3. ASSUME NEW f \in Fills!Fills, Fills!Store(f) PROVE Chained(s1') /\ s2' \in Seq(RangeOf(s1')) /\ s3' \subseteq Nat
  <2>1. s1' = s1 /\ s3' = s3 /\ s2' = Append(s2, f)
    BY <1>3 DEF Fills!Store
  <2>2. f \in RangeOf(s1)
    BY <1>1, <1>3 DEF Fills!Fills, RangeOf
  <2> QED
    BY <2>1, <2>2
<1>4. ASSUME NEW f \in Fills!Fills, Fills!Lose(f) PROVE Chained(s1') /\ s2' \in Seq(RangeOf(s1')) /\ s3' \subseteq Nat
  <2>1. s1' = s1 /\ s2' = s2 /\ s3' = s3 \cup {f.id}
    BY <1>4 DEF Fills!Lose
  <2>2. f \in FillRows
    BY <1>1 DEF Fills!Fills
  <2>3. f.id \in Nat
    BY <2>2 DEF FillRows
  <2> QED
    BY <2>1, <2>3
<1> QED
  BY <1>2, <1>3, <1>4 DEF Fills!Next

(* Fills that rest keep their invariant. *)
LEMMA FillsRest == Fills!FillsInv /\ UNCHANGED partVars => Fills!FillsInv'
<1>1. UNCHANGED partVars => s1' = s1 /\ s2' = s2 /\ s3' = s3
  BY DEF partVars
<1> QED
  BY <1>1, FillsSay

(* A fill is the one of its number, and the clock never goes back. *)
LEMMA HistoryTells ==
  ASSUME NEW h, Chained(h)
  PROVE  /\ Len(h) \in Nat
         /\ \A f \in RangeOf(h) : f \in FillRows /\ f.id \in 1..Len(h) /\ h[f.id] = f
         /\ \A i \in 1..Len(h) : h[i] \in RangeOf(h) /\ h[i].id = i /\ h[i].time \in Nat
         /\ \A i, j \in 1..Len(h) : i <= j => h[i].time <= h[j].time
<1>1. h \in Seq(FillRows) /\ Len(h) \in Nat
  BY DEF Chained
<1>2. ASSUME NEW i \in 1..Len(h)
      PROVE  h[i] \in RangeOf(h) /\ h[i].id = i /\ h[i] \in FillRows /\ h[i].time \in Nat
  <2>1. h[i] \in FillRows
    BY <1>1
  <2> QED
    BY <2>1 DEF Chained, RangeOf, FillRows
<1>3. ASSUME NEW f \in RangeOf(h) PROVE f \in FillRows /\ f.id \in 1..Len(h) /\ h[f.id] = f
  <2>1. PICK i \in 1..Len(h) : f = h[i]
    BY DEF RangeOf
  <2> QED
    BY <1>2, <2>1
<1>4. ASSUME NEW i \in 1..Len(h), NEW j \in 1..Len(h), i <= j PROVE h[i].time <= h[j].time
  <2> DEFINE S == {k \in i..Len(h) : h[i].time <= h[k].time}
  <2>1. i \in S
    BY <1>1, <1>2
  <2>2. ASSUME NEW k \in (i + 1)..Len(h), k - 1 \in S PROVE k \in S
    <3>1. k \in 2..Len(h) /\ k \in i..Len(h) /\ k \in 1..Len(h) /\ k - 1 \in 1..Len(h)
      BY <1>1
    <3>2. h[k - 1].time <= h[k].time /\ h[i].time <= h[k - 1].time
      BY <2>2, <3>1 DEF Chained
    <3>3. h[i].time \in Nat /\ h[k].time \in Nat /\ h[k - 1].time \in Nat
      BY <1>2, <3>1
    <3> QED
      BY <3>1, <3>2, <3>3
  <2>3. i \in Int /\ Len(h) \in Int /\ j \in i..Len(h)
    BY <1>1, <1>4
  <2> HIDE DEF S
  <2>4. \A k \in i..Len(h) : k \in S
    BY <2>1, <2>2, <2>3, Climb
  <2> QED
    BY <2>3, <2>4 DEF S
<1> QED
  BY <1>1, <1>2, <1>3, <1>4

\* The fills of a session; those of S that have a time stamp of their own; a start of S in the broker's order.
Whole(h) == {f \in RangeOf(h) : Fills!InSession(f)}
Untied(S) == \A f \in S : Fills!Tied(S, f) = {f}
Leads(S, q) ==
  /\ q \in Seq(S) /\ Cardinality(RangeOf(q)) = Len(q)
  /\ \A i, j \in 1..Len(q) : i < j => q[i].id < q[j].id
  /\ \A f \in RangeOf(q), g \in S \ RangeOf(q) : f.id < g.id

(* What lies between two fills of the session is of the session. *)
LEMMA BetweenIsInside ==
  ASSUME NEW h, Chained(h), NEW i \in 1..Len(h), NEW j \in 1..Len(h), NEW k \in i..j,
         Fills!InSession(h[i]), Fills!InSession(h[j])
  PROVE  k \in 1..Len(h) /\ h[k] \in Whole(h)
<1>1. Len(h) \in Nat /\ k \in 1..Len(h) /\ i <= k /\ k <= j
  BY HistoryTells
<1>2. h[i].time \in Nat /\ h[j].time \in Nat /\ h[k].time \in Nat /\ h[k] \in RangeOf(h)
  BY <1>1, HistoryTells
<1>3. h[i].time <= h[k].time /\ h[k].time <= h[j].time
  BY <1>1, HistoryTells
<1> QED
  BY <1>1, <1>2, <1>3, FillNumbers DEF Whole, Fills!InSession

(* One of the fills that are left is the earliest, in number and in time. *)
LEMMA EarliestLeft ==
  ASSUME NEW h, Chained(h), NEW left \in SUBSET RangeOf(h), left # {}
  PROVE  \E l \in left : \A g \in left : l.id <= g.id /\ l.time <= g.time
<1> DEFINE I == {f.id : f \in left}
<1>1. I \in SUBSET Nat /\ I # {}
  BY HistoryTells
<1>2. PICK m \in I : \A k \in I : m <= k
  <2> HIDE DEF I
  <2> QED
    BY <1>1, HasLeast
<1>3. PICK l \in left : m = l.id
  OBVIOUS
<1>4. ASSUME NEW g \in left PROVE l.id <= g.id /\ l.time <= g.time
  <2>1. l.id <= g.id
    BY <1>2, <1>3
  <2>2. l.id \in 1..Len(h) /\ g.id \in 1..Len(h) /\ h[l.id] = l /\ h[g.id] = g
    BY HistoryTells
  <2> QED
    BY <2>1, <2>2, HistoryTells
<1> QED
  BY <1>4

\* Who may come next among those left, and the fills with the earliest time stamp.
Earliest(left) == {f \in left : \A g \in left : f.time <= g.time}
NextOf(S, q, left) ==
  IF \A f \in Earliest(left) : Fills!Tied(S, f) = {f} THEN Earliest(left) ELSE Fills!Candidates(Earliest(left), q)

(* If only one may come next, it is the next one of the broker: because no other has its time stamp or, when nothing of
   the session is missing, because the path through the positions leads to it. *)
LEMMA NextIsTrue ==
  ASSUME NEW h, Chained(h), NEW S \in SUBSET Whole(h), Untied(S) \/ S = Whole(h), NEW q, Leads(S, q),
         NEW c, NextOf(S, q, S \ RangeOf(q)) = {c}
  PROVE  c \in S \ RangeOf(q) /\ \A g \in S \ RangeOf(q) : c.id <= g.id
<1> DEFINE left == S \ RangeOf(q)
           group == Earliest(left)
<1>1. S \in SUBSET RangeOf(h) /\ left \in SUBSET RangeOf(h) /\ left \subseteq S
  BY DEF Whole
<1>2. NextOf(S, q, left) \subseteq group /\ group \subseteq left
  BY DEF NextOf, Earliest, Fills!Candidates
<1>3. c \in group /\ c \in left
  BY <1>2
<1>4. PICK l \in left : \A g \in left : l.id <= g.id /\ l.time <= g.time
  BY <1>1, <1>3, EarliestLeft
<1>5. l \in group /\ \A g \in group : g.time = l.time
  <2>1. l \in group
    BY <1>4 DEF Earliest
  <2>2. ASSUME NEW g \in group PROVE g.time = l.time
    <3>1. g \in left /\ g.time <= l.time /\ l.time <= g.time
      BY <1>4 DEF Earliest
    <3>2. g.time \in Nat /\ l.time \in Nat
      <4>1. g \in FillRows /\ l \in FillRows
        BY <1>1, <3>1, HistoryTells
      <4> QED
        BY <4>1 DEF FillRows
    <3> QED
      BY <3>1, <3>2
  <2> QED
    BY <2>1, <2>2
<1> HIDE DEF left, group
<1>6. CASE \A f \in group : Fills!Tied(S, f) = {f}
  <2>1. c \in S /\ c.time = l.time
    BY <1>1, <1>3, <1>5
  <2>2. c \in Fills!Tied(S, l)
    BY <2>1 DEF Fills!Tied
  <2>3. c = l
    BY <1>5, <1>6, <2>2
  <2> QED
    BY <1>3, <1>4, <2>3 DEF left
<1>7. CASE ~(\A f \in group : Fills!Tied(S, f) = {f})
  <2>1. S = Whole(h)
    BY <1>1, <1>2, <1>7 DEF Untied
  <2>2. Fills!Candidates(group, q) = {c}
    BY <1>7 DEF NextOf, group, left
  <2>3. c \in RangeOf(h) /\ l \in RangeOf(h) /\ c.id \in 1..Len(h) /\ l.id \in 1..Len(h) /\ h[c.id] = c /\ h[l.id] = l
    BY <1>1, <1>3, HistoryTells
  <2>4. Fills!InSession(c) /\ Fills!InSession(l)
    BY <1>1, <1>3, <2>1 DEF Whole
  <2>5. Len(h) \in Nat
    BY HistoryTells
  <2>6. c = l
    <3> SUFFICES ASSUME c # l PROVE FALSE
      OBVIOUS
    <3>1. l.id < c.id
      BY <1>3, <1>4, <2>3, <2>5
    <3>2. CASE q = <<>>
      <4> DEFINE p == h[c.id - 1]
      <4>1. c.id - 1 \in l.id..c.id /\ c.id - 1 \in 1..Len(h) /\ c.id \in 2..Len(h)
        BY <2>3, <2>5, <3>1
      <4>2. p \in S /\ p.id = c.id - 1
        <5>1. p \in Whole(h)
          BY <2>3, <2>4, <4>1, BetweenIsInside
        <5> QED
          BY <2>1, <4>1, <5>1, HistoryTells
      <4>3. p \in left
        BY <3>2, <4>2 DEF left, RangeOf
      <4>4. p.time <= c.time /\ l.time <= p.time /\ p.time \in Nat /\ c.time = l.time /\ l.time \in Nat
        BY <1>3, <1>5, <2>3, <4>1, HistoryTells
      <4>5. p.time = l.time
        BY <4>4
      <4>6. p \in group
        BY <1>4, <4>3, <4>5 DEF group, Earliest
      <4>7. p # c
        BY <2>3, <2>5, <4>2
      <4>8. p.after = c.before
        BY <2>3, <4>1 DEF Chained
      <4>9. c \in Fills!Candidates(group, q)
        BY <2>2
      <4>10. ~ \E g \in group \ {c} : g.after = c.before
        BY <3>2, <4>9 DEF Fills!Candidates
      <4> HIDE DEF p
      <4> QED
        BY <4>6, <4>7, <4>8, <4>10
    <3>3. CASE q # <<>>
      <4> DEFINE m == q[Len(q)]
                 p == h[l.id - 1]
      <4>1. q \in Seq(S) /\ Len(q) \in Nat /\ Len(q) \in 1..Len(q) /\ m \in S /\ m \in RangeOf(q)
        <5>1. q \in Seq(S)
          BY DEF Leads
        <5>2. Len(q) \in Nat /\ Len(q) \in 1..Len(q)
          BY <3>3, <5>1
        <5> QED
          BY <5>1, <5>2 DEF RangeOf
      <4>2. m \in RangeOf(h) /\ m.id \in 1..Len(h) /\ h[m.id] = m /\ Fills!InSession(m)
        BY <1>1, <2>1, <4>1, HistoryTells DEF Whole
      <4>3. m.id < l.id
        BY <1>4, <4>1 DEF Leads, left
      <4>4. l.id - 1 \in m.id..l.id /\ l.id \in 2..Len(h) /\ l.id - 1 \in 1..Len(h)
        BY <2>3, <2>5, <4>2, <4>3
      <4>5. p \in S /\ p.id = l.id - 1
        <5>1. p \in Whole(h)
          BY <2>3, <2>4, <4>2, <4>4, BetweenIsInside
        <5> QED
          BY <2>1, <4>4, <5>1, HistoryTells
      <4>6. p \notin left
        BY <1>4, <2>3, <2>5, <4>5
      <4>7. PICK i \in 1..Len(q) : p = q[i]
        BY <4>5, <4>6 DEF left, RangeOf
      <4>8. p.id <= m.id
        <5>1. CASE i = Len(q)
          BY <2>5, <4>2, <4>7, <5>1
        <5>2. CASE i < Len(q)
          <6>1. q[i].id < q[Len(q)].id
            BY <4>1, <5>2 DEF Leads
          <6> QED
            BY <4>2, <4>5, <2>3, <2>5, <4>7, <6>1
        <5> QED
          BY <4>1, <5>1, <5>2
      <4>9. m.id = l.id - 1
        BY <2>3, <2>5, <4>2, <4>3, <4>5, <4>8
      <4>10. l.before = m.after
        BY <2>3, <4>2, <4>4, <4>9 DEF Chained
      <4>11. l \in Fills!Candidates(group, q)
        BY <1>5, <3>3, <4>10 DEF Fills!Candidates, Fills!Last
      <4> QED
        BY <2>2, <4>11
    <3> QED
      BY <3>2, <3>3
  <2> QED
    BY <1>3, <1>4, <2>6 DEF left
<1> QED
  BY <1>6, <1>7

(* A sequence has finitely many elements. *)
LEMMA RangeIsFinite ==
  ASSUME NEW T, NEW q \in Seq(T)
  PROVE  IsFiniteSet(RangeOf(q))
<1>1. q \in Surjection(1..Len(q), RangeOf(q))
  BY DEF Surjection, RangeOf
<1>2. IsFiniteSet(1..Len(q))
  BY FS_Interval
<1> QED
  BY <1>1, <1>2, FS_Surjection

(* The next fill of the broker joins those in front. *)
LEMMA LeadsGrow ==
  ASSUME NEW h, Chained(h), NEW S \in SUBSET Whole(h), NEW q, Leads(S, q),
         NEW c \in S \ RangeOf(q), \A g \in S \ RangeOf(q) : c.id <= g.id
  PROVE  Leads(S, Append(q, c)) /\ Len(Append(q, c)) = Len(q) + 1
<1> DEFINE r == Append(q, c)
<1>1. q \in Seq(S) /\ Len(q) \in Nat /\ Cardinality(RangeOf(q)) = Len(q)
  BY DEF Leads
<1>2. r \in Seq(S) /\ Len(r) = Len(q) + 1 /\ r[Len(q) + 1] = c /\ \A i \in 1..Len(q) : r[i] = q[i]
  BY <1>1
<1> HIDE DEF r
<1>3. RangeOf(r) = RangeOf(q) \cup {c}
  <2>1. \A i : i \in 1..Len(r) <=> i \in 1..Len(q) \/ i = Len(q) + 1
    BY <1>1, <1>2
  <2> QED
    BY <1>2, <2>1 DEF RangeOf
<1>4. Cardinality(RangeOf(r)) = Len(r)
  <2>1. IsFiniteSet(RangeOf(q))
    BY <1>1, RangeIsFinite
  <2>2. c \notin RangeOf(q)
    OBVIOUS
  <2>3. Cardinality(RangeOf(q) \cup {c}) = Cardinality(RangeOf(q)) + 1
    BY <2>1, <2>2, FS_AddElement
  <2> QED
    BY <1>1, <1>2, <1>3, <2>3
<1>5. \A g \in S : g \in RangeOf(h) /\ g.id \in Nat /\ h[g.id] = g
  <2>1. \A g \in S : g \in RangeOf(h)
    BY DEF Whole
  <2> QED
    BY <2>1, HistoryTells
<1>6. \A i \in 1..Len(q) : q[i] \in RangeOf(q)
  BY DEF RangeOf
<1>7. ASSUME NEW i \in 1..Len(r), NEW j \in 1..Len(r), i < j PROVE r[i].id < r[j].id
  <2>1. i \in 1..Len(q)
    BY <1>1, <1>2, <1>7
  <2>2. CASE j = Len(q) + 1
    BY <1>2, <1>6, <2>1, <2>2 DEF Leads
  <2>3. CASE j # Len(q) + 1
    <3>1. j \in 1..Len(q)
      BY <1>1, <1>2, <2>3
    <3> QED
      BY <1>2, <1>7, <2>1, <3>1 DEF Leads
  <2> QED
    BY <2>2, <2>3
<1>8. ASSUME NEW f \in RangeOf(r), NEW g \in S \ RangeOf(r) PROVE f.id < g.id
  <2>1. g \in S \ RangeOf(q) /\ g # c
    BY <1>3
  <2>2. CASE f \in RangeOf(q)
    BY <2>1, <2>2 DEF Leads
  <2>3. CASE f = c
    <3>1. c.id <= g.id /\ c.id # g.id /\ c.id \in Nat /\ g.id \in Nat
      BY <1>5, <2>1
    <3> QED
      BY <2>3, <3>1
  <2> QED
    BY <1>3, <2>2, <2>3
<1> QED
  BY <1>2, <1>4, <1>7, <1>8 DEF Leads, r

(* The order that orderFills() finds is the broker's. *)
LEMMA OrderIsBrokers ==
  ASSUME NEW h, Chained(h), NEW S \in SUBSET Whole(h), Untied(S) \/ S = Whole(h), Fills!OrderFills(S).ok
  PROVE  Leads(S, Fills!OrderFills(S).seq) /\ RangeOf(Fills!OrderFills(S).seq) = S
<1> DEFINE n == Cardinality(S)
           left(q) == S \ {q[i] : i \in DOMAIN q}
           group(q) == {f \in left(q) : \A g \in left(q) : f.time <= g.time}
           next(q) == IF \A f \in group(q) : Fills!Tied(S, f) = {f} THEN group(q) ELSE Fills!Candidates(group(q), q)
           made(v) == IF v.ok /\ Fills!Cardinality(next(v.seq)) = 1
                      THEN [ok |-> TRUE, seq |-> Append(v.seq, CHOOSE f \in next(v.seq) : TRUE)]
                      ELSE [ok |-> FALSE, seq |-> v.seq]
           start == [ok |-> TRUE, seq |-> <<>>]
           V == [ok : BOOLEAN, seq : Seq(S)]
           Is(f) == f = [i \in 0..n |-> IF i = 0 THEN start ELSE made(f[i - 1])]
           step == CHOOSE f : Is(f)
           g == [i \in (0 + 1)..n |-> [v \in V |-> made(v)]]
<1>1. Fills!Cardinality(S) = n /\ \A T : Fills!Cardinality(T) = Cardinality(T)
  BY DEF Fills!Cardinality, Cardinality
<1>2. Fills!OrderFills(S) = step[n]
  <2>1. Fills!OrderFills(S) = (CHOOSE f : f = [i \in 0..Fills!Cardinality(S) |-> IF i = 0 THEN start ELSE made(f[i - 1])])[Fills!Cardinality(S)]
    BY Zenon DEF Fills!OrderFills
  <2>2. Fills!Cardinality(S) = n
    BY <1>1
  <2> HIDE DEF made, start, n
  <2> QED
    BY <2>1, <2>2
<1> HIDE DEF n
<1>3. S \in SUBSET RangeOf(h) /\ IsFiniteSet(S) /\ n \in Nat
  <2>1. S \in SUBSET RangeOf(h)
    BY DEF Whole
  <2>2. h \in Seq(FillRows)
    BY DEF Chained
  <2> QED
    BY <2>1, <2>2, RangeIsFinite, FS_Subset, FS_CardinalityType DEF n
<1>4. ASSUME NEW q \in Seq(S)
      PROVE  next(q) = NextOf(S, q, S \ RangeOf(q)) /\ next(q) \subseteq S \ RangeOf(q)
  <2>1. {q[i] : i \in DOMAIN q} = RangeOf(q)
    BY DEF RangeOf
  <2> QED
    BY <2>1 DEF NextOf, Earliest, Fills!Candidates
<1>5. ASSUME NEW T \in SUBSET S, Cardinality(T) = 1 PROVE T = {CHOOSE f \in T : TRUE} /\ (CHOOSE f \in T : TRUE) \in S
  <2>1. PICK c : T = {c}
    BY <1>3, <1>5, FS_Subset, FS_Singleton
  <2> QED
    BY <2>1
<1> HIDE DEF next
<1>6. ASSUME NEW v \in V PROVE made(v) \in V
  <2>1. v.ok \in BOOLEAN /\ v.seq \in Seq(S)
    OBVIOUS
  <2>2. CASE v.ok /\ Fills!Cardinality(next(v.seq)) = 1
    <3>1. (CHOOSE f \in next(v.seq) : TRUE) \in S
      <4> DEFINE T == next(v.seq)
      <4>1. T \in SUBSET S
        BY <1>4, <2>1
      <4>2. Cardinality(T) = 1
        BY <1>1, <2>2
      <4> HIDE DEF T
      <4>3. (CHOOSE f \in T : TRUE) \in S
        BY <1>5, <4>1, <4>2
      <4> QED
        BY <4>3 DEF T
    <3> QED
      BY <2>1, <2>2, <3>1
  <2>3. CASE ~(v.ok /\ Fills!Cardinality(next(v.seq)) = 1)
    BY <2>1, <2>3
  <2> QED
    BY <2>2, <2>3
<1>7. start \in V
  OBVIOUS
<1> HIDE DEF start, made, V
<1>8. g \in [(0 + 1)..n -> [V -> V]]
  BY <1>6
<1>9. \A i \in 1..n : i - 1 \in 0..n /\ i # 0 /\ i \in 0..n /\ i \in (0 + 1)..n
  BY <1>3
<1>10. PICK f \in [0..n -> V] : f[0] = start /\ \A i \in (0 + 1)..n : f[i] = g[i][f[i - 1]]
  <2>1. PICK f \in [0..n -> V] : Unfolds(f, 0, n, start, g)
    <3>1. 0 \in Int /\ n \in Int /\ 0 <= n
      BY <1>3
    <3> HIDE DEF g
    <3> QED
      BY <1>7, <1>8, <3>1, Recursion
  <2> HIDE DEF g
  <2> QED
    BY <2>1 DEF Unfolds
<1>11. Is(f)
  <2>1. ASSUME NEW i \in 1..n PROVE f[i] = made(f[i - 1])
    <3>1. f[i - 1] \in V /\ i \in (0 + 1)..n
      BY <1>9, <1>10
    <3>2. g[i][f[i - 1]] = made(f[i - 1])
      BY <3>1
    <3> HIDE DEF g
    <3> QED
      BY <1>10, <3>1, <3>2
  <2>2. \A i \in 0..n : i = 0 \/ i \in 1..n
    BY <1>3
  <2> QED
    BY <1>10, <2>1, <2>2
<1>12. Is(step)
  <2> HIDE DEF Is
  <2> QED
    BY <1>11
<1> HIDE DEF step
<1>13. step[0] = start /\ \A i \in 1..n : step[i] = made(step[i - 1])
  <2>1. step = [i \in 0..n |-> IF i = 0 THEN start ELSE made(step[i - 1])]
    BY <1>12
  <2>2. 0 \in 0..n
    BY <1>3
  <2> QED
    BY <1>9, <2>1, <2>2
<1> DEFINE good(v, i) == v \in V /\ (v.ok => Leads(S, v.seq) /\ Len(v.seq) = i)
           I == {i \in 0..n : good(step[i], i)}
<1>14. good(start, 0)
  <2>1. start.ok /\ start.seq = <<>> /\ RangeOf(<<>>) = {}
    BY DEF start, RangeOf
  <2>2. Leads(S, <<>>) /\ Len(<<>>) = 0
    <3>1. <<>> \in Seq(S) /\ Len(<<>>) = 0 /\ 1..0 = {}
      OBVIOUS
    <3>2. Cardinality(RangeOf(<<>>)) = 0
      BY <2>1, FS_EmptySet
    <3> QED
      BY <2>1, <3>1, <3>2 DEF Leads
  <2> QED
    BY <1>7, <2>1, <2>2
<1>15. ASSUME NEW v, NEW i \in 1..n, good(v, i - 1) PROVE good(made(v), i)
  <2>1. made(v) \in V /\ v \in V /\ v.seq \in Seq(S)
    BY <1>6, <1>15 DEF V
  <2>2. CASE v.ok /\ Fills!Cardinality(next(v.seq)) = 1
    <3> DEFINE q == v.seq
               c == CHOOSE e \in next(q) : TRUE
    <3>1. made(v).ok /\ made(v).seq = Append(q, c)
      BY <2>2 DEF made
    <3>2. next(q) \subseteq S /\ Cardinality(next(q)) = 1
      BY <1>1, <1>4, <2>1, <2>2
    <3>3. next(q) = {c} /\ NextOf(S, q, S \ RangeOf(q)) = {c}
      BY <1>4, <1>5, <2>1, <3>2
    <3>4. Leads(S, q) /\ Len(q) = i - 1
      BY <1>15, <2>2
    <3> HIDE DEF c, q
    <3>5. c \in S \ RangeOf(q) /\ \A e \in S \ RangeOf(q) : c.id <= e.id
      BY <3>3, <3>4, NextIsTrue
    <3>6. Leads(S, Append(q, c)) /\ Len(Append(q, c)) = Len(q) + 1
      BY <3>4, <3>5, LeadsGrow
    <3>7. Len(Append(q, c)) = i
      BY <3>4, <3>6
    <3> QED
      BY <2>1, <3>1, <3>6, <3>7
  <2>3. CASE ~(v.ok /\ Fills!Cardinality(next(v.seq)) = 1)
    <3>1. ~made(v).ok
      BY <2>3 DEF made
    <3> QED
      BY <2>1, <3>1
  <2> QED
    BY <2>2, <2>3
<1> HIDE DEF good
<1>16. n \in I
  <2>1. 0 \in I
    BY <1>3, <1>13, <1>14
  <2>2. ASSUME NEW i \in 1..n, i - 1 \in I PROVE i \in I
    BY <1>9, <1>13, <1>15, <2>2
  <2> HIDE DEF I
  <2>3. \A i \in 0..n : i \in I
    BY <1>3, <2>1, <2>2, ClimbUp
  <2> QED
    BY <1>3, <2>3
<1>17. Leads(S, step[n].seq) /\ Len(step[n].seq) = n
  BY <1>2, <1>16 DEF good
<1>18. RangeOf(step[n].seq) = S
  <2> DEFINE q == step[n].seq
  <2>1. q \in Seq(S) /\ Cardinality(RangeOf(q)) = n
    BY <1>17 DEF Leads
  <2> HIDE DEF q
  <2>2. RangeOf(q) \in SUBSET S
    BY <2>1 DEF RangeOf
  <2>3. RangeOf(q) = S
    BY <1>3, <2>1, <2>2, FS_Subset DEF n
  <2> QED
    BY <2>3 DEF q
<1> QED
  BY <1>2, <1>17, <1>18

----------------------------------------------------------------------------
(* Round trips.                                                             *)

\* A stretch of the broker's history that begins flat.
Stretch(h, c) ==
  /\ c \in Seq(RangeOf(h)) /\ c # <<>> /\ c[1].before = 0
  /\ \A i \in 1..Len(c) : c[1].id + i - 1 \in 1..Len(h) /\ c[i] = h[c[1].id + i - 1]
\* Fills in the broker's order between which at most one of the session is missing.
Sparse(h, q) ==
  /\ q \in Seq(Whole(h)) /\ \A i, j \in 1..Len(q) : i < j => q[i].id < q[j].id
  /\ Cardinality(Whole(h) \ RangeOf(q)) <= 1

(* A stretch has as many fills as its numbers say. *)
LEMMA StretchEnds ==
  ASSUME NEW h, Chained(h), NEW c, Stretch(h, c)
  PROVE  /\ c \in Seq(RangeOf(h)) /\ Len(c) \in Nat /\ Len(c) \in 1..Len(c) /\ 1 \in 1..Len(c)
         /\ Len(h) \in Nat /\ c[1].id \in 1..Len(h)
         /\ c[Len(c)].id = c[1].id + Len(c) - 1 /\ c[Len(c)].id \in 1..Len(h)
<1>1. c \in Seq(RangeOf(h)) /\ Len(c) \in Nat /\ Len(c) \in 1..Len(c) /\ 1 \in 1..Len(c)
  BY DEF Stretch
<1>2. Len(h) \in Nat /\ c[1].id \in 1..Len(h)
  <2>1. c[1] \in RangeOf(h)
    BY <1>1
  <2> QED
    BY <2>1, HistoryTells
<1> DEFINE k == c[1].id + Len(c) - 1
<1>3. k \in 1..Len(h) /\ c[Len(c)] = h[k]
  BY <1>1 DEF Stretch
<1> HIDE DEF k
<1>4. h[k].id = k
  BY <1>3, HistoryTells
<1> QED
  BY <1>1, <1>2, <1>3, <1>4 DEF k

(* The next fill joins a stretch that ends right before it. *)
LEMMA StretchGrows ==
  ASSUME NEW h, Chained(h), NEW c, Stretch(h, c), NEW e \in RangeOf(h), e.id = c[Len(c)].id + 1
  PROVE  Stretch(h, Append(c, e)) /\ Append(c, e)[Len(Append(c, e))] = e
<1> DEFINE d == Append(c, e)
<1>1. c \in Seq(RangeOf(h)) /\ Len(c) \in Nat /\ Len(c) \in 1..Len(c) /\ 1 \in 1..Len(c)
  BY DEF Stretch
<1>2. d \in Seq(RangeOf(h)) /\ Len(d) = Len(c) + 1 /\ d[Len(c) + 1] = e /\ \A i \in 1..Len(c) : d[i] = c[i]
  BY <1>1
<1>3. d # <<>> /\ d[1] = c[1]
  BY <1>1, <1>2
<1> HIDE DEF d
<1>4. e.id \in 1..Len(h) /\ h[e.id] = e /\ Len(h) \in Nat
  BY HistoryTells
<1>5. c[1].id \in Nat
  <2>1. c[1] \in RangeOf(h)
    BY <1>1
  <2> QED
    BY <1>4, <2>1, HistoryTells
<1>6. c[Len(c)].id = c[1].id + Len(c) - 1
  BY StretchEnds
<1>7. ASSUME NEW i \in 1..Len(d) PROVE d[1].id + i - 1 \in 1..Len(h) /\ d[i] = h[d[1].id + i - 1]
  <2>1. CASE i = Len(c) + 1
    <3>1. d[1].id + i - 1 = e.id
      BY <1>1, <1>3, <1>5, <1>6, <2>1
    <3> QED
      BY <1>2, <1>4, <2>1, <3>1
  <2>2. CASE i # Len(c) + 1
    <3>1. i \in 1..Len(c)
      BY <1>1, <1>2, <2>2
    <3> QED
      BY <1>2, <1>3, <3>1 DEF Stretch
  <2> QED
    BY <2>1, <2>2
<1> QED
  BY <1>2, <1>3, <1>7 DEF Stretch, d

(* A stretch is what really happened from its first fill to its last. *)
LEMMA StretchIsReal ==
  ASSUME NEW h, Chained(h), NEW c, Stretch(h, c)
  PROVE  c = SubSeq(h, c[1].id, c[Len(c)].id)
<1>1. c \in Seq(RangeOf(h)) /\ Len(c) \in Nat /\ Len(c) \in 1..Len(c) /\ 1 \in 1..Len(c)
  BY DEF Stretch
<1>2. Len(h) \in Nat /\ c[1].id \in 1..Len(h)
  BY <1>1, HistoryTells
<1>3. c[Len(c)].id = c[1].id + Len(c) - 1 /\ c[Len(c)].id \in 1..Len(h)
  BY StretchEnds
<1> DEFINE a == c[1].id
           b == c[Len(c)].id
           s == SubSeq(h, a, b)
<1>4. \A i \in a..b : h[i] \in RangeOf(h)
  BY <1>2, <1>3, HistoryTells
<1> HIDE DEF a, b
<1>5. a \in Int /\ b \in Int /\ b = a + Len(c) - 1 /\ a <= b
  BY <1>1, <1>2, <1>3 DEF a, b
<1>6. s \in Seq(RangeOf(h)) /\ Len(s) = (b - a) + 1 /\ \A i \in 1..((b - a) + 1) : s[i] = h[(a + i) - 1]
  BY <1>4, <1>5, SubSeqProperties
<1>7. Len(s) = Len(c) /\ (b - a) + 1 = Len(c)
  BY <1>1, <1>5, <1>6
<1> HIDE DEF s
<1>8. \A i \in 1..Len(c) : c[i] = s[i]
  <2> SUFFICES ASSUME NEW i \in 1..Len(c) PROVE c[i] = s[i]
    OBVIOUS
  <2>1. c[i] = h[(a + i) - 1]
    <3>1. c[i] = h[a + i - 1]
      BY DEF Stretch, a
    <3>2. a + i - 1 = (a + i) - 1
      BY <1>5
    <3> QED
      BY <3>1, <3>2
  <2> QED
    BY <1>6, <1>7, <2>1
<1>9. c = s
  BY <1>1, <1>6, <1>7, <1>8, SeqEqual
<1> QED
  BY <1>9 DEF s, a, b

(* Of two fills in a row that fit together none is missing in between: a fill moves the position. *)
LEMMA NoHole ==
  ASSUME NEW h, Chained(h), NEW q, Sparse(h, q), NEW n \in 2..Len(q), q[n].before = q[n - 1].after
  PROVE  q[n].id = q[n - 1].id + 1
<1> DEFINE x == q[n - 1].id
           y == q[n].id
<1>1. q \in Seq(Whole(h)) /\ Len(q) \in Nat /\ n - 1 \in 1..Len(q) /\ n \in 1..Len(q) /\ n - 1 < n
  BY DEF Sparse
<1>2. q[n] \in Whole(h) /\ q[n - 1] \in Whole(h)
  BY <1>1
<1>3. /\ q[n] \in RangeOf(h) /\ q[n - 1] \in RangeOf(h)
      /\ x \in 1..Len(h) /\ y \in 1..Len(h) /\ h[x] = q[n - 1] /\ h[y] = q[n] /\ Len(h) \in Nat
      /\ Fills!InSession(h[x]) /\ Fills!InSession(h[y])
  BY <1>2, HistoryTells DEF Whole
<1>4. x < y
  BY <1>1 DEF Sparse
<1> HIDE DEF x, y
<1>5. ASSUME NEW k \in Int, x < k, k < y PROVE h[k] \in Whole(h) \ RangeOf(q) /\ h[k].id = k
  <2>1. k \in x..y
    BY <1>3, <1>5
  <2>2. k \in 1..Len(h) /\ h[k] \in Whole(h) /\ h[k].id = k
    <3>1. k \in 1..Len(h) /\ h[k] \in Whole(h)
      BY <1>3, <2>1, BetweenIsInside
    <3> QED
      BY <3>1, HistoryTells
  <2>3. ASSUME NEW i \in 1..Len(q) PROVE q[i] # h[k]
    <3>1. q[i].id \in Nat
      <4>1. q[i] \in RangeOf(h)
        BY <1>1 DEF Whole
      <4> QED
        BY <1>3, <4>1, HistoryTells
    <3>2. i <= n - 1 \/ n <= i
      BY <1>1
    <3>3. i <= n - 1 => q[i].id <= x
      BY <1>1, <1>3, <3>1 DEF Sparse, x
    <3>4. n <= i => y <= q[i].id
      BY <1>1, <1>3, <3>1 DEF Sparse, y
    <3> QED
      BY <1>3, <1>5, <2>2, <3>1, <3>2, <3>3, <3>4
  <2> QED
    BY <2>2, <2>3 DEF RangeOf
<1>6. ~(x + 2 < y)
  <2> SUFFICES ASSUME x + 2 < y PROVE FALSE
    OBVIOUS
  <2> DEFINE M == Whole(h) \ RangeOf(q)
  <2>1. h[x + 1] \in M /\ h[x + 2] \in M /\ h[x + 1].id = x + 1 /\ h[x + 2].id = x + 2
    BY <1>3, <1>5
  <2>2. h[x + 1] # h[x + 2]
    BY <1>3, <2>1
  <2>3. IsFiniteSet(M)
    <3>1. IsFiniteSet(RangeOf(h)) /\ M \subseteq RangeOf(h)
      BY RangeIsFinite DEF Chained, Whole
    <3> QED
      BY <3>1, FS_Subset
  <2> HIDE DEF M
  <2>4. Cardinality(M) \in Nat
    BY <2>3, FS_CardinalityType
  <2>5. Cardinality(M) <= 1
    BY DEF Sparse, M
  <2>6. Cardinality(M) # 0 /\ Cardinality(M) # 1
    BY <2>1, <2>2, <2>3, FS_EmptySet, FS_Singleton
  <2> QED
    BY <2>4, <2>5, <2>6
<1>7. x + 2 # y
  <2> SUFFICES ASSUME x + 2 = y PROVE FALSE
    OBVIOUS
  <2>1. x + 1 \in 2..Len(h) /\ x + 1 \in 1..Len(h) /\ y \in 2..Len(h) /\ (x + 1) - 1 = x /\ y - 1 = x + 1
    BY <1>3
  <2>2. h[x + 1].before = h[x].after /\ h[y].before = h[x + 1].after /\ h[x + 1].after # h[x + 1].before
    BY <2>1 DEF Chained
  <2> QED
    BY <1>3, <2>2
<1>8. y = x + 1
  BY <1>3, <1>4, <1>6, <1>7
<1> QED
  BY <1>8 DEF x, y

(* A fill breaks the cycle if it does not start where the fill before it left. *)
LEMMA BrokenSays ==
  ASSUME NEW R, NEW q \in Seq(R), NEW n \in 1..Len(q)
  PROVE  Fills!Broken(SubSeq(q, 1, n - 1), q[n]) <=> n # 1 /\ q[n].before # q[n - 1].after
<1> DEFINE p == SubSeq(q, 1, n - 1)
<1>1. /\ p \in Seq(R) /\ Len(p) = IF 1 <= n - 1 THEN (n - 1) - 1 + 1 ELSE 0
      /\ \A i \in 1..((n - 1) - 1 + 1) : p[i] = q[1 + i - 1]
  <2>1. 1 \in Int /\ n - 1 \in Int /\ \A i \in 1..(n - 1) : q[i] \in R
    OBVIOUS
  <2> QED
    BY <2>1, SubSeqProperties
<1> HIDE DEF p
<1>2. Len(p) = n - 1
  BY <1>1
<1>3. p # <<>> <=> n # 1
  BY <1>1, <1>2
<1>4. n # 1 => p[n - 1] = q[n - 1]
  BY <1>1, <1>2
<1> QED
  BY <1>2, <1>3, <1>4 DEF p, Fills!Broken, Fills!Last

\* A trip: a stretch that ends flat.
Trip(h, c) == Stretch(h, c) /\ c[Len(c)].after = 0

(* The round trips of fills between which at most one is missing are stretches from flat to flat. *)
LEMMA TripsAreTrips ==
  ASSUME NEW h, Chained(h), NEW q, Sparse(h, q)
  PROVE  /\ Fills!RoundTrips(q) \in Seq(Seq(RangeOf(h)))
         /\ \A i \in 1..Len(Fills!RoundTrips(q)) : Trip(h, Fills!RoundTrips(q)[i])
<1> DEFINE n == Len(q)
           R == RangeOf(h)
           kept(i, v) == IF q[i].before = 0 \/ Fills!Broken(SubSeq(q, 1, i - 1), q[i]) THEN <<>> ELSE v.cycle
           cycle(i, v) == IF q[i].before = 0 \/ kept(i, v) # <<>> THEN Append(kept(i, v), q[i]) ELSE kept(i, v)
           made(i, v) == IF q[i].after = 0 /\ cycle(i, v) # <<>>
                         THEN [cycle |-> <<>>, trips |-> Append(v.trips, cycle(i, v))]
                         ELSE [cycle |-> cycle(i, v), trips |-> v.trips]
           start == [cycle |-> <<>>, trips |-> <<>>]
           V == [cycle : Seq(R), trips : Seq(Seq(R))]
           Is(f) == f = [i \in 0..n |-> IF i = 0 THEN start ELSE made(i, f[i - 1])]
           step == CHOOSE f : Is(f)
           g == [i \in (0 + 1)..n |-> [v \in V |-> made(i, v)]]
<1>1. Fills!RoundTrips(q) = step[n].trips
  BY DEF Fills!RoundTrips
<1>2. q \in Seq(Whole(h)) /\ q \in Seq(R) /\ n \in Nat /\ \A i \in 1..n : q[i] \in R
  BY DEF Sparse, Whole
<1> HIDE DEF R
<1>3. ASSUME NEW i \in 1..n, NEW v \in V
      PROVE  kept(i, v) \in Seq(R) /\ cycle(i, v) \in Seq(R) /\ v.cycle \in Seq(R) /\ v.trips \in Seq(Seq(R))
  <2>1. v.cycle \in Seq(R) /\ v.trips \in Seq(Seq(R))
    OBVIOUS
  <2>2. kept(i, v) \in Seq(R)
    BY <2>1
  <2> HIDE DEF kept
  <2>3. cycle(i, v) \in Seq(R)
    BY <1>2, <2>2
  <2> QED
    BY <2>1, <2>2, <2>3
<1>4. ASSUME NEW i \in 1..n, NEW v \in V PROVE made(i, v) \in V
  <2> HIDE DEF cycle
  <2>1. cycle(i, v) \in Seq(R) /\ v.cycle \in Seq(R) /\ v.trips \in Seq(Seq(R))
    BY <1>3
  <2>2. Append(v.trips, cycle(i, v)) \in Seq(Seq(R)) /\ <<>> \in Seq(R)
    BY <2>1
  <2> QED
    BY <2>1, <2>2
<1>5. start \in V
  OBVIOUS
<1> HIDE DEF start, made, V, n, kept, cycle
<1>6. g \in [(0 + 1)..n -> [V -> V]]
  BY <1>4
<1>7. \A i \in 1..n : i - 1 \in 0..n /\ i # 0 /\ i \in 0..n /\ i \in (0 + 1)..n
  BY <1>2
<1>8. PICK f \in [0..n -> V] : f[0] = start /\ \A i \in (0 + 1)..n : f[i] = g[i][f[i - 1]]
  <2>1. PICK f \in [0..n -> V] : Unfolds(f, 0, n, start, g)
    <3>1. 0 \in Int /\ n \in Int /\ 0 <= n
      BY <1>2
    <3> HIDE DEF g
    <3> QED
      BY <1>5, <1>6, <3>1, Recursion
  <2> HIDE DEF g
  <2> QED
    BY <2>1 DEF Unfolds
<1>9. Is(f)
  <2>1. ASSUME NEW i \in 1..n PROVE f[i] = made(i, f[i - 1])
    <3>1. f[i - 1] \in V /\ i \in (0 + 1)..n
      BY <1>7, <1>8
    <3>2. g[i][f[i - 1]] = made(i, f[i - 1])
      BY <3>1
    <3> HIDE DEF g
    <3> QED
      BY <1>8, <3>1, <3>2
  <2>2. \A i \in 0..n : i = 0 \/ i \in 1..n
    BY <1>2
  <2> QED
    BY <1>8, <2>1, <2>2
<1>10. Is(step)
  <2> HIDE DEF Is
  <2> QED
    BY <1>9
<1> HIDE DEF step
<1>11. step[0] = start /\ \A i \in 1..n : step[i] = made(i, step[i - 1])
  <2>1. step = [i \in 0..n |-> IF i = 0 THEN start ELSE made(i, step[i - 1])]
    BY <1>10
  <2>2. 0 \in 0..n
    BY <1>2
  <2> QED
    BY <1>7, <2>1, <2>2
<1> DEFINE ends(c, i) == c # <<>> => i # 0 /\ Stretch(h, c) /\ c[Len(c)] = q[i]
           good(v, i) == v \in V /\ ends(v.cycle, i) /\ \A k \in 1..Len(v.trips) : Trip(h, v.trips[k])
           I == {i \in 0..n : good(step[i], i)}
<1>12. good(start, 0)
  BY <1>5 DEF start
<1>13. ASSUME NEW v, NEW i \in 1..n, good(v, i - 1) PROVE ends(cycle(i, v), i)
  <2> DEFINE e == q[i]
             k == kept(i, v)
  <2>1. v \in V /\ e \in RangeOf(h) /\ ends(v.cycle, i - 1)
    BY <1>2, <1>13 DEF R
  <2>2. k \in Seq(R)
    BY <1>3, <2>1
  <2>3. CASE e.before = 0
    <3>1. cycle(i, v) = <<e>>
      BY <2>3 DEF cycle, kept
    <3>2. e.id \in 1..Len(h) /\ h[e.id] = e /\ Len(h) \in Nat
      BY <2>1, HistoryTells
    <3>3. <<e>> \in Seq(RangeOf(h)) /\ Len(<<e>>) = 1 /\ <<e>>[1] = e /\ <<e>> # <<>>
      BY <2>1
    <3>4. \A j \in 1..1 : e.id + j - 1 = e.id /\ j = 1
      BY <3>2
    <3> HIDE DEF e
    <3>5. Stretch(h, <<e>>)
      BY <2>3, <3>2, <3>3, <3>4 DEF Stretch
    <3> QED
      BY <1>7, <3>1, <3>3, <3>5 DEF e
  <2>4. CASE e.before # 0 /\ k = <<>>
    BY <2>4 DEF cycle
  <2>5. CASE e.before # 0 /\ k # <<>>
    <3>1. k = v.cycle /\ ~Fills!Broken(SubSeq(q, 1, i - 1), e)
      BY <2>5 DEF kept
    <3>2. i - 1 # 0 /\ Stretch(h, k) /\ k[Len(k)] = q[i - 1]
      BY <2>1, <2>5, <3>1
    <3>3. i \in 2..Len(q) /\ i \in 1..Len(q) /\ i # 1
      BY <1>2, <3>2 DEF n
    <3>4. e.before = q[i - 1].after
      BY <1>2, <3>1, <3>3, BrokenSays
    <3>5. e.id = k[Len(k)].id + 1
      BY <3>2, <3>3, <3>4, NoHole
    <3> HIDE DEF e, k
    <3>6. Stretch(h, Append(k, e)) /\ Append(k, e)[Len(Append(k, e))] = e
      BY <2>1, <3>2, <3>5, StretchGrows
    <3>7. cycle(i, v) = Append(k, e)
      BY <2>5 DEF cycle, k, e
    <3> QED
      BY <1>7, <3>6, <3>7 DEF e
  <2> QED
    BY <2>3, <2>4, <2>5
<1>14. ASSUME NEW v, NEW i \in 1..n, good(v, i - 1) PROVE good(made(i, v), i)
  <2> DEFINE c == cycle(i, v)
  <2>1. made(i, v) \in V /\ v \in V /\ ends(c, i) /\ \A k \in 1..Len(v.trips) : Trip(h, v.trips[k])
    BY <1>4, <1>13, <1>14
  <2>2. c \in Seq(R) /\ v.trips \in Seq(Seq(R))
    BY <1>3, <2>1
  <2>3. CASE q[i].after = 0 /\ c # <<>>
    <3>1. made(i, v).cycle = <<>> /\ made(i, v).trips = Append(v.trips, c)
      BY <2>3 DEF made
    <3>2. Trip(h, c)
      BY <2>1, <2>3 DEF Trip
    <3> HIDE DEF c
    <3>3. \A k \in 1..Len(Append(v.trips, c)) : Trip(h, Append(v.trips, c)[k])
      <4> DEFINE w2 == Append(v.trips, c)
      <4>1. Len(w2) = Len(v.trips) + 1 /\ w2[Len(v.trips) + 1] = c /\ \A k \in 1..Len(v.trips) : w2[k] = v.trips[k]
        BY <2>2
      <4>2. \A k \in 1..Len(w2) : k \in 1..Len(v.trips) \/ k = Len(v.trips) + 1
        BY <2>2, <4>1
      <4> HIDE DEF w2
      <4>3. \A k \in 1..Len(w2) : Trip(h, w2[k])
        BY <2>1, <3>2, <4>1, <4>2
      <4> QED
        BY <4>3 DEF w2
    <3> QED
      BY <2>1, <3>1, <3>3
  <2>4. CASE ~(q[i].after = 0 /\ c # <<>>)
    <3>1. made(i, v).cycle = c /\ made(i, v).trips = v.trips
      BY <2>4 DEF made
    <3> HIDE DEF c
    <3> QED
      BY <2>1, <3>1
  <2> QED
    BY <2>3, <2>4
<1> HIDE DEF good
<1>15. n \in I
  <2>1. 0 \in I
    BY <1>2, <1>11, <1>12
  <2>2. ASSUME NEW i \in 1..n, i - 1 \in I PROVE i \in I
    BY <1>7, <1>11, <1>14, <2>2
  <2> HIDE DEF I
  <2>3. \A i \in 0..n : i \in I
    BY <1>2, <2>1, <2>2, ClimbUp
  <2> QED
    BY <1>2, <2>3
<1>16. step[n] \in V /\ \A k \in 1..Len(step[n].trips) : Trip(h, step[n].trips[k])
  BY <1>15 DEF good
<1> QED
  BY <1>1, <1>16 DEF V, R

(* What is extracted of the rows are fills of the session. *)
LEMMA ExtractedSays ==
  ASSUME Chained(s1), s2 \in Seq(RangeOf(s1))
  PROVE  /\ Fills!Fills = RangeOf(s1) /\ Fills!Extracted \in SUBSET Whole(s1)
         /\ {f \in Fills!Fills : Fills!InSession(f)} = Whole(s1) /\ IsFiniteSet(Whole(s1))
<1>1. DOMAIN s1 = 1..Len(s1) /\ DOMAIN s2 = 1..Len(s2)
  BY DEF Chained
<1>2. Fills!Fills = RangeOf(s1)
  BY <1>1 DEF Fills!Fills, RangeOf
<1>3. \A i \in DOMAIN s2 : s2[i] \in RangeOf(s1)
  BY <1>1
<1>4. Fills!Extracted \in SUBSET Whole(s1)
  BY <1>3 DEF Fills!Extracted, Whole
<1>5. IsFiniteSet(Whole(s1))
  <2>1. IsFiniteSet(RangeOf(s1)) /\ Whole(s1) \subseteq RangeOf(s1)
    BY RangeIsFinite DEF Chained, Whole
  <2> QED
    BY <2>1, FS_Subset
<1> QED
  BY <1>2, <1>4, <1>5 DEF Whole

(* With every update stored, an order that is found is the broker's. *)
LEMMA OrderHolds == Fills!FillsInv => Fills!OrderIsTrue
<1> SUFFICES ASSUME Chained(s1), s2 \in Seq(RangeOf(s1)),
                    \A f \in Fills!Fills : Fills!InSession(f) => f \in Fills!Extracted, Fills!Ordered.ok
             PROVE  /\ Fills!InOrder(Fills!Ordered.seq)
                    /\ {Fills!Ordered.seq[i] : i \in DOMAIN Fills!Ordered.seq} = {f \in Fills!Fills : Fills!InSession(f)}
  BY FillsSay DEF Fills!OrderIsTrue
<1> DEFINE S == Fills!Extracted
           q == Fills!Ordered.seq
<1>1. S \in SUBSET Whole(s1) /\ {f \in Fills!Fills : Fills!InSession(f)} = Whole(s1)
  BY ExtractedSays
<1>2. S = Whole(s1)
  BY <1>1
<1>3. Fills!Ordered = Fills!OrderFills(S)
  BY DEF Fills!Ordered
<1> HIDE DEF S
<1>4. Leads(S, q) /\ RangeOf(q) = S
  <2>1. Fills!OrderFills(S).ok /\ q = Fills!OrderFills(S).seq
    BY <1>3
  <2> HIDE DEF q
  <2>2. Leads(S, Fills!OrderFills(S).seq) /\ RangeOf(Fills!OrderFills(S).seq) = S
    BY <1>1, <1>2, <2>1, OrderIsBrokers
  <2> QED
    BY <2>1, <2>2
<1> HIDE DEF q
<1>5. DOMAIN q = 1..Len(q)
  <2>1. q \in Seq(S)
    BY <1>4 DEF Leads
  <2> QED
    BY <2>1
<1>6. Fills!InOrder(q) /\ {q[i] : i \in DOMAIN q} = S
  BY <1>4, <1>5 DEF Leads, Fills!InOrder, RangeOf
<1> QED
  BY <1>1, <1>2, <1>6 DEF q

(* A trip that is reported is a stretch of the broker's history from flat to flat. *)
LEMMA TripsHold == Fills!FillsInv => Fills!TripsAreReal
<1> DEFINE S == Fills!Extracted
           missing == {f \in Fills!Fills : Fills!InSession(f)} \ S
           tied == \E f \in S : Fills!Tied(S, f) # {f}
<1> SUFFICES ASSUME Chained(s1), s2 \in Seq(RangeOf(s1)), Cardinality(missing) <= (IF tied THEN 0 ELSE 1),
                    NEW i \in DOMAIN Fills!Trips
             PROVE  /\ Fills!Trips[i] = Fills!Between(Fills!Trips[i][1], Fills!Last(Fills!Trips[i]))
                    /\ Fills!Trips[i][1].before = 0 /\ Fills!Last(Fills!Trips[i]).after = 0
  <2>1. \A T : Fills!Cardinality(T) = Cardinality(T)
    BY DEF Fills!Cardinality, Cardinality
  <2> QED
    BY <2>1, FillsSay DEF Fills!TripsAreReal
<1>1. S \in SUBSET Whole(s1) /\ missing = Whole(s1) \ S /\ IsFiniteSet(missing)
  BY ExtractedSays, FS_Difference
<1>2. Cardinality(missing) \in Nat
  BY <1>1, FS_CardinalityType
<1>3. Cardinality(missing) <= (IF tied THEN 0 ELSE 1)
  OBVIOUS
<1>4. Untied(S) \/ S = Whole(s1)
  <2>1. CASE ~tied
    BY <2>1 DEF Untied
  <2>2. CASE tied
    <3> HIDE DEF missing, tied
    <3>2. Cardinality(missing) = 0
      BY <1>2, <1>3, <2>2
    <3>1. missing = {}
      BY <1>1, <3>2, FS_EmptySet
    <3> QED
      BY <1>1, <3>1
  <2> QED
    BY <2>1, <2>2
<1>5. Cardinality(Whole(s1) \ S) <= 1
  <2> HIDE DEF missing, tied, S
  <2> QED
    BY <1>1, <1>2, <1>3
<1> HIDE DEF S, missing, tied
<1>6. Fills!Ordered = Fills!OrderFills(S)
  BY DEF Fills!Ordered, S
<1>7. CASE ~Fills!Ordered.ok
  BY <1>7 DEF Fills!Trips
<1>8. CASE Fills!Ordered.ok
  <2> DEFINE q == Fills!Ordered.seq
             trips == Fills!RoundTrips(q)
  <2>1. Leads(S, q) /\ RangeOf(q) = S
    BY <1>1, <1>4, <1>6, <1>8, OrderIsBrokers
  <2> HIDE DEF q
  <2>2. q \in Seq(Whole(s1))
    BY <1>1, <2>1 DEF Leads
  <2>3. Sparse(s1, q)
    BY <1>5, <2>1, <2>2 DEF Leads, Sparse
  <2>4. trips \in Seq(Seq(RangeOf(s1))) /\ \A k \in 1..Len(trips) : Trip(s1, trips[k])
    BY <2>3, TripsAreTrips
  <2>5. Fills!Trips = trips
    BY <1>8 DEF Fills!Trips, q
  <2> HIDE DEF trips
  <2>6. Trip(s1, trips[i])
    BY <2>4, <2>5
  <2>7. trips[i] = SubSeq(s1, trips[i][1].id, trips[i][Len(trips[i])].id)
    BY <2>6, StretchIsReal DEF Trip
  <2> QED
    BY <2>5, <2>6, <2>7 DEF Trip, Stretch, Fills!Between, Fills!Last
<1> QED
  BY <1>7, <1>8

----------------------------------------------------------------------------
(* The replay.                                                              *)

\* f has the sums of the first terms, from the number from on.
Sums(f, from, to, terms) ==
  /\ f \in [0..to -> Int] /\ f[0] = 0
  /\ \A k \in 1..to : f[k] = f[k - 1] + (IF k < from THEN 0 ELSE terms[k])

(* A total is the last of such sums. *)
LEMMA TotalSays ==
  ASSUME NEW from \in Nat \ {0}, NEW to \in Nat, NEW terms, \A k \in from..to : terms[k] \in Int
  PROVE  \E f : Sums(f, from, to, terms) /\ f[to] = Replay!Total(from, to, terms)
<1> DEFINE next(k, v) == IF k < from THEN 0 ELSE v + terms[k]
           Rep(f) == f = [k \in 0..to |-> IF k < from THEN 0 ELSE f[k - 1] + terms[k]]
           rep == CHOOSE f : Rep(f)
           g == [k \in (0 + 1)..to |-> [v \in Int |-> next(k, v)]]
<1>1. g \in [(0 + 1)..to -> [Int -> Int]]
  <2>1. ASSUME NEW k \in (0 + 1)..to, NEW v \in Int PROVE next(k, v) \in Int
    <3>1. ~(k < from) => k \in from..to
      OBVIOUS
    <3> QED
      BY <3>1
  <2> HIDE DEF next
  <2> QED
    BY <2>1
<1>2. PICK f \in [0..to -> Int] : f[0] = 0 /\ \A k \in (0 + 1)..to : f[k] = g[k][f[k - 1]]
  <2>1. PICK f \in [0..to -> Int] : Unfolds(f, 0, to, 0, g)
    <3>1. 0 \in Int /\ to \in Int /\ 0 <= to
      OBVIOUS
    <3> HIDE DEF g
    <3> QED
      BY <1>1, <3>1, Recursion
  <2> HIDE DEF g
  <2> QED
    BY <2>1 DEF Unfolds
<1>3. \A k \in 1..to : k \in (0 + 1)..to /\ k - 1 \in 0..to /\ k \in 0..to
  OBVIOUS
<1>4. \A k \in 1..to : f[k - 1] \in Int /\ f[k] = next(k, f[k - 1])
  <2> TAKE k \in 1..to
  <2>1. f[k - 1] \in Int
    BY <1>2, <1>3
  <2>2. g[k][f[k - 1]] = next(k, f[k - 1])
    <3> HIDE DEF next
    <3> QED
      BY <1>3, <2>1
  <2> HIDE DEF g, next
  <2> QED
    BY <1>2, <1>3, <2>1, <2>2
<1>5. Rep(f)
  <2>1. \A k \in 0..to : f[k] = IF k < from THEN 0 ELSE f[k - 1] + terms[k]
    <3> TAKE k \in 0..to
    <3>1. CASE k = 0
      BY <1>2, <3>1
    <3>2. CASE k # 0
      <4>1. k \in 1..to
        BY <3>2
      <4> QED
        BY <1>4, <4>1
    <3> QED
      BY <3>1, <3>2
  <2> QED
    BY <1>2, <2>1
<1>6. Rep(rep)
  <2> HIDE DEF Rep
  <2> QED
    BY <1>5
<1>7. \A k \in 0..to : rep[k] = IF k < from THEN 0 ELSE rep[k - 1] + terms[k]
  <2> HIDE DEF rep
  <2>1. rep = [k \in 0..to |-> IF k < from THEN 0 ELSE rep[k - 1] + terms[k]]
    BY <1>6
  <2> QED
    BY <2>1
<1>8. Replay!Total(from, to, terms) = rep[to]
  BY Zenon DEF Replay!Total
<1> HIDE DEF rep, g
<1>9. \A k \in 0..to : rep[k] = f[k]
  <2> DEFINE S == {k \in 0..to : rep[k] = f[k]}
  <2>1. 0 \in S
    BY <1>2, <1>7
  <2>2. ASSUME NEW k \in 1..to, k - 1 \in S PROVE k \in S
    <3>1. rep[k - 1] = f[k - 1] /\ rep[k] = next(k, rep[k - 1])
      BY <1>3, <1>7, <2>2
    <3> QED
      BY <1>3, <1>4, <3>1
  <2> HIDE DEF S
  <2>3. \A k \in 0..to : k \in S
    BY <2>1, <2>2, ClimbUp
  <2> QED
    BY <2>3 DEF S
<1>10. \A k \in 0..to : k < from => f[k] = 0
  BY <1>7, <1>9
<1>11. Sums(f, from, to, terms)
  <2>1. ASSUME NEW k \in 1..to PROVE f[k] = f[k - 1] + (IF k < from THEN 0 ELSE terms[k])
    <3>1. CASE k < from
      <4>1. f[k] = 0 /\ f[k - 1] = 0
        BY <1>3, <1>10, <3>1
      <4> QED
        BY <3>1, <4>1
    <3>2. CASE ~(k < from)
      BY <1>4, <3>2
    <3> QED
      BY <3>1, <3>2
  <2> QED
    BY <1>2, <2>1 DEF Sums
<1> QED
  BY <1>8, <1>9, <1>11

(* Totals of the same terms, as far as the shorter one goes. *)
LEMMA SumsAgree ==
  ASSUME NEW from \in Nat, NEW to \in Nat, NEW terms, NEW f, Sums(f, from, to, terms),
         NEW from2 \in Nat, NEW to2 \in Nat, NEW terms2, NEW f2, Sums(f2, from2, to2, terms2), to <= to2,
         \A k \in 1..to : (IF k < from THEN 0 ELSE terms[k]) = (IF k < from2 THEN 0 ELSE terms2[k])
  PROVE  f[to] = f2[to]
<1> DEFINE S == {k \in 0..to : f[k] = f2[k]}
<1>1. 0 \in S
  BY DEF Sums
<1>2. ASSUME NEW k \in 1..to, k - 1 \in S PROVE k \in S
  <2>1. k \in 1..to2 /\ k - 1 \in 0..to /\ k \in 0..to
    OBVIOUS
  <2>2. f[k - 1] = f2[k - 1]
    BY <1>2
  <2>3. f[k] = f[k - 1] + (IF k < from THEN 0 ELSE terms[k]) /\ f2[k] = f2[k - 1] + (IF k < from2 THEN 0 ELSE terms2[k])
    BY <2>1 DEF Sums
  <2> QED
    BY <2>1, <2>2, <2>3
<1> HIDE DEF S
<1>3. \A k \in 0..to : k \in S
  BY <1>1, <1>2, ClimbUp
<1> QED
  BY <1>3 DEF S

(* Two totals of the same terms are equal. *)
LEMMA TotalsAgree ==
  ASSUME NEW from \in Nat \ {0}, NEW from2 \in Nat \ {0}, NEW to \in Nat, NEW terms, NEW terms2,
         \A k \in 1..to : terms[k] \in Int /\ terms2[k] \in Int
                          /\ (IF k < from THEN 0 ELSE terms[k]) = (IF k < from2 THEN 0 ELSE terms2[k])
  PROVE  Replay!Total(from, to, terms) = Replay!Total(from2, to, terms2)
<1>1. \A k \in from..to : k \in 1..to
  OBVIOUS
<1>2. \A k \in from2..to : k \in 1..to
  OBVIOUS
<1>3. PICK f : Sums(f, from, to, terms) /\ f[to] = Replay!Total(from, to, terms)
  BY <1>1, TotalSays
<1>4. PICK f2 : Sums(f2, from2, to, terms2) /\ f2[to] = Replay!Total(from2, to, terms2)
  BY <1>2, TotalSays
<1>5. f[to] = f2[to]
  BY <1>3, <1>4, SumsAgree
<1> QED
  BY <1>3, <1>4, <1>5

(* One more term. *)
LEMMA TotalGrows ==
  ASSUME NEW to \in Nat, NEW terms, NEW terms2, \A k \in 1..to : terms[k] \in Int /\ terms2[k] = terms[k],
         terms2[to + 1] \in Int
  PROVE  Replay!Total(1, to + 1, terms2) = Replay!Total(1, to, terms) + terms2[to + 1]
<1>1. to + 1 \in Nat /\ to + 1 \in 1..(to + 1) /\ \A k \in 1..(to + 1) : k \in 1..to \/ k = to + 1
  OBVIOUS
<1>2. PICK f : Sums(f, 1, to, terms) /\ f[to] = Replay!Total(1, to, terms)
  BY TotalSays
<1>3. \A k \in 1..(to + 1) : terms2[k] \in Int
  BY <1>1
<1>4. PICK f2 : Sums(f2, 1, to + 1, terms2) /\ f2[to + 1] = Replay!Total(1, to + 1, terms2)
  BY <1>1, <1>3, TotalSays
<1>5. f[to] = f2[to]
  BY <1>1, <1>2, <1>4, SumsAgree
<1>6. f2[to + 1] = f2[to] + terms2[to + 1]
  BY <1>1, <1>4 DEF Sums
<1> QED
  BY <1>2, <1>4, <1>5, <1>6

(* The loop over the intents keeps the types. *)
LEMMA FillTypes ==
  ASSUME NEW x \in Replay!Executions, NEW intent \in Replay!Intents, NEW i \in Nat
  PROVE  Replay!Fill(x, intent, i) \in Replay!Executions
<1> DEFINE done(status) == [intent EXCEPT !.status = status]
           cost == x.spent + Cost * Replay!Size(intent.desired - x.position)
           moved == [at |-> i, before |-> x.position, after |-> intent.desired]
<1>1. x.position \in Replay!Positions /\ x.spent \in Int /\ x.intents \in Seq(Replay!Intents) /\ x.transitions \in Seq(Replay!Transitions)
  BY DEF Replay!Executions
<1>2. intent.desired \in Replay!Positions /\ intent.status \in {"PENDING", "CANCELLED", "FILLED"}
  BY DEF Replay!Intents
<1>3. cost \in Int
  <2>1. Replay!Size(intent.desired - x.position) \in Int
    BY <1>1, <1>2 DEF Replay!Positions, Replay!Size
  <2>2. Cost \in Int
    BY ReplayNumbers
  <2> DEFINE size == Replay!Size(intent.desired - x.position)
  <2> HIDE DEF size
  <2> QED
    BY <1>1, <2>1, <2>2 DEF size
<1>4. done("CANCELLED") \in Replay!Intents /\ done("FILLED") \in Replay!Intents
  BY DEF Replay!Intents
<1>5. moved \in Replay!Transitions
  BY <1>1, <1>2 DEF Replay!Transitions
<1> HIDE DEF done, cost, moved
<1>6. /\ Append(x.intents, intent) \in Seq(Replay!Intents)
      /\ Append(x.intents, done("CANCELLED")) \in Seq(Replay!Intents)
      /\ Append(x.intents, done("FILLED")) \in Seq(Replay!Intents)
      /\ Append(x.transitions, moved) \in Seq(Replay!Transitions)
  BY <1>1, <1>4, <1>5
<1>7. [x EXCEPT !.intents = Append(@, intent)] \in Replay!Executions
  BY <1>6 DEF Replay!Executions
<1>8. [x EXCEPT !.intents = Append(@, done("CANCELLED"))] \in Replay!Executions
  BY <1>6 DEF Replay!Executions
<1>9. [x EXCEPT !.intents = Append(@, done("FILLED")), !.position = intent.desired, !.spent = cost,
                !.transitions = Append(@, moved)] \in Replay!Executions
  BY <1>2, <1>3, <1>6 DEF Replay!Executions
<1> QED
  <2>1. CASE intent.status # "PENDING" \/ intent.at + 1 # i
    BY <1>7, <2>1 DEF Replay!Fill
  <2>2. CASE intent.status = "PENDING" /\ intent.at + 1 = i /\ intent.desired = x.position
    BY <1>8, <2>2 DEF Replay!Fill, done
  <2>3. CASE intent.status = "PENDING" /\ intent.at + 1 = i /\ intent.desired # x.position
    BY <1>9, <2>3 DEF Replay!Fill, done, cost, moved
  <2> QED
    BY <2>1, <2>2, <2>3

\* The executions while a bar is advanced, one for each intent.
Filling(f, x, i) ==
  /\ f \in [0..Len(x.intents) -> Replay!Executions]
  /\ f[0] = [x EXCEPT !.intents = << >>, !.spent = 0]
  /\ \A k \in 1..Len(x.intents) : f[k] = Replay!Fill(f[k - 1], x.intents[k], i)
\* The execution after the loop, with its new point.
Booked(y, x, move) ==
  LET equity == x.equity + x.position * move - y.spent
  IN [y EXCEPT !.equity = equity,
               !.points = Append(@, [applied |-> x.position, cost |-> y.spent, equity |-> equity])]

(* What advancing a bar does. *)
LEMMA AdvanceSays ==
  ASSUME NEW x \in Replay!Executions, NEW i \in Nat, NEW move
  PROVE  \E f : Filling(f, x, i) /\ Replay!AdvanceBar(x, i, move) = Booked(f[Len(x.intents)], x, move)
<1> DEFINE n == Len(x.intents)
           start == [x EXCEPT !.intents = << >>, !.spent = 0]
           V == Replay!Executions
           Rep(f) == f = [k \in 0..n |-> IF k = 0 THEN start ELSE Replay!Fill(f[k - 1], x.intents[k], i)]
           rep == CHOOSE f : Rep(f)
           g == [k \in (0 + 1)..n |-> [v \in V |-> Replay!Fill(v, x.intents[k], i)]]
<1>1. x.intents \in Seq(Replay!Intents) /\ n \in Nat
  BY DEF Replay!Executions
<1>2. start \in V
  <2> DEFINE none == << >>
             nought == 0
  <2>1. none \in Seq(Replay!Intents) /\ nought \in Int
    OBVIOUS
  <2> HIDE DEF none, nought
  <2>2. [x EXCEPT !.intents = none, !.spent = nought] \in Replay!Executions
    BY <2>1 DEF Replay!Executions
  <2> QED
    BY <2>2 DEF none, nought
<1>3. Replay!AdvanceBar(x, i, move) = Booked(rep[n], x, move)
  BY Zenon DEF Replay!AdvanceBar, Booked
<1>4. g \in [(0 + 1)..n -> [V -> V]]
  <2>1. ASSUME NEW k \in (0 + 1)..n, NEW v \in V PROVE Replay!Fill(v, x.intents[k], i) \in V
    <3>1. x.intents[k] \in Replay!Intents
      BY <1>1
    <3>2. v \in Replay!Executions /\ i \in Nat
      OBVIOUS
    <3> QED
      BY <3>1, <3>2, FillTypes
  <2> QED
    BY <2>1
<1> HIDE DEF start, V, n
<1>5. \A k \in 1..n : k - 1 \in 0..n /\ k # 0 /\ k \in 0..n /\ k \in (0 + 1)..n
  BY <1>1
<1>6. PICK f \in [0..n -> V] : f[0] = start /\ \A k \in (0 + 1)..n : f[k] = g[k][f[k - 1]]
  <2>1. PICK f \in [0..n -> V] : Unfolds(f, 0, n, start, g)
    <3>1. 0 \in Int /\ n \in Int /\ 0 <= n
      BY <1>1
    <3> HIDE DEF g
    <3> QED
      BY <1>2, <1>4, <3>1, Recursion
  <2> HIDE DEF g
  <2> QED
    BY <2>1 DEF Unfolds
<1>7. \A k \in 1..n : f[k] = Replay!Fill(f[k - 1], x.intents[k], i)
  <2> TAKE k \in 1..n
  <2>1. f[k - 1] \in V /\ k \in (0 + 1)..n
    BY <1>5, <1>6
  <2>2. g[k][f[k - 1]] = Replay!Fill(f[k - 1], x.intents[k], i)
    BY <2>1
  <2> HIDE DEF g
  <2> QED
    BY <1>6, <2>1, <2>2
<1>8. Rep(f)
  <2>1. \A k \in 0..n : k = 0 \/ k \in 1..n
    BY <1>1
  <2> QED
    BY <1>6, <1>7, <2>1
<1>9. Rep(rep)
  <2> HIDE DEF Rep
  <2> QED
    BY <1>8
<1> HIDE DEF rep
<1>10. rep[0] = start /\ \A k \in 1..n : rep[k] = Replay!Fill(rep[k - 1], x.intents[k], i)
  <2>1. rep = [k \in 0..n |-> IF k = 0 THEN start ELSE Replay!Fill(rep[k - 1], x.intents[k], i)]
    BY <1>9
  <2>2. 0 \in 0..n
    BY <1>1
  <2> QED
    BY <1>5, <2>1, <2>2
<1>11. \A k \in 0..n : rep[k] = f[k]
  <2> DEFINE S == {k \in 0..n : rep[k] = f[k]}
  <2>1. 0 \in S /\ n \in Nat
    BY <1>1, <1>6, <1>10
  <2>2. ASSUME NEW k \in 1..n, k - 1 \in S PROVE k \in S
    <3>1. rep[k - 1] = f[k - 1]
      BY <2>2
    <3> QED
      BY <1>5, <1>7, <1>10, <3>1
  <2> HIDE DEF S
  <2>3. \A k \in 0..n : k \in S
    BY <2>1, <2>2, ClimbUp
  <2> QED
    BY <2>3 DEF S
<1>12. Filling(f, x, i) /\ f[n] = rep[n]
  BY <1>1, <1>6, <1>7, <1>11 DEF Filling, n, start, V
<1> QED
  BY <1>3, <1>12 DEF n

\* f comes after the intents that are over: it has them as they were, and nothing else has changed.
LeftAlone(f, x, k) ==
  /\ f.intents \in Seq(Replay!Intents) /\ Len(f.intents) = k /\ \A j \in 1..k : f.intents[j] = x.intents[j]
  /\ f.position = x.position /\ f.spent = 0 /\ f.transitions = x.transitions /\ f.points = x.points

(* Intents that are over are left alone. *)
LEMMA OverStays ==
  ASSUME NEW x \in Replay!Executions, NEW i \in Nat, NEW f, Filling(f, x, i), NEW m \in 0..Len(x.intents),
         \A k \in 1..m : x.intents[k].status # "PENDING"
  PROVE  LeftAlone(f[m], x, m)
<1> DEFINE S == {k \in 0..m : LeftAlone(f[k], x, k)}
<1>1. 0 \in S /\ m \in Nat
  <2> DEFINE none == << >>
  <2>1. none \in Seq(Replay!Intents) /\ Len(none) = 0 /\ m \in Nat
    BY DEF Replay!Executions
  <2>2. f[0] = [x EXCEPT !.intents = none, !.spent = 0]
    BY DEF Filling
  <2> HIDE DEF none
  <2>3. /\ f[0].intents = none /\ f[0].position = x.position /\ f[0].spent = 0
        /\ f[0].transitions = x.transitions /\ f[0].points = x.points
    BY <2>2 DEF Replay!Executions
  <2>4. LeftAlone(f[0], x, 0)
    BY <2>1, <2>3 DEF LeftAlone
  <2> QED
    BY <2>1, <2>4
<1>2. ASSUME NEW k \in 1..m, k - 1 \in S PROVE k \in S
  <2>1. k \in 1..Len(x.intents) /\ k - 1 \in 0..Len(x.intents) /\ x.intents[k] \in Replay!Intents /\ Len(x.intents) \in Nat
    BY DEF Replay!Executions
  <2>2. f[k - 1] \in Replay!Executions /\ LeftAlone(f[k - 1], x, k - 1)
    BY <1>2, <2>1 DEF Filling
  <2>3. f[k] = [f[k - 1] EXCEPT !.intents = Append(@, x.intents[k])]
    <3>1. f[k] = Replay!Fill(f[k - 1], x.intents[k], i)
      BY <2>1 DEF Filling
    <3> QED
      BY <3>1 DEF Replay!Fill
  <2> DEFINE before == f[k - 1]
             its == Append(before.intents, x.intents[k])
  <2>4. before.intents \in Seq(Replay!Intents) /\ Len(before.intents) = k - 1 /\ \A j \in 1..(k - 1) : before.intents[j] = x.intents[j]
    BY <2>2 DEF LeftAlone
  <2>5. its \in Seq(Replay!Intents) /\ Len(its) = k /\ \A j \in 1..k : its[j] = x.intents[j]
    <3> HIDE DEF before
    <3>1. \A j \in 1..k : j \in 1..(k - 1) \/ j = k
      BY <2>1
    <3> QED
      BY <2>1, <2>4, <3>1
  <2>6. /\ f[k].intents = its /\ f[k].position = before.position /\ f[k].spent = before.spent
        /\ f[k].transitions = before.transitions /\ f[k].points = before.points
    BY <2>2, <2>3 DEF Replay!Executions
  <2> HIDE DEF its
  <2>7. LeftAlone(f[k], x, k)
    BY <2>2, <2>5, <2>6 DEF LeftAlone
  <2> QED
    BY <2>7
<1> HIDE DEF S
<1>3. \A k \in 0..m : k \in S
  BY <1>1, <1>2, ClimbUp
<1> QED
  BY <1>1, <1>3 DEF S

\* Target, of any actions.
Aim(acts, k) == IF k \in DOMAIN acts THEN Replay!ToPosition(acts[k]) ELSE 0
\* DrawdownAt, of any points.
DrawnDown(ps, j) == Replay!Max({0} \cup {ps[i].equity : i \in 1..j}) - ps[j].equity

\* The parts of the invariant, of any session.
HeldTypes(cs, acts, x) ==
  /\ cs \in Seq(Int) /\ acts \in Seq(Replay!Actions) /\ x \in Replay!Executions
  /\ Len(cs) = Len(acts) /\ Len(x.points) = Len(acts)
HeldInStep(acts, x) ==
  /\ x.position = Aim(acts, Len(acts) - 1)
  /\ x.equity = IF Len(acts) = 0 THEN 0 ELSE x.points[Len(acts)].equity
  /\ Aim(acts, Len(acts)) # Aim(acts, Len(acts) - 1) => x.intents # << >>
  /\ \A k \in DOMAIN x.intents :
       IF k = Len(x.intents) /\ Aim(acts, Len(acts)) # Aim(acts, Len(acts) - 1)
       THEN x.intents[k] = [at |-> Len(acts) - 1, desired |-> Aim(acts, Len(acts)), status |-> "PENDING"]
       ELSE x.intents[k].status # "PENDING"
  /\ Replay!Turnover(x.transitions) =
       Replay!Total(1, Len(acts), [k \in 1..Len(acts) |-> Replay!Size(Aim(acts, k - 1) - Aim(acts, k - 2))])
HeldPoints(cs, acts, ps) ==
  \A k \in DOMAIN ps :
    /\ ps[k].applied = Aim(acts, k - 2)
    /\ ps[k].cost = Cost * Replay!Size(Aim(acts, k - 1) - Aim(acts, k - 2))
    /\ ps[k].equity = (IF k = 1 THEN 0 ELSE ps[k - 1].equity) + Aim(acts, k - 2) * cs[k] - ps[k].cost
HeldRuin(acts, ps) ==
  \A j \in DOMAIN ps :
    DrawnDown(ps, j) > MaxLoss /\ Aim(acts, j - 1) = 0 /\ Aim(acts, j) = 0 =>
      \A k \in j..Len(acts) : Aim(acts, k) = 0 /\ ps[k].equity = ps[j].equity
Held(cs, acts, x) ==
  HeldTypes(cs, acts, x) /\ HeldInStep(acts, x) /\ HeldPoints(cs, acts, x.points) /\ HeldRuin(acts, x.points)

(* Sizes and targets are numbers; a target of a bar stays when a bar is added. *)
LEMMA SizesAre ==
  \A a, b \in Replay!Positions : a \in Int /\ Replay!Size(a - b) \in Int /\ Replay!Size(a) \in Int /\ (a = b => Replay!Size(a - b) = 0)
  BY DEF Replay!Positions, Replay!Size

LEMMA AimsAre ==
  ASSUME NEW acts \in Seq(Replay!Actions)
  PROVE  /\ \A k : Aim(acts, k) \in Replay!Positions
         /\ \A k \in Int : k <= 0 \/ k > Len(acts) => Aim(acts, k) = 0
  BY DEF Aim, Replay!ToPosition, Replay!Positions

LEMMA AimsKeep ==
  ASSUME NEW acts \in Seq(Replay!Actions), NEW action \in Replay!Actions
  PROVE  /\ \A k \in Int : k <= Len(acts) => Aim(Append(acts, action), k) = Aim(acts, k)
         /\ Aim(Append(acts, action), Len(acts) + 1) = Replay!ToPosition(action)
<1> DEFINE later == Append(acts, action)
<1>1. /\ Len(acts) \in Nat /\ DOMAIN acts = 1..Len(acts) /\ DOMAIN later = 1..(Len(acts) + 1)
      /\ later[Len(acts) + 1] = action /\ \A k \in 1..Len(acts) : later[k] = acts[k]
  OBVIOUS
<1> HIDE DEF later
<1>2. \A k \in Int : k <= Len(acts) => Aim(later, k) = Aim(acts, k)
  <2> SUFFICES ASSUME NEW k \in Int, k <= Len(acts) PROVE Aim(later, k) = Aim(acts, k)
    OBVIOUS
  <2>1. k \in DOMAIN later <=> k \in DOMAIN acts
    BY <1>1
  <2>2. k \in DOMAIN acts => later[k] = acts[k]
    BY <1>1
  <2> QED
    BY <2>1, <2>2 DEF Aim
<1>3. Aim(later, Len(acts) + 1) = Replay!ToPosition(action)
  <2>1. Len(acts) + 1 \in DOMAIN later
    BY <1>1
  <2> QED
    BY <1>1, <2>1 DEF Aim
<1> QED
  BY <1>2, <1>3 DEF later

(* The turnover of one transition more. *)
LEMMA TurnoverGrows ==
  ASSUME NEW ts \in Seq(Replay!Transitions), NEW t \in Replay!Transitions
  PROVE  Replay!Turnover(Append(ts, t)) = Replay!Turnover(ts) + Replay!Size(t.after - t.before)
<1> DEFINE n == Len(ts)
           later == Append(ts, t)
           size(s) == Replay!Size(s.after - s.before)
           terms == [k \in DOMAIN ts |-> size(ts[k])]
           terms2 == [k \in DOMAIN later |-> size(later[k])]
<1>1. /\ n \in Nat /\ DOMAIN ts = 1..n /\ later \in Seq(Replay!Transitions) /\ Len(later) = n + 1 /\ DOMAIN later = 1..(n + 1)
      /\ later[n + 1] = t /\ \A k \in 1..n : later[k] = ts[k] /\ ts[k] \in Replay!Transitions
  OBVIOUS
<1>2. \A s \in Replay!Transitions : size(s) \in Int
  BY SizesAre DEF Replay!Transitions
<1> HIDE DEF n, later, size
<1>3. \A k \in 1..n : terms[k] = size(ts[k]) /\ terms2[k] = size(ts[k]) /\ size(ts[k]) \in Int
  BY <1>1, <1>2
<1>4. terms2[n + 1] = size(t) /\ size(t) \in Int
  BY <1>1, <1>2
<1>5. Replay!Turnover(ts) = Replay!Total(1, n, terms) /\ Replay!Turnover(later) = Replay!Total(1, n + 1, terms2)
  BY <1>1, Zenon DEF Replay!Turnover, size, n
<1> HIDE DEF terms, terms2
<1>6. Replay!Total(1, n + 1, terms2) = Replay!Total(1, n, terms) + terms2[n + 1]
  BY <1>1, <1>3, <1>4, TotalGrows
<1> QED
  BY <1>4, <1>5, <1>6 DEF later, size

\* The execution after a bar, before the decision of the bar.
AfterBar(y, x, acts, n, cost, equity) ==
  /\ y \in Replay!Executions /\ cost \in Int /\ equity \in Int
  /\ y.position = Aim(acts, n) /\ y.equity = equity
  /\ \A k \in DOMAIN y.intents : y.intents[k].status # "PENDING"
  /\ y.points = Append(x.points, [applied |-> Aim(acts, n - 1), cost |-> cost, equity |-> equity])
  /\ Replay!Turnover(y.transitions) = Replay!Turnover(x.transitions) + Replay!Size(Aim(acts, n) - Aim(acts, n - 1))

(* What a bar leaves: the intent of the bar before is filled, and none is open. *)
LEMMA BarFills ==
  ASSUME NEW acts, NEW x, NEW move \in Int, acts \in Seq(Replay!Actions), x \in Replay!Executions, HeldInStep(acts, x),
         NEW n, n = Len(acts), NEW y, y = Replay!AdvanceBar(x, n, move),
         NEW cost, cost = Cost * Replay!Size(Aim(acts, n) - Aim(acts, n - 1)),
         NEW equity, equity = x.equity + Aim(acts, n - 1) * move - cost
  PROVE  AfterBar(y, x, acts, n, cost, equity)
<1> DEFINE m == Len(x.intents)
           was == Aim(acts, n - 1)
           aim == Aim(acts, n)
<1>1. /\ n \in Nat /\ m \in Nat /\ x.intents \in Seq(Replay!Intents) /\ DOMAIN x.intents = 1..m
      /\ x.equity \in Int /\ x.position \in Replay!Positions /\ x.points \in Seq(Replay!Points)
      /\ x.transitions \in Seq(Replay!Transitions)
  BY DEF Replay!Executions
<1>2. was \in Replay!Positions /\ aim \in Replay!Positions
  BY AimsAre
<1>3. /\ x.position = was
      /\ aim # was => x.intents # << >>
      /\ \A k \in 1..m :
           IF k = m /\ aim # was THEN x.intents[k] = [at |-> n - 1, desired |-> aim, status |-> "PENDING"]
           ELSE x.intents[k].status # "PENDING"
  BY <1>1 DEF HeldInStep
<1>4. PICK f : Filling(f, x, n) /\ y = Booked(f[m], x, move)
  BY <1>1, AdvanceSays
<1> HIDE DEF m, was, aim
<1>5. /\ f[m] \in Replay!Executions /\ f[m].position = aim /\ f[m].points = x.points /\ f[m].spent = Cost * Replay!Size(aim - was)
      /\ \A k \in DOMAIN f[m].intents : f[m].intents[k].status # "PENDING"
      /\ Replay!Turnover(f[m].transitions) = Replay!Turnover(x.transitions) + Replay!Size(aim - was)
  <2>0. m \in 0..m /\ f[m] \in Replay!Executions
    <3>1. f \in [0..m -> Replay!Executions]
      BY <1>4 DEF Filling, m
    <3>2. m \in 0..m
      BY <1>1
    <3> QED
      BY <3>1, <3>2
  <2>1. CASE aim = was
    <3>1. \A k \in 1..m : x.intents[k].status # "PENDING"
      BY <1>3, <2>1
    <3>2. LeftAlone(f[m], x, m)
      <4>1. m \in 0..Len(x.intents) /\ Filling(f, x, n) /\ n \in Nat
        BY <1>1, <1>4, <2>0 DEF m
      <4> QED
        BY <3>1, <4>1, OverStays
    <3>3. Replay!Size(aim - was) = 0 /\ Cost * 0 = 0
      <4>1. Replay!Size(aim - was) = 0
        BY <1>2, <2>1, SizesAre
      <4>2. Cost \in Int
        BY ReplayNumbers
      <4> QED
        BY <4>1, <4>2
    <3>4. Replay!Turnover(x.transitions) \in Int
      <4>1. \A t \in Replay!Transitions : Replay!Size(t.after - t.before) \in Int
        BY SizesAre DEF Replay!Transitions
      <4> DEFINE ts == x.transitions
                 terms == [k \in DOMAIN ts |-> Replay!Size(ts[k].after - ts[k].before)]
      <4>2. Len(ts) \in Nat /\ \A k \in 1..Len(ts) : terms[k] \in Int
        BY <1>1, <4>1
      <4>3. Replay!Turnover(ts) = Replay!Total(1, Len(ts), terms)
        BY Zenon DEF Replay!Turnover
      <4> HIDE DEF terms, ts
      <4>4. PICK h : Sums(h, 1, Len(ts), terms) /\ h[Len(ts)] = Replay!Total(1, Len(ts), terms)
        <5>1. 1 \in Nat \ {0}
          OBVIOUS
        <5> QED
          BY <4>2, <5>1, TotalSays
      <4>5. h[Len(ts)] \in Int
        BY <4>2, <4>4 DEF Sums
      <4> QED
        BY <4>3, <4>4, <4>5 DEF ts
    <3>5. \A k \in DOMAIN f[m].intents : k \in 1..m /\ f[m].intents[k] = x.intents[k]
      BY <3>2 DEF LeftAlone
    <3>6. f[m].position = aim /\ f[m].points = x.points
      BY <1>3, <2>1, <3>2 DEF LeftAlone
    <3>7. f[m].spent = Cost * Replay!Size(aim - was)
      BY <3>2, <3>3 DEF LeftAlone
    <3>8. \A k \in DOMAIN f[m].intents : f[m].intents[k].status # "PENDING"
      BY <3>1, <3>5
    <3>9. Replay!Turnover(f[m].transitions) = Replay!Turnover(x.transitions)
      BY <3>2 DEF LeftAlone
    <3> DEFINE before == Replay!Turnover(x.transitions)
    <3> HIDE DEF before
    <3>10. before = before + Replay!Size(aim - was)
      BY <3>3, <3>4 DEF before
    <3> QED
      BY <2>0, <3>6, <3>7, <3>8, <3>9, <3>10 DEF before
  <2>2. CASE aim # was
    <3>1. m >= 1 /\ m \in 1..m /\ m - 1 \in 0..m /\ \A k \in 1..(m - 1) : k \in 1..m /\ k # m
      <4>1. m # 0
        <5>1. x.intents # << >>
          BY <1>3, <2>2
        <5> QED
          BY <1>1, <5>1 DEF m
      <4> QED
        BY <1>1, <4>1
    <3>2. \A k \in 1..(m - 1) : x.intents[k].status # "PENDING"
      BY <1>3, <3>1
    <3>3. LeftAlone(f[m - 1], x, m - 1) /\ f[m - 1] \in Replay!Executions
      <4>1. f[m - 1] \in Replay!Executions
        BY <1>4, <3>1 DEF Filling, m
      <4> QED
        BY <1>1, <1>4, <3>1, <3>2, <4>1, OverStays DEF m
    <3> DEFINE before == f[m - 1]
               intent == x.intents[m]
    <3>4. intent = [at |-> n - 1, desired |-> aim, status |-> "PENDING"]
      BY <1>3, <2>2, <3>1
    <3>5. /\ before \in Replay!Executions /\ before.intents \in Seq(Replay!Intents) /\ Len(before.intents) = m - 1
          /\ \A k \in 1..(m - 1) : before.intents[k] = x.intents[k]
          /\ before.position = was /\ before.spent = 0 /\ before.transitions = x.transitions /\ before.points = x.points
      <4>1. before \in Replay!Executions /\ LeftAlone(before, x, m - 1)
        BY <3>3
      <4> HIDE DEF before
      <4> QED
        BY <1>3, <4>1 DEF LeftAlone
    <3>6. f[m] = Replay!Fill(before, intent, n)
      BY <1>4, <3>1 DEF Filling, m
    <3> HIDE DEF before, intent
    <3>7. intent.status = "PENDING" /\ intent.at + 1 = n /\ intent.desired = aim
      BY <1>1, <3>4
    <3> DEFINE cost1 == before.spent + Cost * Replay!Size(intent.desired - before.position)
               t == [at |-> n, before |-> before.position, after |-> intent.desired]
               filled == [intent EXCEPT !.status = "FILLED"]
               its == Append(before.intents, filled)
    <3>8. f[m] = [before EXCEPT !.intents = its, !.position = intent.desired, !.spent = cost1,
                                !.transitions = Append(@, t)]
      BY <2>2, <3>5, <3>6, <3>7 DEF Replay!Fill
    <3>9. filled = [at |-> n - 1, desired |-> aim, status |-> "FILLED"]
      BY <3>4
    <3> HIDE DEF cost1, t, filled, its
    <3>10. /\ f[m].intents = its /\ f[m].position = aim /\ f[m].spent = cost1
           /\ f[m].transitions = Append(x.transitions, t) /\ f[m].points = x.points
      BY <3>5, <3>7, <3>8 DEF Replay!Executions
    <3>11. cost1 = Cost * Replay!Size(aim - was)
      <4>1. Replay!Size(aim - was) \in Int /\ Cost \in Int
        BY <1>2, SizesAre, ReplayNumbers
      <4>2. cost1 = 0 + Cost * Replay!Size(aim - was)
        BY <3>5, <3>7 DEF cost1
      <4> DEFINE size == Replay!Size(aim - was)
      <4> HIDE DEF size
      <4> QED
        BY <4>1, <4>2 DEF size
    <3>12. filled \in Replay!Intents /\ filled.status # "PENDING"
      <4>1. n - 1 \in Nat
        <5>1. intent \in Replay!Intents
          BY <1>1, <3>1 DEF intent
        <5> QED
          BY <3>4, <5>1 DEF Replay!Intents
      <4> QED
        BY <1>2, <3>9, <4>1 DEF Replay!Intents
    <3>13. DOMAIN its = 1..m /\ its[m] = filled /\ \A k \in 1..(m - 1) : its[k] = x.intents[k]
      BY <1>1, <3>1, <3>5, <3>12 DEF its
    <3>14. \A k \in DOMAIN its : its[k].status # "PENDING"
      <4>1. \A k \in 1..m : k = m \/ k \in 1..(m - 1)
        BY <1>1
      <4> QED
        BY <3>2, <3>12, <3>13, <4>1
    <3>15. t \in Replay!Transitions /\ t.after = aim /\ t.before = was
      BY <1>1, <1>2, <3>5, <3>7 DEF t, Replay!Transitions
    <3>16. Replay!Turnover(Append(x.transitions, t)) = Replay!Turnover(x.transitions) + Replay!Size(aim - was)
      BY <1>1, <3>15, TurnoverGrows
    <3> QED
      BY <2>0, <3>10, <3>11, <3>14, <3>16
  <2> QED
    BY <2>1, <2>2
<1>6. f[m].spent = cost
  BY <1>5 DEF was, aim
<1>7. cost \in Int /\ equity \in Int
  <2> DEFINE size == Replay!Size(aim - was)
  <2>1. size \in Int /\ Cost \in Int /\ was \in Int
    BY <1>2, SizesAre, ReplayNumbers
  <2>2. cost = Cost * size /\ equity = x.equity + was * move - cost
    BY DEF was, aim
  <2> HIDE DEF size
  <2>3. cost \in Int /\ was * move \in Int
    BY <2>1, <2>2
  <2> QED
    BY <1>1, <2>2, <2>3
<1> DEFINE point == [applied |-> was, cost |-> cost, equity |-> equity]
<1>8. y = [f[m] EXCEPT !.equity = equity, !.points = Append(@, point)]
  <2>1. x.position = Aim(acts, n - 1)
    BY <1>3 DEF was
  <2>2. x.equity + x.position * move - f[m].spent = equity /\ x.position = was
    BY <1>6, <2>1 DEF was
  <2> QED
    BY <1>4, <1>6, <2>2 DEF Booked
<1>9. point \in Replay!Points
  BY <1>2, <1>7 DEF Replay!Points
<1> HIDE DEF point
<1>10. Append(x.points, point) \in Seq(Replay!Points)
  BY <1>1, <1>9
<1>11. /\ y.position = f[m].position /\ y.intents = f[m].intents /\ y.transitions = f[m].transitions
       /\ y.equity = equity /\ y.points = Append(x.points, point)
  BY <1>5, <1>8 DEF Replay!Executions
<1>12. y \in Replay!Executions
  <2> DEFINE z == f[m]
             ps == Append(x.points, point)
  <2>1. z \in Replay!Executions /\ equity \in Int /\ ps \in Seq(Replay!Points)
    BY <1>5, <1>7, <1>10
  <2>2. z.points = x.points /\ y = [z EXCEPT !.equity = equity, !.points = Append(@, point)]
    BY <1>5, <1>8
  <2> HIDE DEF z
  <2>3. y = [z EXCEPT !.equity = equity, !.points = ps]
    BY <2>1, <2>2 DEF Replay!Executions
  <2> HIDE DEF ps
  <2> QED
    BY <2>1, <2>3 DEF Replay!Executions
<1> QED
  BY <1>5, <1>7, <1>11, <1>12 DEF was, aim, point, AfterBar

(* The greatest equity so far: there is one, and it is not below the one the session began with. *)
LEMMA PeakSays ==
  ASSUME NEW ps \in Seq(Replay!Points), NEW j \in 0..Len(ps), NEW S, S = {0} \cup {ps[i].equity : i \in 1..j}
  PROVE  S \subseteq Int /\ Replay!Max(S) \in S /\ \A e \in S : Replay!Max(S) >= e
<1> DEFINE Upto(k) == {0} \cup {ps[i].equity : i \in 1..k}
           T == {k \in 0..j : \E m \in Upto(k) : \A e \in Upto(k) : m >= e}
<1>1. j \in Nat /\ \A i \in 1..j : ps[i].equity \in Int
  <2>1. Len(ps) \in Nat /\ \A i \in 1..Len(ps) : ps[i] \in Replay!Points
    OBVIOUS
  <2> QED
    BY <2>1 DEF Replay!Points
<1>2. \A k \in 0..j : Upto(k) \subseteq Int
  BY <1>1
<1>3. 0 \in T
  <2>1. Upto(0) = {0} /\ 0 \in 0..j
    BY <1>1
  <2> QED
    BY <2>1
<1>4. ASSUME NEW k \in 1..j, k - 1 \in T PROVE k \in T
  <2>1. PICK m \in Upto(k - 1) : \A e \in Upto(k - 1) : m >= e
    BY <1>4
  <2>2. Upto(k) = Upto(k - 1) \cup {ps[k].equity} /\ k \in 0..j /\ k - 1 \in 0..j
    <3>1. \A i : i \in 1..k <=> i \in 1..(k - 1) \/ i = k
      BY <1>1
    <3> QED
      BY <1>1, <3>1
  <2>3. m \in Int /\ ps[k].equity \in Int /\ Upto(k - 1) \subseteq Int
    BY <1>1, <1>2, <2>1, <2>2
  <2> HIDE DEF Upto
  <2>4. \E l \in Upto(k) : \A e \in Upto(k) : l >= e
    <3>1. CASE m >= ps[k].equity
      BY <2>1, <2>2, <2>3, <3>1
    <3>2. CASE ~(m >= ps[k].equity)
      <4>1. \A e \in Upto(k) : ps[k].equity >= e
        BY <2>1, <2>2, <2>3, <3>2
      <4> QED
        BY <2>2, <4>1
    <3> QED
      BY <3>1, <3>2
  <2> QED
    BY <2>2, <2>4
<1> HIDE DEF T
<1>5. \A k \in 0..j : k \in T
  BY <1>1, <1>3, <1>4, ClimbUp
<1>6. \E m \in S : \A e \in S : m >= e
  <2>1. S = Upto(j) /\ j \in 0..j
    BY <1>1
  <2>2. j \in T
    BY <1>5, <2>1
  <2> HIDE DEF Upto
  <2>3. \E m \in Upto(j) : \A e \in Upto(j) : m >= e
    BY <2>2 DEF T
  <2> QED
    BY <2>1, <2>3
<1> DEFINE max == CHOOSE m \in S : \A e \in S : m >= e
<1>7. Replay!Max(S) = max
  BY DEF Replay!Max
<1>8. max \in S /\ \A e \in S : max >= e
  BY <1>6
<1>9. S \subseteq Int
  BY <1>1
<1> QED
  BY <1>7, <1>8, <1>9

(* What was drawn down at an earlier bar is no more than what is drawn down at an equity as low. *)
LEMMA DrawnMore ==
  ASSUME NEW ps \in Seq(Replay!Points), NEW j \in 1..Len(ps), NEW l \in j..Len(ps), ps[l].equity = ps[j].equity
  PROVE  DrawnDown(ps, j) \in Int /\ DrawnDown(ps, l) \in Int /\ DrawnDown(ps, j) <= DrawnDown(ps, l)
<1> DEFINE S == {0} \cup {ps[i].equity : i \in 1..j}
           T == {0} \cup {ps[i].equity : i \in 1..l}
<1>1. j \in 0..Len(ps) /\ l \in 0..Len(ps) /\ ps[j].equity \in Int
  <2>1. ps[j] \in Replay!Points
    OBVIOUS
  <2> QED
    BY <2>1 DEF Replay!Points
<1>2. S \subseteq T
  OBVIOUS
<1> HIDE DEF S, T
<1>3. S \subseteq Int /\ Replay!Max(S) \in S
  BY <1>1, PeakSays DEF S
<1>4. T \subseteq Int /\ Replay!Max(T) \in T /\ \A e \in T : Replay!Max(T) >= e
  BY <1>1, PeakSays DEF T
<1>5. Replay!Max(S) \in Int /\ Replay!Max(T) \in Int /\ Replay!Max(T) >= Replay!Max(S)
  BY <1>2, <1>3, <1>4
<1>6. DrawnDown(ps, j) = Replay!Max(S) - ps[j].equity /\ DrawnDown(ps, l) = Replay!Max(T) - ps[j].equity
  BY DEF DrawnDown, S, T
<1> QED
  BY <1>1, <1>5, <1>6

(* A bar keeps the invariant, when its action is flat past the drawdown limit. *)
LEMMA BarKeeps ==
  ASSUME NEW cs, NEW acts, NEW x, Held(cs, acts, x), NEW move \in Int, NEW action \in Replay!Actions,
         NEW n, n = Len(acts), NEW y, y = Replay!AdvanceBar(x, n, move),
         action # "FLAT" => ~(Replay!Drawdown(y) > MaxLoss)
  PROVE  Held(Append(cs, move), Append(acts, action), Replay!CreateIntent(y, n, action))
<1> DEFINE cost == Cost * Replay!Size(Aim(acts, n) - Aim(acts, n - 1))
           equity == x.equity + Aim(acts, n - 1) * move - cost
           point == [applied |-> Aim(acts, n - 1), cost |-> cost, equity |-> equity]
           cs2 == Append(cs, move)
           acts2 == Append(acts, action)
           x2 == Replay!CreateIntent(y, n, action)
           ps == x.points
           ps2 == Append(ps, point)
<1>1. /\ cs \in Seq(Int) /\ acts \in Seq(Replay!Actions) /\ x \in Replay!Executions /\ n \in Nat /\ Len(cs) = n /\ Len(ps) = n
      /\ ps \in Seq(Replay!Points) /\ HeldInStep(acts, x) /\ HeldPoints(cs, acts, ps) /\ HeldRuin(acts, ps)
  BY DEF Held, HeldTypes, Replay!Executions
<1>2. /\ y \in Replay!Executions /\ cost \in Int /\ equity \in Int
      /\ y.position = Aim(acts, n) /\ y.equity = equity
      /\ \A k \in DOMAIN y.intents : y.intents[k].status # "PENDING"
      /\ y.points = ps2
      /\ Replay!Turnover(y.transitions) = Replay!Turnover(x.transitions) + Replay!Size(Aim(acts, n) - Aim(acts, n - 1))
  <2>1. cost = Cost * Replay!Size(Aim(acts, n) - Aim(acts, n - 1)) /\ equity = x.equity + Aim(acts, n - 1) * move - cost
    OBVIOUS
  <2> HIDE DEF cost, equity
  <2>2. AfterBar(y, x, acts, n, cost, equity)
    BY <1>1, <2>1, BarFills
  <2> QED
    BY <2>2 DEF AfterBar, ps, ps2, point
<1> HIDE DEF cost, equity
<1>3. /\ \A k \in Int : k <= n => Aim(acts2, k) = Aim(acts, k)
      /\ Aim(acts2, n + 1) = Replay!ToPosition(action)
  BY <1>1, AimsKeep
<1>4. Len(acts2) = n + 1 /\ acts2 \in Seq(Replay!Actions) /\ Len(cs2) = n + 1 /\ cs2 \in Seq(Int) /\ n + 1 \in Nat
      /\ cs2[n + 1] = move /\ \A k \in 1..n : cs2[k] = cs[k]
  BY <1>1
<1>5. point \in Replay!Points
  <2>1. Aim(acts, n - 1) \in Replay!Positions
    BY <1>1, AimsAre
  <2> QED
    BY <1>2, <2>1 DEF Replay!Points
<1> HIDE DEF cs2, acts2, point
<1>6. /\ ps2 \in Seq(Replay!Points) /\ Len(ps2) = n + 1 /\ ps2[n + 1] = point /\ \A k \in 1..n : ps2[k] = ps[k]
      /\ DOMAIN ps2 = 1..(n + 1) /\ DOMAIN ps = 1..n
  BY <1>1, <1>5
<1> HIDE DEF ps2
<1> DEFINE aim == Replay!ToPosition(action)
           intent == [at |-> n, desired |-> aim, status |-> "PENDING"]
<1>7. aim \in Replay!Positions /\ intent \in Replay!Intents /\ (action = "FLAT" => aim = 0)
  BY <1>1 DEF Replay!ToPosition, Replay!Positions, Replay!Intents
<1>8. x2 = IF aim = y.position THEN y ELSE [y EXCEPT !.intents = Append(@, intent)]
  BY DEF Replay!CreateIntent
<1> HIDE DEF aim, intent, x2
<1>9. /\ x2 \in Replay!Executions /\ x2.position = y.position /\ x2.equity = y.equity /\ x2.points = y.points
      /\ x2.transitions = y.transitions
      /\ x2.intents = IF aim = y.position THEN y.intents ELSE Append(y.intents, intent)
  <2>1. y.intents \in Seq(Replay!Intents)
    BY <1>2 DEF Replay!Executions
  <2> DEFINE its == Append(y.intents, intent)
  <2>2. its \in Seq(Replay!Intents)
    BY <1>7, <2>1
  <2>3. CASE aim = y.position
    BY <1>2, <1>8, <2>3
  <2>4. CASE aim # y.position
    <3>1. x2 = [y EXCEPT !.intents = its]
      BY <1>2, <1>8, <2>4 DEF Replay!Executions
    <3> HIDE DEF its
    <3>2. x2 \in Replay!Executions
      BY <1>2, <2>2, <3>1 DEF Replay!Executions
    <3>3. /\ x2.position = y.position /\ x2.equity = y.equity /\ x2.points = y.points
          /\ x2.transitions = y.transitions /\ x2.intents = its
      BY <1>2, <3>1 DEF Replay!Executions
    <3> QED
      BY <2>4, <3>2, <3>3 DEF its
  <2> QED
    BY <2>3, <2>4
<1>10. HeldTypes(cs2, acts2, x2)
  BY <1>2, <1>4, <1>6, <1>9 DEF HeldTypes
<1>11. HeldInStep(acts2, x2)
  <2>1. x2.position = Aim(acts2, n) /\ Aim(acts2, n + 1) = aim /\ (n + 1) - 1 = n
    BY <1>1, <1>2, <1>3, <1>9 DEF aim
  <2>2. x2.equity = x2.points[n + 1].equity /\ n + 1 # 0
    BY <1>1, <1>2, <1>6, <1>9 DEF point
  <2>3. aim # y.position <=> Aim(acts2, n + 1) # Aim(acts2, n)
    BY <1>9, <2>1
  <2>4. /\ Aim(acts2, n + 1) # Aim(acts2, n) => x2.intents # << >>
        /\ \A k \in DOMAIN x2.intents :
             IF k = Len(x2.intents) /\ Aim(acts2, n + 1) # Aim(acts2, n) THEN x2.intents[k] = intent
             ELSE x2.intents[k].status # "PENDING"
    <3>1. y.intents \in Seq(Replay!Intents)
      BY <1>2 DEF Replay!Executions
    <3>2. CASE aim = y.position
      <4>1. x2.intents = y.intents
        BY <1>9, <3>2
      <4> QED
        BY <1>2, <2>3, <3>2, <4>1
    <3>3. CASE aim # y.position
      <4> DEFINE its == Append(y.intents, intent)
                 l == Len(y.intents)
      <4>1. /\ l \in Nat /\ Len(its) = l + 1 /\ DOMAIN its = 1..(l + 1) /\ its[l + 1] = intent /\ its # << >>
            /\ \A k \in 1..l : its[k] = y.intents[k] /\ k \in DOMAIN y.intents
        BY <1>7, <3>1
      <4> HIDE DEF its, l
      <4>2. x2.intents = its
        BY <1>9, <3>3 DEF its
      <4>3. \A k \in 1..(l + 1) : k = l + 1 \/ k \in 1..l
        BY <4>1
      <4> QED
        BY <1>2, <2>3, <3>3, <4>1, <4>2, <4>3
    <3> QED
      BY <3>2, <3>3
  <2>5. Replay!Turnover(x2.transitions) =
          Replay!Total(1, n + 1, [k \in 1..(n + 1) |-> Replay!Size(Aim(acts2, k - 1) - Aim(acts2, k - 2))])
    <3> DEFINE terms == [k \in 1..n |-> Replay!Size(Aim(acts, k - 1) - Aim(acts, k - 2))]
               terms2 == [k \in 1..(n + 1) |-> Replay!Size(Aim(acts2, k - 1) - Aim(acts2, k - 2))]
    <3>1. \A k \in 1..n : terms[k] \in Int /\ terms2[k] = terms[k]
      <4> TAKE k \in 1..n
      <4>1. k \in 1..(n + 1) /\ k - 1 \in Int /\ k - 1 <= n /\ k - 2 \in Int /\ k - 2 <= n
        BY <1>1
      <4>2. Aim(acts2, k - 1) = Aim(acts, k - 1) /\ Aim(acts2, k - 2) = Aim(acts, k - 2)
        BY <1>3, <4>1
      <4>3. Replay!Size(Aim(acts, k - 1) - Aim(acts, k - 2)) \in Int
        BY <1>1, AimsAre, SizesAre
      <4> QED
        BY <4>1, <4>2, <4>3
    <3>2. terms2[n + 1] = Replay!Size(Aim(acts, n) - Aim(acts, n - 1)) /\ terms2[n + 1] \in Int
      <4>1. n + 1 \in 1..(n + 1) /\ (n + 1) - 1 = n /\ (n + 1) - 2 = n - 1 /\ n - 1 \in Int /\ n - 1 <= n /\ n \in Int
        BY <1>1
      <4>2. Aim(acts2, n) = Aim(acts, n) /\ Aim(acts2, n - 1) = Aim(acts, n - 1)
        BY <1>3, <4>1
      <4>3. Replay!Size(Aim(acts, n) - Aim(acts, n - 1)) \in Int
        BY <1>1, AimsAre, SizesAre
      <4> QED
        BY <4>1, <4>2, <4>3
    <3>3. Replay!Turnover(x.transitions) = Replay!Total(1, n, terms)
      BY <1>1 DEF HeldInStep
    <3> HIDE DEF terms, terms2
    <3>4. Replay!Total(1, n + 1, terms2) = Replay!Total(1, n, terms) + terms2[n + 1]
      BY <1>1, <3>1, <3>2, TotalGrows
    <3> QED
      BY <1>2, <1>9, <3>2, <3>3, <3>4 DEF terms2
  <2> QED
    BY <1>4, <2>1, <2>2, <2>4, <2>5 DEF HeldInStep, intent
<1>12. HeldPoints(cs2, acts2, ps2)
  <2> SUFFICES ASSUME NEW k \in 1..(n + 1)
               PROVE  /\ ps2[k].applied = Aim(acts2, k - 2)
                      /\ ps2[k].cost = Cost * Replay!Size(Aim(acts2, k - 1) - Aim(acts2, k - 2))
                      /\ ps2[k].equity = (IF k = 1 THEN 0 ELSE ps2[k - 1].equity) + Aim(acts2, k - 2) * cs2[k] - ps2[k].cost
    BY <1>6 DEF HeldPoints
  <2>1. k - 1 \in Int /\ k - 1 <= n /\ k - 2 \in Int /\ k - 2 <= n
    BY <1>1
  <2>2. Aim(acts2, k - 1) = Aim(acts, k - 1) /\ Aim(acts2, k - 2) = Aim(acts, k - 2)
    BY <1>3, <2>1
  <2>3. CASE k \in 1..n
    <3>1. ps2[k] = ps[k] /\ cs2[k] = cs[k] /\ k \in DOMAIN ps
      BY <1>4, <1>6, <2>3
    <3>2. k # 1 => ps2[k - 1] = ps[k - 1]
      <4>1. k # 1 => k - 1 \in 1..n
        BY <1>1, <2>3
      <4> QED
        BY <1>6, <4>1
    <3> QED
      BY <1>1, <2>2, <3>1, <3>2 DEF HeldPoints
  <2>4. CASE k = n + 1
    <3>1. ps2[k] = point /\ cs2[k] = move /\ k - 1 = n /\ k - 2 = n - 1
      BY <1>1, <1>4, <1>6, <2>4
    <3>2. x.equity = IF k = 1 THEN 0 ELSE ps2[k - 1].equity
      <4>1. x.equity = IF n = 0 THEN 0 ELSE ps[n].equity
        BY <1>1 DEF HeldInStep
      <4>2. (n = 0 <=> k = 1) /\ (n # 0 => n \in 1..n)
        BY <1>1, <2>4
      <4> QED
        BY <1>6, <3>1, <4>1, <4>2
    <3>3. point.applied = Aim(acts, n - 1) /\ point.cost = cost /\ point.equity = equity
      BY DEF point
    <3>4. cost = Cost * Replay!Size(Aim(acts, n) - Aim(acts, n - 1)) /\ equity = x.equity + Aim(acts, n - 1) * move - cost
      BY DEF cost, equity
    <3> QED
      BY <2>2, <3>1, <3>2, <3>3, <3>4
  <2> QED
    BY <1>1, <2>3, <2>4
<1>13. HeldRuin(acts2, ps2)
  <2> SUFFICES ASSUME NEW j \in 1..(n + 1), DrawnDown(ps2, j) > MaxLoss, Aim(acts2, j - 1) = 0, Aim(acts2, j) = 0,
                      NEW k \in j..(n + 1)
               PROVE  Aim(acts2, k) = 0 /\ ps2[k].equity = ps2[j].equity
    BY <1>4, <1>6 DEF HeldRuin
  <2>1. CASE j = n + 1
    <3>1. k = j
      BY <1>1, <2>1
    <3> QED
      BY <3>1
  <2>2. CASE j \in 1..n
    <3>1. Aim(acts, j - 1) = 0 /\ Aim(acts, j) = 0 /\ j \in Int
      <4>1. j \in Int /\ j <= n /\ j - 1 \in Int /\ j - 1 <= n
        BY <1>1, <2>2
      <4> QED
        BY <1>3, <4>1
    <3>2. DrawnDown(ps, j) = DrawnDown(ps2, j)
      <4>1. \A i \in 1..j : ps2[i] = ps[i]
        BY <1>1, <1>6, <2>2
      <4>2. {ps2[i].equity : i \in 1..j} = {ps[i].equity : i \in 1..j} /\ ps2[j] = ps[j]
        BY <1>6, <2>2, <4>1
      <4> QED
        BY <4>2 DEF DrawnDown
    <3>3. \A l \in j..n : Aim(acts, l) = 0 /\ ps[l].equity = ps[j].equity
      BY <1>1, <1>6, <2>2, <3>1, <3>2 DEF HeldRuin
    <3>4. Aim(acts, n) = 0 /\ ps[n].equity = ps[j].equity
      <4>1. n \in j..n
        BY <1>1, <2>2
      <4> QED
        BY <3>3, <4>1
    <3>5. Aim(acts, n - 1) = 0
      <4>1. CASE j = n
        BY <3>1, <4>1
      <4>2. CASE j # n
        <5>1. n - 1 \in j..n
          BY <1>1, <2>2, <4>2
        <5> QED
          BY <3>3, <5>1
      <4> QED
        BY <4>1, <4>2
    <3>6. ps2[n + 1].equity = ps2[j].equity
      <4>1. Replay!Size(Aim(acts, n) - Aim(acts, n - 1)) = 0
        BY <3>4, <3>5 DEF Replay!Size
      <4>2. cost = 0 /\ Aim(acts, n - 1) * move = 0
        <5>1. Cost \in Int
          BY ReplayNumbers
        <5> QED
          BY <3>5, <4>1, <5>1 DEF cost
      <4>3. x.equity = ps[n].equity /\ x.equity \in Int
        <5>1. n # 0
          BY <1>1, <2>2
        <5> QED
          BY <1>1, <5>1 DEF HeldInStep, Replay!Executions
      <4>4. equity = x.equity
        BY <4>2, <4>3 DEF equity
      <4>5. ps2[n + 1].equity = equity /\ ps2[j] = ps[j]
        BY <1>6, <2>2 DEF point
      <4> QED
        BY <3>4, <4>3, <4>4, <4>5
    <3>7. Aim(acts2, n + 1) = 0
      <4>1. n + 1 \in j..Len(ps2) /\ j \in 1..Len(ps2)
        BY <1>1, <1>6, <2>2
      <4>2. /\ DrawnDown(ps2, j) \in Int /\ DrawnDown(ps2, n + 1) \in Int
            /\ DrawnDown(ps2, j) <= DrawnDown(ps2, n + 1)
        BY <1>6, <3>6, <4>1, DrawnMore
      <4>3. Replay!Drawdown(y) = DrawnDown(ps2, n + 1)
        <5>1. y.equity = ps2[n + 1].equity
          BY <1>2, <1>6 DEF point
        <5> QED
          BY <1>2, <1>6, <5>1 DEF Replay!Drawdown, DrawnDown
      <4>4. MaxLoss \in Int
        BY ReplayNumbers
      <4>5. Replay!Drawdown(y) > MaxLoss
        BY <4>2, <4>3, <4>4
      <4> QED
        BY <1>3, <1>7, <4>5 DEF aim
    <3>8. CASE k = n + 1
      BY <3>6, <3>7, <3>8
    <3>9. CASE k \in j..n
      <4>1. k \in 1..n /\ k \in Int /\ k <= n
        BY <1>1, <2>2, <3>9
      <4>2. Aim(acts2, k) = Aim(acts, k) /\ ps2[k] = ps[k] /\ ps2[j] = ps[j]
        BY <1>3, <1>6, <2>2, <4>1
      <4> QED
        BY <3>3, <3>9, <4>2
    <3> QED
      BY <1>1, <3>8, <3>9
  <2> QED
    BY <1>1, <2>1, <2>2
<1> QED
  BY <1>2, <1>9, <1>10, <1>11, <1>12, <1>13 DEF Held, cs2, acts2, x2

(* The invariant of the replay, said of its state. *)
LEMMA ExecutionSays ==
  /\ Replay!ExecutionInv <=>
       /\ session \in Sessions /\ evidence \in [action : Replay!Actions, signal : Replay!Actions, abstained : BOOLEAN]
       /\ Held(candles, actions, execution) /\ Replay!AbstentionIsTold
  /\ Replay!ExecutionInv' <=>
       /\ session' \in Sessions /\ evidence' \in [action : Replay!Actions, signal : Replay!Actions, abstained : BOOLEAN]
       /\ Held(candles', actions', execution') /\ Replay!AbstentionIsTold'
<1>1. Replay!ExecutionInv <=>
       /\ session \in Sessions /\ evidence \in [action : Replay!Actions, signal : Replay!Actions, abstained : BOOLEAN]
       /\ Held(candles, actions, execution) /\ Replay!AbstentionIsTold
  BY Zenon DEF Replay!ExecutionInv, Replay!TypeOK, Replay!InStep, Replay!NextBarClose, Replay!RuinedStays, Replay!Target,
     Replay!DrawdownAt, Held, HeldTypes, HeldInStep, HeldPoints, HeldRuin, Aim, DrawnDown
<1>2. Replay!ExecutionInv' <=>
       /\ session' \in Sessions /\ evidence' \in [action : Replay!Actions, signal : Replay!Actions, abstained : BOOLEAN]
       /\ Held(candles', actions', execution') /\ Replay!AbstentionIsTold'
  BY Zenon DEF Replay!ExecutionInv, Replay!TypeOK, Replay!InStep, Replay!NextBarClose, Replay!RuinedStays, Replay!Target,
     Replay!DrawdownAt, Held, HeldTypes, HeldInStep, HeldPoints, HeldRuin, Aim, DrawnDown
<1> QED
  BY <1>1, <1>2

(* A replay begins with nothing. *)
LEMMA ReplayStarts == Replay!Init => Replay!ExecutionInv
<1> SUFFICES ASSUME Replay!Init PROVE Replay!ExecutionInv
  OBVIOUS
<1> DEFINE none == << >>
           x == [position |-> 0, equity |-> 0, spent |-> 0, intents |-> none, transitions |-> none, points |-> none]
<1>1. candles = none /\ actions = none /\ execution = x /\ session \in Sessions
      /\ evidence = [action |-> "FLAT", signal |-> "FLAT", abstained |-> FALSE]
  BY DEF Replay!Init, Replay!NewExecution
<1>2. none \in Seq(Int) /\ none \in Seq(Replay!Actions) /\ none \in Seq(Replay!Intents) /\ none \in Seq(Replay!Transitions)
      /\ none \in Seq(Replay!Points) /\ Len(none) = 0 /\ DOMAIN none = {}
  OBVIOUS
<1> HIDE DEF none
<1>3. \A k : Aim(none, k) = 0
  BY <1>2 DEF Aim
<1>4. x \in Replay!Executions
  <2>1. 0 \in Replay!Positions /\ 0 \in Int
    BY DEF Replay!Positions
  <2> QED
    BY <1>2, <2>1 DEF Replay!Executions
<1>5. /\ x.position = 0 /\ x.equity = 0 /\ x.intents = none /\ x.transitions = none /\ x.points = none
  OBVIOUS
<1> HIDE DEF x
<1>6. HeldTypes(none, none, x)
  BY <1>2, <1>4, <1>5 DEF HeldTypes
<1>7. HeldInStep(none, x)
  <2> DEFINE terms == [k \in DOMAIN none |-> Replay!Size(none[k].after - none[k].before)]
             terms2 == [k \in 1..0 |-> Replay!Size(Aim(none, k - 1) - Aim(none, k - 2))]
  <2>1. Replay!Turnover(none) = Replay!Total(1, 0, terms)
    BY <1>2, Zenon DEF Replay!Turnover
  <2> HIDE DEF terms, terms2
  <2>2. Replay!Total(1, 0, terms) = Replay!Total(1, 0, terms2)
    <3>1. 1 \in Nat \ {0} /\ 0 \in Nat /\ \A k \in 1..0 : FALSE
      OBVIOUS
    <3> QED
      BY <3>1, TotalsAgree
  <2> QED
    BY <1>2, <1>3, <1>5, <2>1, <2>2 DEF HeldInStep, terms2
<1>8. HeldPoints(none, none, x.points) /\ HeldRuin(none, x.points)
  BY <1>2, <1>5 DEF HeldPoints, HeldRuin
<1>9. Held(candles, actions, execution)
  BY <1>1, <1>6, <1>7, <1>8 DEF Held
<1>10. Replay!AbstentionIsTold /\ evidence \in [action : Replay!Actions, signal : Replay!Actions, abstained : BOOLEAN]
  BY <1>1 DEF Replay!AbstentionIsTold, Replay!Actions
<1> QED
  BY <1>1, <1>9, <1>10, ExecutionSays

(* What the features and the answers come to: a signal, and an arm that follows it or is flat. *)
LEMMA EvaluationsAre ==
  ASSUME NEW s \in Sessions, NEW warm \in BOOLEAN, NEW e \in Replay!Evaluations(s.arm, s.strategy, warm)
  PROVE  /\ e.signal \in Replay!Actions /\ e.desired \in Replay!Actions
         /\ s.arm # "A" => e.desired \in {e.signal, "FLAT"}
<1>1. s.arm \in {"A", "B", "C", "D"}
  BY DEF Sessions
<1>2. PICK f \in Replay!Features, allowed \in BOOLEAN :
        /\ e.signal = Replay!Signal(s.strategy, f, warm)
        /\ e.desired = Replay!Policy(s.arm, s.strategy, e.signal, Replay!Regime(f, warm), allowed)
  <2> DEFINE verdicts == [desired \in Replay!Actions |-> {Replay!JevAllows(s.strategy, desired, a) : a \in Replay!JevAnswers(warm)}]
             views == {[signal |-> Replay!Signal(s.strategy, f, warm), regime |-> Replay!Regime(f, warm), calm |-> f.calm] : f \in Replay!Features}
             choices(v) == IF s.arm = "D" THEN verdicts[v.signal] ELSE {FALSE}
             made(v, allowed) == [signal |-> v.signal, desired |-> Replay!Policy(s.arm, s.strategy, v.signal, v.regime, allowed),
                                  limits |-> [warm |-> warm, calm |-> v.calm]]
  <2>1. PICK v \in views : \E allowed \in choices(v) : e = made(v, allowed)
    BY Zenon DEF Replay!Evaluations
  <2>2. PICK allowed \in choices(v) : e = made(v, allowed)
    BY <2>1
  <2>3. PICK f \in Replay!Features : v = [signal |-> Replay!Signal(s.strategy, f, warm), regime |-> Replay!Regime(f, warm), calm |-> f.calm]
    OBVIOUS
  <2>4. v.signal = Replay!Signal(s.strategy, f, warm) /\ v.regime = Replay!Regime(f, warm)
    BY <2>3
  <2>5. v.signal \in Replay!Actions
    BY <2>4 DEF Replay!Signal, Replay!EmaTrend, Replay!RsiMeanReversion, Replay!Actions
  <2>6. allowed \in BOOLEAN
    <3>1. \A a : Replay!JevAllows(s.strategy, v.signal, a) \in BOOLEAN
      BY DEF Replay!JevAllows
    <3>2. verdicts[v.signal] \subseteq BOOLEAN
      BY <2>5, <3>1
    <3> HIDE DEF verdicts
    <3> QED
      BY <3>2
  <2>7. e.signal = v.signal /\ e.desired = Replay!Policy(s.arm, s.strategy, v.signal, v.regime, allowed)
    BY <2>2
  <2> QED
    BY <2>4, <2>6, <2>7
<1>3. e.signal \in Replay!Actions
  BY <1>2 DEF Replay!Signal, Replay!EmaTrend, Replay!RsiMeanReversion, Replay!Actions
<1> QED
  BY <1>1, <1>2, <1>3 DEF Replay!Policy, Replay!Actions

(* A turn of the loop. *)
LEMMA ReplayStep ==
  Replay!ExecutionInv /\ (Replay!Next \/ UNCHANGED replayVars) => Replay!ExecutionInv'
<1> SUFFICES ASSUME Replay!ExecutionInv, Replay!Next \/ UNCHANGED replayVars PROVE Replay!ExecutionInv'
  OBVIOUS
<1>1. /\ session \in Sessions /\ evidence \in [action : Replay!Actions, signal : Replay!Actions, abstained : BOOLEAN]
      /\ Held(candles, actions, execution) /\ Replay!AbstentionIsTold
  BY ExecutionSays
<1>2. CASE UNCHANGED replayVars
  <2>1. session' = session /\ candles' = candles /\ execution' = execution /\ evidence' = evidence /\ actions' = actions
    BY <1>2 DEF replayVars
  <2>2. Replay!AbstentionIsTold'
    BY <1>1, <2>1 DEF Replay!AbstentionIsTold
  <2> QED
    BY <1>1, <2>1, <2>2, ExecutionSays
<1>3. CASE Replay!Next
  <2> DEFINE n == Len(candles)
  <2>1. PICK move \in IF candles = << >> THEN {0} ELSE Moves,
             e \in Replay!Evaluations(session.arm, session.strategy, n >= Warmup) :
          LET x == Replay!AdvanceBar(execution, n, move)
              action == Replay!Risk(e.desired, e.limits, Replay!Drawdown(x))
          IN /\ candles' = Append(candles, move)
             /\ execution' = Replay!CreateIntent(x, n, action)
             /\ actions' = Append(actions, action)
             /\ evidence' = [action |-> action, signal |-> e.signal,
                             abstained |-> e.desired # action \/ (action = "FLAT" /\ e.signal # "FLAT")]
             /\ session' = session
    BY <1>3 DEF Replay!Next, Replay!Bar
  <2> DEFINE x == Replay!AdvanceBar(execution, n, move)
             action == Replay!Risk(e.desired, e.limits, Replay!Drawdown(x))
  <2>2. /\ candles' = Append(candles, move) /\ execution' = Replay!CreateIntent(x, n, action)
        /\ actions' = Append(actions, action) /\ session' = session
        /\ evidence' = [action |-> action, signal |-> e.signal,
                        abstained |-> e.desired # action \/ (action = "FLAT" /\ e.signal # "FLAT")]
    BY <2>1
  <2>3. move \in Int
    BY ReplayNumbers
  <2>4. n = Len(actions) /\ n \in Nat
    BY <1>1 DEF Held, HeldTypes
  <2>5. /\ e.signal \in Replay!Actions /\ e.desired \in Replay!Actions
        /\ session.arm # "A" => e.desired \in {e.signal, "FLAT"}
    <3>1. (n >= Warmup) \in BOOLEAN
      OBVIOUS
    <3> DEFINE warm == n >= Warmup
    <3>2. warm \in BOOLEAN /\ e \in Replay!Evaluations(session.arm, session.strategy, warm)
      BY <3>1
    <3> HIDE DEF warm
    <3> QED
      BY <1>1, <3>2, EvaluationsAre
  <2>6. action \in {e.desired, "FLAT"} /\ (action # "FLAT" => ~(Replay!Drawdown(x) > MaxLoss))
    BY DEF Replay!Risk
  <2>7. action \in Replay!Actions
    BY <2>5, <2>6 DEF Replay!Actions
  <2> HIDE DEF x, action
  <2>8. Held(candles', actions', execution')
    <3>1. x = Replay!AdvanceBar(execution, Len(actions), move)
      BY <2>4 DEF x
    <3>2. Held(Append(candles, move), Append(actions, action), Replay!CreateIntent(x, Len(actions), action))
      BY <1>1, <2>3, <2>6, <2>7, <3>1, BarKeeps
    <3> QED
      BY <2>2, <2>4, <3>2
  <2>9. evidence'.action = action /\ evidence'.signal = e.signal
        /\ (evidence'.abstained <=> (e.desired # action \/ (action = "FLAT" /\ e.signal # "FLAT")))
        /\ evidence' \in [action : Replay!Actions, signal : Replay!Actions, abstained : BOOLEAN]
    <3> DEFINE told == e.desired # action \/ (action = "FLAT" /\ e.signal # "FLAT")
    <3>1. told \in BOOLEAN
      OBVIOUS
    <3>2. evidence' = [action |-> action, signal |-> e.signal, abstained |-> told]
      BY <2>2
    <3> HIDE DEF told
    <3>3. evidence'.action = action /\ evidence'.signal = e.signal /\ evidence'.abstained = told
          /\ evidence' \in [action : Replay!Actions, signal : Replay!Actions, abstained : BOOLEAN]
      BY <2>5, <2>7, <3>1, <3>2
    <3> QED
      BY <3>1, <3>3 DEF told
  <2>10. Replay!AbstentionIsTold'
    BY <2>2, <2>5, <2>6, <2>9 DEF Replay!AbstentionIsTold
  <2> QED
    BY <1>1, <2>2, <2>8, <2>9, <2>10, ExecutionSays
<1> QED
  BY <1>2, <1>3

\* The equity after k points, at first that of the beginning.
EquityOf(ps, k) == IF k = 0 THEN 0 ELSE ps[k].equity
\* The greatest equity of the first k points, and the greatest loss from one to a later one.
Worsts(w, ps, k) ==
  /\ w.peak \in Int /\ w.loss \in Int
  /\ \E a \in 0..k : w.peak = EquityOf(ps, a)
  /\ \A a \in 0..k : w.peak >= EquityOf(ps, a)
  /\ \E a, b \in 0..k : a <= b /\ w.loss = EquityOf(ps, a) - EquityOf(ps, b)
  /\ \A a, b \in 0..k : a <= b => w.loss >= EquityOf(ps, a) - EquityOf(ps, b)

(* One point more. *)
LEMMA WorstsGrow ==
  ASSUME NEW ps \in Seq(Replay!Points), NEW k \in 1..Len(ps), NEW w, Worsts(w, ps, k - 1)
  PROVE  Worsts(Replay!Worst(w, ps[k]), ps, k)
<1> DEFINE eq(a) == EquityOf(ps, a)
           last == ps[k].equity
           peak == IF last > w.peak THEN last ELSE w.peak
           loss == IF peak - last > w.loss THEN peak - last ELSE w.loss
           next == Replay!Worst(w, ps[k])
<1>1. k \in Nat /\ k - 1 \in Nat /\ \A a \in 0..k : a \in 0..(k - 1) \/ a = k
  OBVIOUS
<1>2. \A a \in 0..k : eq(a) \in Int
  <2> TAKE a \in 0..k
  <2>1. CASE a = 0
    BY <2>1 DEF EquityOf
  <2>2. CASE a # 0
    <3>1. ps[a] \in Replay!Points
      BY <2>2
    <3> QED
      BY <2>2, <3>1 DEF EquityOf, Replay!Points
  <2> QED
    BY <2>1, <2>2
<1>3. last = eq(k) /\ k \in 0..k /\ \A a \in 0..(k - 1) : a \in 0..k /\ a <= k
  BY <1>1 DEF EquityOf
<1>4. /\ w.peak \in Int /\ w.loss \in Int
      /\ \E a \in 0..(k - 1) : w.peak = eq(a)
      /\ \A a \in 0..(k - 1) : w.peak >= eq(a)
      /\ \E a, b \in 0..(k - 1) : a <= b /\ w.loss = eq(a) - eq(b)
      /\ \A a, b \in 0..(k - 1) : a <= b => w.loss >= eq(a) - eq(b)
  BY DEF Worsts
<1>5. next = [peak |-> peak, loss |-> loss]
  BY DEF Replay!Worst
<1> HIDE DEF eq, next, last
<1>6. peak \in Int /\ loss \in Int /\ last \in Int
  <2>1. last \in Int /\ w.peak \in Int /\ w.loss \in Int
    BY <1>2, <1>3, <1>4
  <2>2. peak \in Int
    BY <2>1
  <2> HIDE DEF peak
  <2> QED
    BY <2>1, <2>2
<1>7. (\E a \in 0..k : peak = eq(a)) /\ (\A a \in 0..k : peak >= eq(a))
  <2>1. CASE last > w.peak
    <3>1. peak = eq(k)
      BY <1>3, <2>1
    <3>2. \A a \in 0..(k - 1) : w.peak >= eq(a) /\ w.peak \in Int /\ eq(a) \in Int
      BY <1>2, <1>3, <1>4
    <3> HIDE DEF peak
    <3> QED
      BY <1>1, <1>2, <1>3, <1>6, <2>1, <3>1, <3>2
  <2>2. CASE ~(last > w.peak)
    <3>1. peak = w.peak
      BY <2>2
    <3>2. \E a \in 0..k : peak = eq(a)
      <4>1. PICK a \in 0..(k - 1) : w.peak = eq(a)
        BY <1>4
      <4> QED
        BY <1>3, <3>1, <4>1
    <3>3. peak >= eq(k)
      BY <1>3, <1>4, <1>6, <2>2, <3>1
    <3> HIDE DEF peak
    <3>4. \A a \in 0..(k - 1) : peak >= eq(a)
      BY <1>4, <3>1
    <3> QED
      BY <1>1, <3>2, <3>3, <3>4
  <2> QED
    BY <2>1, <2>2
<1>8. next.peak = peak /\ next.loss = loss
  BY <1>5
<1> HIDE DEF peak
<1>9. \E a, b \in 0..k : a <= b /\ loss = eq(a) - eq(b)
  <2>1. CASE peak - last > w.loss
    <3>1. PICK a \in 0..k : peak = eq(a)
      BY <1>7
    <3>2. loss = eq(a) - eq(k) /\ a <= k
      BY <1>3, <2>1, <3>1
    <3> QED
      BY <1>3, <3>2
  <2>2. CASE ~(peak - last > w.loss)
    <3>1. loss = w.loss
      BY <2>2
    <3> HIDE DEF loss
    <3>2. PICK a \in 0..(k - 1), b \in 0..(k - 1) : a <= b /\ w.loss = eq(a) - eq(b)
      BY <1>4
    <3> QED
      BY <1>3, <3>1, <3>2
  <2> QED
    BY <2>1, <2>2
<1>10. loss >= w.loss /\ loss >= peak - last /\ w.loss \in Int
  BY <1>4, <1>6
<1> HIDE DEF loss
<1>11. ASSUME NEW a \in 0..k, NEW b \in 0..k, a <= b PROVE loss >= eq(a) - eq(b)
  <2>1. CASE b = k
    <3>1. eq(b) = last /\ peak >= eq(a)
      BY <1>3, <1>7, <1>11, <2>1
    <3> DEFINE top == eq(a)
               end == eq(b)
    <3>2. top \in Int /\ end = last /\ peak >= top
      BY <1>2, <3>1
    <3> HIDE DEF top, end
    <3>3. loss >= top - end
      BY <1>6, <1>10, <3>2
    <3> QED
      BY <3>3 DEF top, end
  <2>2. CASE b \in 0..(k - 1)
    <3>1. a \in 0..(k - 1)
      BY <1>1, <1>11, <2>2
    <3>2. w.loss >= eq(a) - eq(b)
      BY <1>4, <1>11, <2>2, <3>1
    <3> QED
      <4> DEFINE d == eq(a) - eq(b)
      <4>1. eq(a) \in Int /\ eq(b) \in Int
        BY <1>2
      <4>2. d \in Int /\ w.loss >= d
        BY <3>2, <4>1
      <4> HIDE DEF d
      <4>3. loss >= d
        BY <1>6, <1>10, <4>2
      <4> QED
        BY <4>3 DEF d
  <2> QED
    BY <1>1, <2>1, <2>2
<1> QED
  BY <1>6, <1>7, <1>8, <1>9, <1>11 DEF Worsts, eq, next

(* The drawdown of the metrics is the greatest loss. *)
LEMMA WorstIs ==
  ASSUME NEW ps \in Seq(Replay!Points)
  PROVE  \E w : Worsts(w, ps, Len(ps)) /\ Replay!MaxDrawdown(ps) = w.loss
<1> DEFINE n == Len(ps)
           start == [peak |-> 0, loss |-> 0]
           V == [peak : Int, loss : Int]
           Rep(f) == f = [k \in 0..n |-> IF k = 0 THEN start ELSE Replay!Worst(f[k - 1], ps[k])]
           rep == CHOOSE f : Rep(f)
           g == [k \in (0 + 1)..n |-> [v \in V |-> Replay!Worst(v, ps[k])]]
<1>1. n \in Nat /\ \A k \in 1..n : ps[k] \in Replay!Points /\ k - 1 \in 0..n /\ k # 0 /\ k \in 0..n /\ k \in (0 + 1)..n
  OBVIOUS
<1>2. Replay!MaxDrawdown(ps) = rep[n].loss
  BY Zenon DEF Replay!MaxDrawdown
<1>3. start \in V
  OBVIOUS
<1>4. ASSUME NEW v \in V, NEW p \in Replay!Points PROVE Replay!Worst(v, p) \in V
  <2> DEFINE peak == IF p.equity > v.peak THEN p.equity ELSE v.peak
  <2>1. p.equity \in Int /\ v.peak \in Int /\ v.loss \in Int
    BY DEF Replay!Points
  <2>2. peak \in Int
    BY <2>1
  <2>3. Replay!Worst(v, p) = [peak |-> peak, loss |-> IF peak - p.equity > v.loss THEN peak - p.equity ELSE v.loss]
    BY DEF Replay!Worst
  <2> HIDE DEF peak
  <2>4. (IF peak - p.equity > v.loss THEN peak - p.equity ELSE v.loss) \in Int
    BY <2>1, <2>2
  <2> QED
    BY <2>2, <2>3, <2>4
<1> HIDE DEF start, V, n
<1>5. g \in [(0 + 1)..n -> [V -> V]]
  <2>1. \A k \in (0 + 1)..n : ps[k] \in Replay!Points
    BY <1>1
  <2> QED
    BY <1>4, <2>1
<1>6. PICK f \in [0..n -> V] : f[0] = start /\ \A k \in (0 + 1)..n : f[k] = g[k][f[k - 1]]
  <2>1. PICK f \in [0..n -> V] : Unfolds(f, 0, n, start, g)
    <3>1. 0 \in Int /\ n \in Int /\ 0 <= n
      BY <1>1
    <3> HIDE DEF g
    <3> QED
      BY <1>3, <1>5, <3>1, Recursion
  <2> HIDE DEF g
  <2> QED
    BY <2>1 DEF Unfolds
<1>7. \A k \in 1..n : f[k] = Replay!Worst(f[k - 1], ps[k])
  <2> TAKE k \in 1..n
  <2>1. f[k - 1] \in V /\ k \in (0 + 1)..n
    BY <1>1, <1>6
  <2>2. g[k][f[k - 1]] = Replay!Worst(f[k - 1], ps[k])
    BY <2>1
  <2> HIDE DEF g
  <2> QED
    BY <1>6, <2>1, <2>2
<1>8. Rep(f)
  <2>1. \A k \in 0..n : k = 0 \/ k \in 1..n
    BY <1>1
  <2> QED
    BY <1>6, <1>7, <2>1
<1>9. Rep(rep)
  <2> HIDE DEF Rep
  <2> QED
    BY <1>8
<1> HIDE DEF rep
<1>10. rep[0] = start /\ \A k \in 1..n : rep[k] = Replay!Worst(rep[k - 1], ps[k])
  <2>1. rep = [k \in 0..n |-> IF k = 0 THEN start ELSE Replay!Worst(rep[k - 1], ps[k])]
    BY <1>9
  <2>2. 0 \in 0..n
    BY <1>1
  <2> QED
    BY <1>1, <2>1, <2>2
<1> DEFINE S == {k \in 0..n : Worsts(rep[k], ps, k)}
<1>11. 0 \in S
  <2>1. Worsts(start, ps, 0)
    <3>1. start.peak = 0 /\ start.loss = 0 /\ \A a \in 0..0 : EquityOf(ps, a) = 0
      BY DEF start, EquityOf
    <3> QED
      BY <3>1 DEF Worsts
  <2> QED
    BY <1>1, <1>10, <2>1
<1>12. ASSUME NEW k \in 1..n, k - 1 \in S PROVE k \in S
  <2>1. Worsts(rep[k - 1], ps, k - 1) /\ k \in 1..Len(ps)
    BY <1>12 DEF n
  <2>2. Worsts(Replay!Worst(rep[k - 1], ps[k]), ps, k)
    BY <2>1, WorstsGrow
  <2> QED
    BY <1>1, <1>10, <2>2
<1> HIDE DEF S
<1>13. \A k \in 0..n : k \in S
  BY <1>1, <1>11, <1>12, ClimbUp
<1>14. Worsts(rep[n], ps, n)
  BY <1>1, <1>13 DEF S
<1> QED
  BY <1>2, <1>14 DEF n

(* The metrics say of a session what its decisions and its candles say of it. *)
LEMMA MetricsHold == Held(candles, actions, execution) => Replay!MetricsAgree
<1> SUFFICES ASSUME Held(candles, actions, execution) PROVE Replay!MetricsAgree
  OBVIOUS
<1> DEFINE n == Len(actions)
           ps == execution.points
           m == Replay!PathMetrics(execution)
           losses == {(IF p[1] = 0 THEN 0 ELSE ps[p[1]].equity) - (IF p[2] = 0 THEN 0 ELSE ps[p[2]].equity) :
                        p \in {q \in (0..n) \X (0..n) : q[1] <= q[2]}}
<1>1. /\ n \in Nat /\ actions \in Seq(Replay!Actions) /\ ps \in Seq(Replay!Points) /\ Len(ps) = n /\ DOMAIN ps = 1..n
      /\ HeldInStep(actions, execution) /\ HeldPoints(candles, actions, ps)
  BY DEF Held, HeldTypes, Replay!Executions
<1>2. m.turnover = Replay!Turnover(execution.transitions)
      /\ m.exposure = Replay!Total(2, Len(ps), [k \in DOMAIN ps |-> Replay!Size(ps[k].applied)])
      /\ m.maxDrawdown = Replay!MaxDrawdown(ps)
  BY DEF Replay!PathMetrics
<1>3. \A k : Replay!Target(k) = Aim(actions, k)
  BY DEF Replay!Target, Aim
<1>4. m.turnover = Replay!Total(1, n, [k \in 1..n |-> Replay!Size(Replay!Target(k - 1) - Replay!Target(k - 2))])
  BY <1>1, <1>2, <1>3, Zenon DEF HeldInStep
<1>5. m.exposure = Replay!Total(1, n, [k \in 1..n |-> Replay!Size(Replay!Target(k - 2))])
  <2> DEFINE terms == [k \in DOMAIN ps |-> Replay!Size(ps[k].applied)]
             terms2 == [k \in 1..n |-> Replay!Size(Replay!Target(k - 2))]
  <2>1. \A k \in 1..n : /\ terms[k] \in Int /\ terms2[k] \in Int
                        /\ (IF k < 2 THEN 0 ELSE terms[k]) = (IF k < 1 THEN 0 ELSE terms2[k])
    <3> TAKE k \in 1..n
    <3>1. terms[k] = Replay!Size(Aim(actions, k - 2)) /\ terms2[k] = Replay!Size(Aim(actions, k - 2))
      BY <1>1, <1>3 DEF HeldPoints
    <3>2. Replay!Size(Aim(actions, k - 2)) \in Int
      BY <1>1, AimsAre, SizesAre
    <3>3. k < 2 => terms2[k] = 0
      <4>1. k < 2 => k - 2 \in Int /\ k - 2 <= 0
        OBVIOUS
      <4>2. k < 2 => Aim(actions, k - 2) = 0
        BY <1>1, <4>1, AimsAre
      <4> QED
        BY <3>1, <4>2 DEF Replay!Size
    <3> HIDE DEF terms, terms2
    <3> QED
      BY <3>1, <3>2, <3>3
  <2>2. m.exposure = Replay!Total(2, n, terms)
    BY <1>1, <1>2
  <2> HIDE DEF terms, terms2
  <2>3. Replay!Total(2, n, terms) = Replay!Total(1, n, terms2)
    <3> DEFINE one == 1
               two == 2
    <3>1. one \in Nat \ {0} /\ two \in Nat \ {0} /\ n \in Nat
      BY <1>1
    <3>2. \A k \in 1..n : /\ terms[k] \in Int /\ terms2[k] \in Int
                          /\ (IF k < two THEN 0 ELSE terms[k]) = (IF k < one THEN 0 ELSE terms2[k])
      BY <2>1
    <3> HIDE DEF one, two
    <3>3. Replay!Total(two, n, terms) = Replay!Total(one, n, terms2)
      BY <3>1, <3>2, TotalsAgree
    <3> QED
      BY <3>3 DEF one, two
  <2> QED
    BY <2>2, <2>3 DEF terms2
<1>6. m.maxDrawdown = Replay!Max(losses)
  <2>1. PICK w : Worsts(w, ps, n) /\ Replay!MaxDrawdown(ps) = w.loss
    BY <1>1, WorstIs
  <2>2. \A a \in 0..n : (IF a = 0 THEN 0 ELSE ps[a].equity) = EquityOf(ps, a)
    BY DEF EquityOf
  <2>3. w.loss \in losses
    <3>1. PICK a \in 0..n, b \in 0..n : a <= b /\ w.loss = EquityOf(ps, a) - EquityOf(ps, b)
      BY <2>1 DEF Worsts
    <3> DEFINE p == <<a, b>>
    <3>2. p \in {q \in (0..n) \X (0..n) : q[1] <= q[2]} /\ p[1] = a /\ p[2] = b
      BY <3>1
    <3> HIDE DEF p
    <3> QED
      BY <2>2, <3>1, <3>2
  <2>4. \A l \in losses : w.loss >= l
    <3> SUFFICES ASSUME NEW p \in {q \in (0..n) \X (0..n) : q[1] <= q[2]}
                 PROVE  w.loss >= (IF p[1] = 0 THEN 0 ELSE ps[p[1]].equity) - (IF p[2] = 0 THEN 0 ELSE ps[p[2]].equity)
      OBVIOUS
    <3>1. p[1] \in 0..n /\ p[2] \in 0..n /\ p[1] <= p[2]
      OBVIOUS
    <3>2. w.loss >= EquityOf(ps, p[1]) - EquityOf(ps, p[2])
      BY <2>1, <3>1 DEF Worsts
    <3> QED
      BY <2>2, <3>1, <3>2
  <2>5. losses \subseteq Int
    <3>1. \A a \in 0..n : EquityOf(ps, a) \in Int
      <4>1. \A a \in 1..n : ps[a].equity \in Int
        <5>1. \A a \in 1..n : ps[a] \in Replay!Points
          BY <1>1
        <5> HIDE DEF ps
        <5> QED
          BY <5>1 DEF Replay!Points
      <4>2. \A a \in 0..n : a = 0 \/ a \in 1..n
        BY <1>1
      <4> QED
        BY <4>1, <4>2 DEF EquityOf
    <3> QED
      BY <2>2, <3>1
  <2> HIDE DEF losses
  <2>6. \A l \in losses : (\A e \in losses : l >= e) => l = w.loss
    <3> TAKE l \in losses
    <3>1. l \in Int /\ w.loss \in Int
      BY <2>3, <2>5
    <3> HAVE \A e \in losses : l >= e
    <3>2. l >= w.loss /\ w.loss >= l
      BY <2>3, <2>4
    <3> QED
      BY <3>1, <3>2
  <2>7. Replay!Max(losses) = w.loss
    <3> DEFINE max == CHOOSE l \in losses : \A e \in losses : l >= e
    <3>1. max \in losses /\ \A e \in losses : max >= e
      BY <2>3, <2>4
    <3>2. Replay!Max(losses) = max
      BY DEF Replay!Max
    <3> HIDE DEF max
    <3> QED
      BY <2>6, <3>1, <3>2
  <2> QED
    BY <1>2, <2>1, <2>7
<1> HIDE DEF m
<1> QED
  BY <1>4, <1>5, <1>6, Zenon DEF Replay!MetricsAgree, m

(* A session in its ruin never trades again. *)
LEMMA RuinHolds == Held(candles, actions, execution) => Replay!RuinIsFinal
<1> SUFFICES ASSUME Held(candles, actions, execution) PROVE Replay!RuinIsFinal
  OBVIOUS
<1>1. \A k : Replay!Target(k) = Aim(actions, k)
  BY DEF Replay!Target, Aim
<1>2. \A j : Replay!DrawdownAt(j) = DrawnDown(execution.points, j)
  BY DEF Replay!DrawdownAt, DrawnDown
<1>3. HeldRuin(actions, execution.points)
  BY DEF Held
<1> QED
  BY <1>1, <1>2, <1>3, Zenon DEF Replay!RuinIsFinal, HeldRuin

----------------------------------------------------------------------------
(* The run of the parts.                                                    *)

(* What a step of the run is for one part. *)
LEMMA PartsMove ==
  ASSUME [SafetyNext]_<<part, vars, replayVars, partVars>>
  PROVE  /\ part' = part
         /\ part = "db" => Boot!Next \/ UNCHANGED partVars
         /\ part = "signin" => Sign!Next \/ UNCHANGED partVars
         /\ part = "gate" => Gate!Next \/ UNCHANGED partVars
         /\ part = "connector" => Proxy!Next \/ UNCHANGED partVars
         /\ part = "bridge" => Bridge!Next \/ UNCHANGED partVars
         /\ part = "p2p" => Room!Next \/ UNCHANGED partVars
         /\ part = "session" => Paper!Next \/ UNCHANGED partVars
         /\ part = "fills" => Fills!Next \/ UNCHANGED partVars
  BY DEF SafetyNext, Rest

(* Every part starts as its module says. *)
LEMMA PartsStart ==
  ASSUME SafetyInit
  PROVE  /\ part = "db" => Boot!Init
         /\ part = "signin" => Sign!Init
         /\ part = "gate" => Gate!Init
         /\ part = "connector" => Proxy!Init
         /\ part = "bridge" => Bridge!Init
         /\ part = "p2p" => Room!Init
         /\ part = "session" => Paper!Init
         /\ part = "fills" => Fills!Init
  BY DEF SafetyInit

----------------------------------------------------------------------------
(* The theorems.                                                            *)

\* The inductive invariants, each of its part.
MigrationsHold == part = "db" => Boot!MigrationsInv
IdentityHolds ==
  /\ part = "signin" => Sign!SignInInv
  /\ part = "gate" => Gate!GateInv
  /\ part = "connector" => Proxy!ConnectorInv
PageHolds ==
  /\ part = "bridge" => Bridge!BridgeInv
  /\ part = "p2p" => RoomP!BufferInv
ReplayHolds == part = "replay" => Replay!ExecutionInv
ResearchHolds ==
  /\ part = "session" => Paper!SessionInv
  /\ part = "fills" => Fills!FillsInv

(* The passes of all instances are in one order, and the rows of _migrations say what took effect. *)
THEOREM MigrationsInvariance == SafetySpec => []MigrationsHold
<1>1. SafetyInit => MigrationsHold
  BY PartsStart, BootStarts DEF MigrationsHold
<1>2. MigrationsHold /\ [SafetyNext]_<<part, vars, replayVars, partVars>> => MigrationsHold'
  BY PartsMove, BootStep, BootRests DEF MigrationsHold
<1> QED
  BY <1>1, <1>2, PTL DEF SafetySpec

(* The migrations of getSql(): whoever runs them, and whatever fails, an instance that is ready has had each of its
   files take effect exactly once, and on PGLite no pass fails because of another. *)
THEOREM MigrationsRunOnce == SafetySpec => []MigrationInv
<1>1. MigrationsHold => MigrationInv
  BY BootTells DEF MigrationsHold, MigrationInv
<1> QED
  BY <1>1, MigrationsInvariance, PTL

(* The tokens, cookies and sessions that the identity rests on are of whom and of when they should be. *)
THEOREM IdentityInvariance == SafetySpec => []IdentityHolds
<1>1. SafetyInit => IdentityHolds
  BY PartsStart, SignInStarts, GateStarts, ConnectorStarts DEF IdentityHolds
<1>2. IdentityHolds /\ [SafetyNext]_<<part, vars, replayVars, partVars>> => IdentityHolds'
  <2> SUFFICES ASSUME IdentityHolds, [SafetyNext]_<<part, vars, replayVars, partVars>> PROVE IdentityHolds'
    OBVIOUS
  <2>1. part = "signin" => Sign!SignInInv'
    BY PartsMove, SignInStep, SignInRests DEF IdentityHolds
  <2>2. part = "gate" => Gate!GateInv'
    BY PartsMove, GateStep, GateRests DEF IdentityHolds
  <2>3. part = "connector" => Proxy!ConnectorInv'
    BY PartsMove, ConnectorStep, ConnectorRests DEF IdentityHolds
  <2> QED
    BY <2>1, <2>2, <2>3, PartsMove DEF IdentityHolds
<1> QED
  BY <1>1, <1>2, PTL DEF SafetySpec

(* Signing in and out, the gate's session and the connector's token: no answer of another user, of another session or
   of an earlier call is taken for the present one. *)
THEOREM IdentityIsRight == SafetySpec => []IdentityInv
<1>1. IdentityHolds => IdentityInv
  BY DEF IdentityHolds, IdentityInv, Sign!SignInInv, Gate!GateInv, Proxy!ConnectorInv
<1> QED
  BY <1>1, IdentityInvariance, PTL

(* The bridge and the room keep their parts in step. *)
THEOREM PageInvariance == SafetySpec => []PageHolds
<1>1. SafetyInit => PageHolds
  BY PartsStart, BridgeStarts, RoomBegins DEF PageHolds
<1>2. PageHolds /\ [SafetyNext]_<<part, vars, replayVars, partVars>> => PageHolds'
  <2> SUFFICES ASSUME PageHolds, [SafetyNext]_<<part, vars, replayVars, partVars>> PROVE PageHolds'
    OBVIOUS
  <2>1. part = "bridge" => Bridge!BridgeInv'
    BY PartsMove, BridgeStep, BridgeRests DEF PageHolds
  <2>2. part = "p2p" => RoomP!BufferInv'
    BY PartsMove, RoomGoesOn DEF PageHolds
  <2> QED
    BY <2>1, <2>2, PartsMove DEF PageHolds
<1> QED
  BY <1>1, <1>2, PTL DEF SafetySpec

(* The preview's history and the connections of a room: Back is refused only on the first entry, the address bar shows
   where the frame is, and of a room the polling goes on, a peer has one connection and its candidates are applied. *)
THEOREM PageIsRight == SafetySpec => []PageInv
<1>1. PageHolds => PageInv
  BY RoomTells DEF PageHolds, PageInv, Bridge!BridgeInv
<1> QED
  BY <1>1, PageInvariance, PTL

(* What a decision was made of is still there, and the broker's fills follow each other. *)
THEOREM ResearchInvariance == SafetySpec => []ResearchHolds
<1>1. SafetyInit => ResearchHolds
  BY PartsStart, SessionStarts, FillsStart DEF ResearchHolds
<1>2. ResearchHolds /\ [SafetyNext]_<<part, vars, replayVars, partVars>> => ResearchHolds'
  <2> SUFFICES ASSUME ResearchHolds, [SafetyNext]_<<part, vars, replayVars, partVars>> PROVE ResearchHolds'
    OBVIOUS
  <2>1. part = "session" => Paper!SessionInv'
    BY PartsMove, SessionStep, SessionRests DEF ResearchHolds
  <2>2. part = "fills" => Fills!FillsInv'
    BY PartsMove, FillsStep, FillsRest DEF ResearchHolds
  <2> QED
    BY <2>1, <2>2, PartsMove DEF ResearchHolds
<1> QED
  BY <1>1, <1>2, PTL DEF SafetySpec

(* The research of paper-session.ts: signal parity passes exactly where each live decision starts from the one of the
   minute before, the second strategy changes its target no more often than the first and enters on no older bar, and
   a round trip that is reported is a stretch of the broker's history from flat to flat. *)
THEOREM ResearchIsRight == SafetySpec => []ResearchInv
<1>1. ResearchHolds => ResearchInv
  BY SessionSays, ParityHolds, DampsHolds, EntriesHold, TripsHold, OrderHolds DEF ResearchHolds, ResearchInv
<1> QED
  BY <1>1, ResearchInvariance, PTL

(* Every intent but the newest is over, and the newest is the decision of the last bar. *)
THEOREM ReplayInvariance == SafetySpec => []ReplayHolds
<1>1. SafetyInit => ReplayHolds
  BY ReplayStarts DEF SafetyInit, ReplayHolds
<1>2. ReplayHolds /\ [SafetyNext]_<<part, vars, replayVars, partVars>> => ReplayHolds'
  <2> SUFFICES ASSUME ReplayHolds, [SafetyNext]_<<part, vars, replayVars, partVars>> PROVE ReplayHolds'
    OBVIOUS
  <2>1. part' = part /\ (part = "replay" => Replay!Next \/ UNCHANGED replayVars)
    BY DEF SafetyNext, Rest
  <2> QED
    BY <2>1, ReplayStep DEF ReplayHolds
<1> QED
  BY <1>1, <1>2, PTL DEF SafetySpec

(* The replay of pipeline.ts and execution.ts: a decision is filled at the next close and counted from there on, the
   metrics agree with the decisions, abstentions are told, and ruin is final. *)
THEOREM ReplayIsRight == SafetySpec => []ReplayInv
<1>1. ReplayHolds => ReplayInv
  <2> SUFFICES ASSUME part = "replay", Replay!ExecutionInv PROVE ReplayInv
    BY DEF ReplayHolds, ReplayInv
  <2>1. Held(candles, actions, execution)
    BY ExecutionSays
  <2>2. Replay!MetricsAgree /\ Replay!RuinIsFinal
    BY <2>1, MetricsHold, RuinHolds
  <2> QED
    BY <2>2 DEF ReplayInv, Replay!ExecutionInv
<1> QED
  BY <1>1, ReplayInvariance, PTL
=============================================================================
