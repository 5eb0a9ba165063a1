--------------------- MODULE DurableMarketWorker_proofs ---------------------
(* Proofs about DurableMarketWorker: what is presented as verified is        *)
(* stored and reaches the newest bar, and the worker's writes, of however    *)
(* many runs, implement the append-only EvidenceLedger.                      *)
EXTENDS DurableMarketWorker, FiniteSetTheorems, NaturalsInduction, WellFoundedInduction, TLAPS

----------------------------------------------------------------------------
(* The inductive invariant.                                                 *)

Times == Minutes \cup {Nil}
PCs == {"new", "acquire", "read", "attempt", "fetch", "chunk", "stored", "attemptFailed", "final", "startSave", "barWrite",
        "gapSave", "barSave", "idle", "halting", "release", "stopRow", "done", "dead"}
Jobs ==
  [lo : Times, hi : Times, need : SUBSET Minutes, range : SUBSET Minutes, got : SUBSET Minutes, left : SUBSET Minutes]
LiveBars == [t : Times, v : {"a", "b"}]
Workers ==
  [pc : PCs, state : {"STOPPED", "STARTING", "READY", "HALTED"}, stopped : BOOLEAN, ending : BOOLEAN, held : BOOLEAN,
   src : {"IDLE", "CONNECTING", "UP", "FAILED", "CLOSED"}, ev : Evidence, latest : Times, why : Reasons, job : Jobs,
   bar : LiveBars, todo : SUBSET {"row", "save"}]
Checkpoints == [run : 0..NRuns, ev : Evidence, latest : Times, why : Reasons]

\* The minutes REST returns whenever it is asked: those it never lacked and those it has returned.
Known == {m \in Minutes : m \notin Sparse \/ m \in served}

\* Verified evidence: the minutes of its window up to the newest bar are in the ledger dom, and its range ends
\* at that bar, or is a bootstrap's that a minute was missing for.
Solid(ev, latest, dom) ==
  /\ ev.lo # Nil /\ ev.hi # Nil /\ ev.lo <= ev.hi /\ ev.hi <= latest
  /\ \A m \in Minutes : ev.lo <= m /\ m <= latest /\ m > ev.hi - Window => m \in dom
  /\ ev.hi = latest \/ (ev.kind = "BOOTSTRAP" /\ \E m \in Sparse : m \in ev.lo..(ev.hi + 1))

\* An exact recovery will extend the range to the end of its interval.
Extends(x, dom) ==
  /\ x.job.lo \in Minutes /\ x.job.hi \in Minutes /\ x.job.lo <= x.job.hi
  /\ x.latest <= x.job.hi /\ x.ev.lo <= x.job.hi
  /\ x.ev.lo # Nil => \A m \in Minutes : x.ev.lo <= m /\ m < x.job.lo /\ m > x.job.hi - Window => m \in dom
  /\ x.bar # NoBar => x.bar.t = x.job.hi + 1

\* A bootstrap reads the window before the clock, and what the ledger holds after the last bar it got is whole.
Asking(x, own, dom) == own => \A m \in dom : m <= x.latest
Answered(x, own, dom) ==
  /\ x.job.got \subseteq x.job.range /\ \A m \in x.job.range : m \in x.job.got \/ m \in Sparse
  /\ x.job.got # {} /\ own =>
       \A m \in Minutes : m <= x.latest /\ (\A k \in x.job.got : k < m) => m \in dom
Boots(x, own, dom) ==
  /\ x.bar = NoBar /\ x.ev.kind = "BOOTSTRAP"
  /\ x.job.lo \in Minutes /\ x.job.hi \in Minutes /\ x.job.range = x.job.lo..x.job.hi
  /\ x.latest <= x.job.hi /\ (x.latest # Nil => x.latest \in dom)
  /\ IF x.pc \in {"attempt", "fetch"} THEN Asking(x, own, dom) ELSE Answered(x, own, dom)

\* What is true of one worker, own saying whether it owns the lease and now what the clock says.
Recovers(x) == x.pc \in {"attempt", "fetch", "chunk", "stored", "attemptFailed", "final", "gapSave"}
Goes(x) == x.pc \in {"startSave", "barWrite", "barSave"} \/ (x.pc = "idle" /\ Active(x))
IsExact(x) ==
  x.pc = "final" \/ (x.pc = "attempt" /\ x.job.need # {}) \/ (x.pc \in {"fetch", "chunk", "stored"} /\ x.ev.kind # "BOOTSTRAP")
IsBoot(x) ==
  (x.pc = "attempt" /\ x.job.need = {}) \/ (x.pc \in {"fetch", "chunk", "stored"} /\ x.ev.kind = "BOOTSTRAP")

Sound(x, dom) == x \in Workers /\ (x.ev.cont = "VERIFIED" => Solid(x.ev, x.latest, dom))
\* The minutes it asks for have passed, and what it is about to store REST has returned.
Timely(x, known, now) ==
  /\ x.job.need \cup x.job.range \cup x.job.got \cup x.job.left \subseteq 0..now
  /\ x.job.left \subseteq known /\ x.bar.t <= now
Fine(x, own, dom, known, now) ==
  /\ Sound(x, dom) /\ Timely(x, known, now)
  /\ Recovers(x) => x.ev.cont = "GAP"
  /\ Goes(x) => x.ev.cont = "VERIFIED"
  /\ x.pc \in {"halting", "release", "stopRow"} => x.state \in {"HALTED", "STOPPED"}
  /\ x.pc \in {"new", "acquire", "read"} => x.bar = NoBar
  /\ x.pc \in {"barWrite", "gapSave"} => x.bar.t # Nil
  /\ x.pc = "gapSave" => Solid(x.ev, x.latest, dom) /\ x.bar.t > x.latest + 1
  /\ x.pc = "barWrite" => x.bar.t <= x.latest + 1
  /\ IsExact(x) => Extends(x, dom)
  /\ IsBoot(x) => Boots(x, own, dom)

\* Below a stored minute, a missing one has a stored one above it that REST returns.
Bridged(dom, known) == \A m \in Minutes, k \in dom : m < k /\ m \notin dom => \E n \in dom \cap known : n > m

StoreOK ==
  /\ clock \in Minutes /\ clock >= Window - 1
  /\ bars = [m \in DOMAIN bars |-> bars[m]] /\ DOMAIN bars \subseteq 0..clock /\ disputed \subseteq DOMAIN bars /\ served \subseteq 0..clock
  /\ Bridged(DOMAIN bars, Known)
CheckpointOK == cp \in Checkpoints /\ (cp.ev.cont = "VERIFIED" => Solid(cp.ev, cp.latest, DOMAIN bars))
LeaseOK ==
  /\ lease \in [run : 0..NRuns, live : BOOLEAN] /\ (lease.live => lease.run \in Runs)
  /\ DOMAIN row = Runs /\ \A r \in Runs : w[r].pc # "new" \/ (lease.live /\ lease.run = r) => row[r] # "NONE"
RunsOK == DOMAIN w = Runs /\ \A r \in Runs : Fine(w[r], Owns(r), DOMAIN bars, Known, clock)
DurableInv == StoreOK /\ CheckpointOK /\ LeaseOK /\ RunsOK

----------------------------------------------------------------------------
(* Numbers and sets.                                                        *)

(* The bounds are numbers, and Nil is none of the minutes. *)
LEMMA BoundsParts ==
  /\ NRuns \in Nat /\ NRuns >= 1 /\ MaxMinute \in Nat /\ Window \in Nat /\ Window >= 1 /\ Window <= MaxMinute
  /\ MinSuffix \in Nat /\ MinSuffix >= 1 /\ Minutes \subseteq Nat /\ Nil \notin Minutes
BY Bounds DEF Minutes, Nil

(* A set of numbers has a least element, and Min() is it. *)
LEMMA MinIsLeast == ASSUME NEW S \in SUBSET Nat, S # {} PROVE Min(S) \in S /\ \A m \in S : Min(S) <= m
<1>1. PICK m \in S : \A n \in S : ~(<<n, m>> \in OpToRel(<, Nat))
  BY NatLessThanWellFounded, WFMin
<1>2. ASSUME NEW n \in S PROVE m <= n
  <2>1. m \in Nat /\ n \in Nat
    OBVIOUS
  <2>2. n < m => <<n, m>> \in OpToRel(<, Nat)
    BY <2>1 DEF OpToRel
  <2>3. ~(n < m)
    BY <1>1, <2>2, Zenon
  <2> QED
    BY <2>1, <2>3
<1> QED
  BY <1>2 DEF Min

(* A set of minutes has a greatest element, and Max() is it. *)
LEMMA MaxIsGreatest ==
  ASSUME NEW n \in Nat, NEW S \in SUBSET (0..n), S # {}
  PROVE  Max(S) \in S /\ \A m \in S : m <= Max(S)
<1> DEFINE U == {k \in Nat : \A m \in S : m <= k}
<1>1. n \in U
  OBVIOUS
<1>2. Min(U) \in U /\ \A k \in U : Min(U) <= k
  BY <1>1, MinIsLeast
<1> DEFINE u == Min(U)
<1>3. u \in Nat /\ \A m \in S : m <= u
  BY <1>2
<1>4. u \in S
  <2>1. SUFFICES ASSUME u \notin S PROVE FALSE
    OBVIOUS
  <2>2. u > 0
    <3>1. PICK m : m \in S
      OBVIOUS
    <3>2. m \in Nat /\ m <= u /\ m # u
      BY <1>3, <2>1, <3>1
    <3> QED
      BY <1>3, <3>2
  <2>3. u - 1 \in U
    BY <1>3, <2>1, <2>2
  <2> QED
    BY <1>2, <1>3, <2>3
<1> HIDE DEF u
<1> QED
  BY <1>3, <1>4 DEF Max

(* Of two numbers. *)
LEMMA MaxOfTwo == ASSUME NEW a \in Int, NEW b \in Int PROVE Max({a, b}) = IF a >= b THEN a ELSE b
BY DEF Max

----------------------------------------------------------------------------
(* The worker object: what its local code changes.                          *)

\* What x and y have in common that the invariant is about.
SameRun(x, y) == y.held = x.held /\ y.stopped = x.stopped
SameEvidence(x, y) == y.ev = x.ev /\ y.latest = x.latest
NoWork(y) == y.job = NoJob /\ y.bar = NoBar

(* A worker at rest. *)
LEMMA RestParts == NoJob \in Jobs /\ NoBar \in LiveBars /\ EmptyEvidence \in Evidence /\ NewWorker \in Workers
<1>1. NoJob \in Jobs /\ NoBar \in LiveBars
  BY DEF NoJob, Jobs, Times, Nil, NoBar, LiveBars
<1>2. EmptyEvidence \in Evidence
  BY DEF EmptyEvidence, Evidence, Nil
<1> QED
  BY <1>1, <1>2 DEF NewWorker, Workers, PCs, Times, Nil, Reasons

(* Going on. *)
LEMMA GoParts ==
  ASSUME NEW x \in Workers, NEW pc \in PCs
  PROVE  /\ Go(x, pc) \in Workers /\ Go(x, pc).pc = pc /\ SameRun(x, Go(x, pc)) /\ SameEvidence(x, Go(x, pc))
         /\ Go(x, pc).job = x.job /\ Go(x, pc).bar = x.bar /\ Go(x, pc).state = x.state
BY DEF Go, Workers, SameRun, SameEvidence

(* Done. *)
LEMMA IdleParts ==
  ASSUME NEW x \in Workers
  PROVE  /\ Idle(x) \in Workers /\ Idle(x).pc = "idle" /\ SameRun(x, Idle(x)) /\ SameEvidence(x, Idle(x)) /\ NoWork(Idle(x))
         /\ Idle(x).state = x.state
BY RestParts DEF Idle, Workers, PCs, SameRun, SameEvidence, NoWork

(* Halted. *)
LEMMA QuitParts ==
  ASSUME NEW x \in Workers, NEW why \in Reasons
  PROVE  /\ Quit(x, why) \in Workers /\ Quit(x, why).pc = "halting" /\ SameRun(x, Quit(x, why))
         /\ SameEvidence(x, Quit(x, why)) /\ NoWork(Quit(x, why)) /\ Quit(x, why).state = "HALTED"
<1> DEFINE y == [Idle(x) EXCEPT !.src = "CLOSED"]
<1>1. y \in Workers /\ SameRun(x, y) /\ SameEvidence(x, y) /\ NoWork(y)
  BY IdleParts DEF Workers, SameRun, SameEvidence, NoWork
<1> DEFINE t == {"row"} \cup (IF x.held THEN {"save"} ELSE {})
<1>2. Quit(x, why) = [y EXCEPT !.state = "HALTED", !.why = why, !.pc = "halting", !.todo = t]
  BY DEF Quit, Closed
<1>3. t \in SUBSET {"row", "save"}
  OBVIOUS
<1> DEFINE z == Quit(x, why)
<1> HIDE DEF y, t, z
<1>4. z = [y EXCEPT !.state = "HALTED", !.why = why, !.pc = "halting", !.todo = t]
  BY <1>2 DEF z
<1>5. z \in Workers
  BY <1>1, <1>3, <1>4 DEF Workers, PCs
<1>6. /\ z.pc = "halting" /\ z.state = "HALTED" /\ z.ev = y.ev /\ z.latest = y.latest /\ z.job = y.job /\ z.bar = y.bar
      /\ z.held = y.held /\ z.stopped = y.stopped
  BY <1>1, <1>4 DEF Workers
<1> QED
  BY <1>1, <1>5, <1>6 DEF z, SameRun, SameEvidence, NoWork

(* Halted, and nobody reads its evidence any more. *)
LEMMA SpentParts ==
  ASSUME NEW x \in Workers
  PROVE  /\ Spent(x) \in Workers /\ Spent(x).pc = x.pc /\ SameRun(x, Spent(x)) /\ NoWork(Spent(x)) /\ Spent(x).state = x.state
         /\ Spent(x).ev = EmptyEvidence
<1>1. NewWorker \in Workers /\ NewWorker.job = NoJob /\ NewWorker.bar = NoBar /\ NewWorker.ev = EmptyEvidence
  BY RestParts DEF NewWorker
<1> QED
  BY <1>1 DEF Spent, Workers, SameRun, NoWork

(* Released. *)
LEMMA FreedParts ==
  ASSUME NEW x \in Workers
  PROVE  /\ Freed(x) \in Workers /\ NoWork(Freed(x)) /\ ~Freed(x).held /\ Freed(x).ev = EmptyEvidence
         /\ Freed(x).pc = "done" \/ (Freed(x).pc = "idle" /\ Freed(x).state = x.state)
<1>1. CASE x.ending
  <2>1. NewWorker \in Workers /\ NewWorker.job = NoJob /\ NewWorker.bar = NoBar /\ NewWorker.ev = EmptyEvidence /\ ~NewWorker.held
    BY RestParts DEF NewWorker
  <2>2. "done" \in PCs
    BY DEF PCs
  <2> QED
    BY <1>1, <2>1, <2>2, GoParts DEF Freed, NoWork, SameRun, SameEvidence
<1>2. CASE ~x.ending
  <2> DEFINE y == Spent(x)
  <2>1. y \in Workers /\ NoWork(y) /\ y.ev = EmptyEvidence /\ y.state = x.state
    BY SpentParts
  <2>2. Freed(x) = [y EXCEPT !.pc = "idle", !.held = FALSE]
    BY <1>2 DEF Freed
  <2> HIDE DEF y
  <2> QED
    BY <2>1, <2>2 DEF Workers, PCs, NoWork
<1> QED
  BY <1>1, <1>2 DEF Workers

(* Out of continuity. *)
LEMMA MarkedParts ==
  ASSUME NEW x \in Workers
  PROVE  /\ Marked(x) \in Workers /\ Marked(x).ev = [x.ev EXCEPT !.cont = "GAP"] /\ Marked(x).ev.cont = "GAP"
         /\ Marked(x).ev.lo = x.ev.lo /\ Marked(x).ev.hi = x.ev.hi /\ Marked(x).ev.kind = x.ev.kind
         /\ Marked(x).latest = x.latest /\ SameRun(x, Marked(x)) /\ Marked(x).pc = x.pc
         /\ Marked(x).job = x.job /\ Marked(x).bar = x.bar /\ Marked(x).state = x.state
<1> DEFINE e == [x.ev EXCEPT !.cont = "GAP"]
<1>1. x.ev \in Evidence
  BY DEF Workers
<1>2. e \in Evidence /\ e.cont = "GAP" /\ e.lo = x.ev.lo /\ e.hi = x.ev.hi /\ e.kind = x.ev.kind
  BY <1>1 DEF Evidence
<1>3. Marked(x) = [x EXCEPT !.ev = e]
  BY DEF Marked
<1> HIDE DEF e
<1>4. Marked(x) \in Workers /\ Marked(x).ev = e /\ Marked(x).latest = x.latest /\ SameRun(x, Marked(x)) /\ Marked(x).pc = x.pc
      /\ Marked(x).job = x.job /\ Marked(x).bar = x.bar /\ Marked(x).state = x.state
  BY <1>2, <1>3 DEF Workers, SameRun
<1> QED
  BY <1>2, <1>4 DEF e

(* The reason a failed attempt is recorded with. *)
LEMMA FailedParts ==
  ASSUME NEW x \in Workers, NEW reason \in {"CONFLICT", "ANY"}
  PROVE  /\ Failed(x, reason) \in Workers /\ Failed(x, reason).pc = "attemptFailed" /\ SameRun(x, Failed(x, reason))
         /\ Failed(x, reason).ev.cont = x.ev.cont /\ Failed(x, reason).job = x.job /\ Failed(x, reason).bar = x.bar
<1> DEFINE e == [x.ev EXCEPT !.reason = reason]
<1>1. x.ev \in Evidence
  BY DEF Workers
<1>2. e \in Evidence /\ e.cont = x.ev.cont
  BY <1>1 DEF Evidence
<1>3. Failed(x, reason) = [x EXCEPT !.pc = "attemptFailed", !.ev = e]
  BY DEF Failed
<1> HIDE DEF e
<1> DEFINE y == Failed(x, reason)
<1> HIDE DEF y
<1>4. y \in Workers
  BY <1>2, <1>3 DEF Workers, PCs, y
<1>5. y.pc = "attemptFailed" /\ SameRun(x, y) /\ y.ev = e /\ y.job = x.job /\ y.bar = x.bar
  BY <1>3 DEF Workers, SameRun, y
<1> QED
  BY <1>2, <1>4, <1>5 DEF y

(* The trust a contradiction takes away. *)
LEMMA DistrustedParts ==
  ASSUME NEW x \in Workers
  PROVE  Distrusted(x) \in Workers /\ Distrusted(x).ev.cont = "GAP" /\ SameRun(x, Distrusted(x))
<1> DEFINE e == [x.ev EXCEPT !.cont = "GAP", !.lo = Nil, !.hi = Nil]
<1>1. x.ev \in Evidence
  BY DEF Workers
<1>2. e \in Evidence /\ e.cont = "GAP"
  BY <1>1 DEF Evidence
<1>3. Distrusted(x) = [x EXCEPT !.why = "BAR_CONFLICT", !.ev = e]
  BY DEF Distrusted
<1> HIDE DEF e
<1> QED
  BY <1>2, <1>3 DEF Workers, Reasons, SameRun

(* The range that was verified. *)
LEMMA VerifiedParts ==
  ASSUME NEW x \in Workers, NEW lo \in Minutes, NEW hi \in Minutes
  PROVE  /\ Verified(x, lo, hi) \in Workers /\ Verified(x, lo, hi).ev.cont = "VERIFIED" /\ Verified(x, lo, hi).ev.lo = lo /\ Verified(x, lo, hi).ev.hi = hi /\ Verified(x, lo, hi).ev.kind = x.ev.kind
         /\ Verified(x, lo, hi).latest = (IF x.latest >= hi THEN x.latest ELSE hi)
         /\ SameRun(x, Verified(x, lo, hi)) /\ Verified(x, lo, hi).pc = x.pc /\ Verified(x, lo, hi).job = x.job /\ Verified(x, lo, hi).bar = x.bar /\ Verified(x, lo, hi).state = x.state
<1> DEFINE e == [x.ev EXCEPT !.cont = "VERIFIED", !.lo = lo, !.hi = hi]
           l == Max({x.latest, hi})
           y == Verified(x, lo, hi)
<1>1. x.ev \in Evidence /\ x.latest \in Times
  BY DEF Workers
<1>2. e \in Evidence /\ e.cont = "VERIFIED" /\ e.lo = lo /\ e.hi = hi /\ e.kind = x.ev.kind
  BY <1>1 DEF Evidence, Times
<1>3. y = [x EXCEPT !.ev = e, !.latest = l]
  BY DEF Verified
<1>4. x.latest \in Int /\ hi \in Int
  <2>1. \A m \in Times : m \in Int
    BY BoundsParts DEF Times, Nil
  <2>2. hi \in Nat
    BY BoundsParts
  <2> QED
    BY <1>1, <2>1, <2>2
<1>5. l = (IF x.latest >= hi THEN x.latest ELSE hi)
  BY <1>4, MaxOfTwo
<1>6. l \in Times
  BY <1>1, <1>5 DEF Times
<1> HIDE DEF e, l, y
<1>7. y \in Workers
  BY <1>2, <1>3, <1>6 DEF Workers
<1>8. /\ y.ev = e /\ y.latest = l /\ SameRun(x, y) /\ y.pc = x.pc /\ y.job = x.job /\ y.bar = x.bar /\ y.state = x.state
  BY <1>3 DEF Workers, SameRun
<1> QED
  BY <1>2, <1>5, <1>7, <1>8 DEF y

----------------------------------------------------------------------------
(* What a worker becomes is fine.                                           *)

(* A worker without work is fine wherever the invariant asks nothing of its counter. *)
LEMMA FineAtRest ==
  ASSUME NEW x, NEW own, NEW dom, NEW known, NEW now \in Nat, Sound(x, dom), NoWork(x), ~Recovers(x), Goes(x) => x.ev.cont = "VERIFIED",
         x.pc \in {"halting", "release", "stopRow"} => x.state \in {"HALTED", "STOPPED"}, x.pc # "barWrite"
  PROVE  Fine(x, own, dom, known, now)
<1>1. NoBar.t = Nil /\ NoJob.need = {} /\ NoJob.range = {} /\ NoJob.got = {} /\ NoJob.left = {}
  BY DEF NoBar, NoJob
<1>2. Timely(x, known, now)
  BY <1>1 DEF Timely, NoWork, Nil
<1>3. ~IsExact(x) /\ ~IsBoot(x) /\ x.pc # "gapSave"
  BY DEF Recovers, IsExact, IsBoot
<1> QED
  BY <1>2, <1>3 DEF Fine, NoWork

(* A halted worker is. *)
LEMMA FineQuit ==
  ASSUME NEW x, NEW why \in Reasons, NEW own, NEW dom, NEW known, NEW now \in Nat, Sound(x, dom)
  PROVE  Fine(Quit(x, why), own, dom, known, now)
<1> DEFINE y == Quit(x, why)
<1>1. x \in Workers
  BY DEF Sound
<1>2. y \in Workers /\ y.pc = "halting" /\ SameEvidence(x, y) /\ NoWork(y) /\ y.state = "HALTED"
  BY <1>1, QuitParts
<1> HIDE DEF y
<1>3. Sound(y, dom)
  BY <1>2 DEF Sound, SameEvidence
<1>4. Fine(y, own, dom, known, now)
  BY <1>2, <1>3, FineAtRest DEF Recovers, Goes
<1> QED
  BY <1>4 DEF y

(* So is an idle one that is active only with verified evidence. *)
LEMMA FineIdle ==
  ASSUME NEW x, NEW own, NEW dom, NEW known, NEW now \in Nat, Sound(x, dom), Active(x) => x.ev.cont = "VERIFIED"
  PROVE  Fine(Idle(x), own, dom, known, now)
<1> DEFINE y == Idle(x)
<1>1. x \in Workers
  BY DEF Sound
<1>2. y \in Workers /\ y.pc = "idle" /\ SameEvidence(x, y) /\ SameRun(x, y) /\ NoWork(y) /\ y.state = x.state
  BY <1>1, IdleParts
<1> HIDE DEF y
<1>3. Sound(y, dom)
  BY <1>2 DEF Sound, SameEvidence
<1>4. Active(y) => Active(x)
  BY <1>2 DEF Active, SameRun
<1>5. Fine(y, own, dom, known, now)
  BY <1>2, <1>3, <1>4, FineAtRest DEF Recovers, Goes, SameEvidence
<1> QED
  BY <1>5 DEF y

(* One whose attempt failed. *)
LEMMA FineFailed ==
  ASSUME NEW x \in Workers, NEW reason \in {"CONFLICT", "ANY"}, NEW own, NEW dom, NEW known, NEW now, x.ev.cont = "GAP",
         Timely(x, known, now)
  PROVE  Fine(Failed(x, reason), own, dom, known, now)
<1> DEFINE y == Failed(x, reason)
<1>1. y \in Workers /\ y.pc = "attemptFailed" /\ y.ev.cont = "GAP" /\ y.job = x.job /\ y.bar = x.bar
  BY FailedParts
<1> HIDE DEF y
<1>2. Timely(y, known, now) /\ Sound(y, dom)
  BY <1>1 DEF Timely, Sound
<1>3. Fine(y, own, dom, known, now)
  BY <1>1, <1>2 DEF Fine, Goes, IsExact, IsBoot
<1> QED
  BY <1>3 DEF y

(* One that has recovered. *)
LEMMA FineAfterRecovery ==
  ASSUME NEW x, NEW own, NEW dom, NEW known, NEW now \in Nat, Sound(x, dom), x.ev.cont = "VERIFIED", x.bar.t <= now,
         x.bar # NoBar => x.bar.t # Nil /\ x.bar.t <= x.latest + 1
  PROVE  Fine(AfterRecovery(x), own, dom, known, now)
<1> DEFINE pc == IF x.bar = NoBar THEN "startSave" ELSE "barWrite"
           y == AfterRecovery(x)
<1>1. x \in Workers /\ pc \in PCs /\ NoJob \in Jobs
  BY RestParts DEF Sound, PCs
<1>2. y = [x EXCEPT !.pc = pc, !.job = NoJob]
  BY DEF AfterRecovery
<1>3. pc \in {"startSave", "barWrite"} /\ (pc = "barWrite" => x.bar # NoBar)
  OBVIOUS
<1> HIDE DEF pc, y
<1>4. y \in Workers /\ SameEvidence(x, y) /\ y.pc = pc /\ y.job = NoJob /\ y.bar = x.bar
  BY <1>1, <1>2 DEF Workers, SameEvidence
<1>5. Sound(y, dom) /\ y.ev.cont = "VERIFIED"
  BY <1>4 DEF Sound, SameEvidence
<1>6. Timely(y, known, now)
  BY <1>4 DEF Timely, NoJob
<1>7. ~Recovers(y) /\ ~IsExact(y) /\ ~IsBoot(y)
  BY <1>3, <1>4 DEF Recovers, IsExact, IsBoot
<1>8. Fine(y, own, dom, known, now)
  BY <1>3, <1>4, <1>5, <1>6, <1>7 DEF Fine, SameEvidence
<1> QED
  BY <1>8 DEF y

(* One that goes on with what an exact recovery still needs. *)
LEMMA FineNextRange ==
  ASSUME NEW x, NEW own, NEW dom, NEW known, NEW now, x \in Workers, x.ev.cont = "GAP", Timely(x, known, now), Extends(x, dom)
  PROVE  Fine(NextRange(x), own, dom, known, now)
<1> DEFINE y == NextRange(x)
<1>1. CASE x.job.need = {}
  <2>1. y = Go(x, "final") /\ "final" \in PCs
    BY <1>1 DEF NextRange, PCs
  <2>2. y \in Workers /\ y.pc = "final" /\ SameEvidence(x, y) /\ y.job = x.job /\ y.bar = x.bar
    BY <2>1, GoParts
  <2> HIDE DEF y
  <2>3. Timely(y, known, now) /\ Sound(y, dom) /\ Extends(y, dom)
    BY <2>2 DEF Timely, Sound, Extends, SameEvidence
  <2>4. Fine(y, own, dom, known, now)
    BY <2>2, <2>3 DEF Fine, Goes, IsBoot, SameEvidence
  <2> QED
    BY <2>4 DEF y
<1>2. CASE x.job.need # {}
  <2> DEFINE j == [x.job EXCEPT !.range = FirstRange(x.job.need)]
  <2>1. y = [x EXCEPT !.pc = "attempt", !.job = j]
    BY <1>2 DEF NextRange
  <2>2. x.job \in Jobs /\ FirstRange(x.job.need) \subseteq x.job.need
    BY DEF Workers, FirstRange
  <2>3. /\ j \in Jobs /\ j.lo = x.job.lo /\ j.hi = x.job.hi /\ j.need = x.job.need /\ j.got = x.job.got /\ j.left = x.job.left
        /\ j.range = FirstRange(x.job.need)
    BY <2>2 DEF Jobs
  <2> HIDE DEF y, j
  <2>3a. "attempt" \in PCs
    BY DEF PCs
  <2>4. y \in Workers /\ SameEvidence(x, y) /\ y.pc = "attempt" /\ y.job = j /\ y.bar = x.bar
    BY <2>1, <2>3, <2>3a DEF Workers, SameEvidence
  <2>5. Timely(y, known, now)
    BY <2>2, <2>3, <2>4 DEF Timely
  <2>6. Sound(y, dom) /\ Extends(y, dom)
    BY <2>3, <2>4 DEF Sound, Extends, SameEvidence
  <2>7. Fine(y, own, dom, known, now)
    BY <1>2, <2>3, <2>4, <2>5, <2>6 DEF Fine, Goes, IsBoot, SameEvidence
  <2> QED
    BY <2>7 DEF y
<1> QED
  BY <1>1, <1>2

(* One that starts an exact recovery, or halts because the interval is too long. *)
LEMMA FineExact ==
  ASSUME NEW x \in Workers, NEW own, NEW dom, NEW known, NEW now \in Minutes, NEW lo \in Minutes, NEW hi \in Minutes, hi <= now,
         x.latest <= hi, lo <= hi => x.ev.lo <= hi, x.bar # NoBar => x.bar.t = hi + 1, x.bar.t <= now,
         x.ev.lo # Nil => \A m \in Minutes : x.ev.lo <= m /\ m < lo /\ m > hi - Window => m \in dom
  PROVE  Fine(Exact(x, lo, hi), own, dom, known, now)
<1> DEFINE z == Marked(x)
<1>1. /\ z \in Workers /\ z.ev.cont = "GAP" /\ z.ev.lo = x.ev.lo /\ z.latest = x.latest /\ z.bar = x.bar
  BY MarkedParts
<1>2. CASE BeyondHorizon(x, lo, hi)
  <2>1. Sound(z, dom) /\ now \in Nat
    BY <1>1, BoundsParts DEF Sound
  <2> QED
    BY <1>2, <2>1, FineQuit DEF Exact, Reasons
<1>3. CASE ~BeyondHorizon(x, lo, hi)
  <2> DEFINE need == ToRequest(x, lo, hi)
             j == [NoJob EXCEPT !.lo = lo, !.hi = hi, !.need = need]
             y == [z EXCEPT !.job = j]
  <2>1. Exact(x, lo, hi) = NextRange(y)
    BY <1>3 DEF Exact
  <2>2. need \subseteq lo..hi
    BY DEF ToRequest
  <2>3. lo \in Nat /\ hi \in Nat /\ now \in Nat /\ lo <= hi /\ lo..hi \subseteq 0..now /\ lo..hi \subseteq Minutes
    BY <1>3, BoundsParts DEF BeyondHorizon, Minutes
  <2> HIDE DEF need
  <2>4. /\ j \in Jobs /\ j.lo = lo /\ j.hi = hi /\ j.need = need /\ j.range = {} /\ j.got = {} /\ j.left = {}
    BY <2>2, <2>3 DEF Jobs, NoJob, Times
  <2> HIDE DEF j, z
  <2>5. y = [z EXCEPT !.pc = z.pc, !.job = j] /\ z.pc \in PCs
    BY <1>1 DEF Workers
  <2> HIDE DEF y
  <2>6. y \in Workers /\ SameEvidence(z, y) /\ y.job = j /\ y.bar = z.bar
    BY <1>1, <2>4, <2>5 DEF Workers, SameEvidence
  <2>7. y.ev.cont = "GAP" /\ y.latest = x.latest /\ y.ev.lo = x.ev.lo /\ y.bar = x.bar
    BY <1>1, <2>6 DEF SameEvidence
  <2>8. Timely(y, known, now)
    BY <2>2, <2>3, <2>4, <2>6, <2>7 DEF Timely
  <2>9. Extends(y, dom)
    BY <2>3, <2>4, <2>6, <2>7 DEF Extends
  <2> QED
    BY <2>1, <2>6, <2>7, <2>8, <2>9, FineNextRange
<1> QED
  BY <1>2, <1>3

----------------------------------------------------------------------------
(* A step of one worker, and what it leaves to the others.                  *)

(* Evidence stays solid while the ledger grows. *)
LEMMA SolidGrows ==
  ASSUME NEW ev, NEW latest, NEW dom, NEW dom2, dom \subseteq dom2, Solid(ev, latest, dom)
  PROVE  Solid(ev, latest, dom2)
BY DEF Solid

(* A worker stays fine while the ledger and what REST returns grow, unless it owns the lease and somebody *)
(* else writes.                                                                                          *)
LEMMA FineGrows ==
  ASSUME NEW x, NEW own, NEW own2, NEW dom, NEW dom2, NEW known, NEW known2, NEW now \in Nat, NEW now2 \in Nat,
         Fine(x, own, dom, known, now), own2 => own /\ dom2 = dom, dom \subseteq dom2, known \subseteq known2, now <= now2
  PROVE  Fine(x, own2, dom2, known2, now2)
<1>1. Sound(x, dom2)
  BY SolidGrows DEF Fine, Sound
<1>2. Timely(x, known2, now2)
  <2>1. x.bar.t \in Int
    <3>1. \A m \in Times : m \in Int
      BY BoundsParts DEF Times, Nil
    <3> QED
      BY <3>1 DEF Fine, Sound, Workers, LiveBars
  <2> QED
    BY <2>1 DEF Fine, Timely
<1>3. x.pc = "gapSave" => Solid(x.ev, x.latest, dom2) /\ x.bar.t > x.latest + 1
  BY SolidGrows DEF Fine
<1>4. IsExact(x) => Extends(x, dom2)
  BY DEF Fine, Extends
<1>5. IsBoot(x) => Boots(x, own2, dom2)
  BY DEF Fine, Boots, Asking, Answered
<1> QED
  BY <1>1, <1>2, <1>3, <1>4, <1>5 DEF Fine

\* What every step does: it keeps the invariant and is a transaction of the ledger.
Advances == DurableInv' /\ [Ledger!Commit]_<<bars, Trusted, disputed>>

(* A ledger that only grows, beside a checkpoint that is right and trusts nothing once it is contradicted, *)
(* has seen a transaction.                                                                                *)
LEMMA CommitParts ==
  ASSUME DOMAIN bars \subseteq DOMAIN bars', \A m \in DOMAIN bars : bars'[m] = bars[m],
         disputed \subseteq disputed', disputed' \subseteq DOMAIN bars, disputed' # disputed => cp'.ev.cont # "VERIFIED",
         CheckpointOK'
  PROVE  Ledger!Commit
<1>1. Trusted' \subseteq DOMAIN bars'
  <2>1. CASE cp'.ev.cont # "VERIFIED"
    BY <2>1 DEF Trusted, Claimed
  <2>2. CASE cp'.ev.cont = "VERIFIED"
    <3>1. Solid(cp'.ev, cp'.latest, DOMAIN bars') /\ cp' \in Checkpoints
      BY <2>2 DEF CheckpointOK
    <3>2. cp'.ev.lo \in Nat /\ cp'.ev.hi \in Nat /\ cp'.ev.hi \in Minutes /\ cp'.latest \in Int
      <4>1. \A m \in Times : m \in Int
        BY BoundsParts DEF Times, Nil
      <4>2. cp'.ev.lo \in Minutes /\ cp'.ev.hi \in Minutes
        BY <3>1 DEF Checkpoints, Evidence, Solid
      <4> QED
        BY <3>1, <4>1, <4>2, BoundsParts DEF Checkpoints
    <3>3. ASSUME NEW m \in Trusted' PROVE m \in DOMAIN bars'
      <4>1. m \in cp'.ev.lo..cp'.ev.hi /\ m > cp'.ev.hi - Window
        BY <2>2 DEF Trusted, Claimed
      <4>2. m \in Minutes /\ cp'.ev.lo <= m /\ m <= cp'.latest
        BY <3>1, <3>2, <4>1, BoundsParts DEF Minutes, Solid
      <4> QED
        BY <3>1, <4>1, <4>2 DEF Solid
    <3> QED
      BY <3>3
  <2> QED
    BY <2>1, <2>2
<1>2. disputed' # disputed => Trusted' = {}
  BY DEF Trusted, Claimed
<1> QED
  BY <1>1, <1>2 DEF Ledger!Commit

(* A step of run r: what has to be shown of it. *)
LEMMA StepAdvances ==
  ASSUME DurableInv, NEW r \in Runs, NEW y, Becomes(r, y), Fine(y, Owns(r)', DOMAIN bars', Known', clock), clock' = clock,
         bars' = [m \in DOMAIN bars' |-> bars'[m]], DOMAIN bars \subseteq DOMAIN bars', DOMAIN bars' \subseteq 0..clock,
         \A m \in DOMAIN bars : bars'[m] = bars[m], DOMAIN bars' = DOMAIN bars \/ Owns(r), Bridged(DOMAIN bars', Known'),
         served \subseteq served', served' \subseteq 0..clock,
         disputed \subseteq disputed', disputed' \subseteq DOMAIN bars, disputed' # disputed => cp'.ev.cont # "VERIFIED",
         CheckpointOK', LeaseOK', lease' = lease \/ ~lease'.live \/ lease'.run = r
  PROVE  Advances
<1>1. StoreOK'
  BY DEF DurableInv, StoreOK
<1>2. DOMAIN w = Runs /\ \A q \in Runs : Fine(w[q], Owns(q), DOMAIN bars, Known, clock)
  BY DEF DurableInv, RunsOK
<1>3. w' = [w EXCEPT ![r] = y]
  BY DEF Becomes
<1>4. DOMAIN w' = Runs /\ w'[r] = y /\ \A q \in Runs : q # r => w'[q] = w[q]
  BY <1>2, <1>3
<1>5. clock \in Nat /\ Known \subseteq Known'
  BY BoundsParts DEF DurableInv, StoreOK, Known
<1>6. ASSUME NEW q \in Runs, q # r PROVE Fine(w'[q], Owns(q)', DOMAIN bars', Known', clock')
  <2>1. Owns(q)' => Owns(q) /\ DOMAIN bars' = DOMAIN bars
    BY <1>4, <1>6 DEF Owns
  <2> QED
    BY <1>2, <1>4, <1>5, <1>6, <2>1, FineGrows
<1>7. RunsOK'
  BY <1>4, <1>6 DEF RunsOK
<1> QED
  BY <1>1, <1>7, CommitParts DEF Advances, DurableInv

(* The leases and rows of a step that leaves them alone. *)
LEMMA LeaseStays ==
  ASSUME DurableInv, NEW r \in Runs, NEW y, Becomes(r, y), y.pc # "new" => w[r].pc # "new", UNCHANGED <<lease, row>>
  PROVE  LeaseOK'
<1>1. DOMAIN w = Runs
  BY DEF DurableInv, RunsOK
<1>2. \A q \in Runs : w'[q].pc # "new" => row[q] # "NONE"
  BY <1>1 DEF DurableInv, LeaseOK, Becomes
<1> QED
  BY <1>2 DEF DurableInv, LeaseOK

(* A step within the process. *)
LEMMA LocalAdvances ==
  ASSUME DurableInv, NEW r \in Runs, NEW y, Locally(r, y), Fine(y, Owns(r), DOMAIN bars, Known, clock), y.held => w[r].held,
         y.pc # "new" => w[r].pc # "new"
  PROVE  Advances
<1>1. /\ Becomes(r, y) /\ UNCHANGED <<clock, bars, disputed, cp, lease, row, served>>
  BY DEF Locally
<1>2. DOMAIN w = Runs /\ w'[r] = y
  BY <1>1 DEF DurableInv, RunsOK, Becomes
<1>3. Owns(r)' => Owns(r)
  BY <1>1, <1>2 DEF Owns
<1>4. clock \in Nat /\ Known' = Known /\ DOMAIN bars' = DOMAIN bars
  BY <1>1, BoundsParts DEF DurableInv, StoreOK, Known
<1>5. Fine(y, Owns(r)', DOMAIN bars', Known', clock)
  BY <1>3, <1>4, FineGrows
<1>6. LeaseOK'
  BY <1>1, LeaseStays
<1>7. CheckpointOK'
  BY <1>1 DEF DurableInv, CheckpointOK
<1>8. Bridged(DOMAIN bars', Known')
  BY <1>4 DEF DurableInv, StoreOK
<1> QED
  BY <1>1, <1>4, <1>5, <1>6, <1>7, <1>8, StepAdvances DEF DurableInv, StoreOK

(* A worker that has nothing to save any more. *)
LEMMA LostAdvances ==
  ASSUME DurableInv, NEW r \in Runs, LostOwnership(r), w[r].pc # "new",
         UNCHANGED <<clock, bars, disputed, cp, lease, row, served>>
  PROVE  Advances
<1>1. Sound(w[r], DOMAIN bars) /\ clock \in Nat /\ w[r] \in Workers
  BY BoundsParts DEF DurableInv, RunsOK, Fine, Sound, StoreOK
<1>2. Fine(Quit(w[r], "ANY"), Owns(r), DOMAIN bars, Known, clock)
  BY <1>1, FineQuit DEF Reasons
<1>3. Quit(w[r], "ANY").held = w[r].held
  BY <1>1, QuitParts DEF Reasons, SameRun
<1>4. Locally(r, Quit(w[r], "ANY"))
  BY DEF Locally, LostOwnership
<1> QED
  BY <1>2, <1>3, <1>4, LocalAdvances

(* A checkpoint written by its owner. *)
LEMMA CpParts ==
  ASSUME NEW r \in Runs, NEW y, NEW dom, Sound(y, dom)
  PROVE  Cp(r, y) \in Checkpoints /\ (Cp(r, y).ev.cont = "VERIFIED" => Solid(Cp(r, y).ev, Cp(r, y).latest, dom))
<1>1. r \in 0..NRuns
  BY BoundsParts DEF Runs
<1> QED
  BY <1>1 DEF Cp, Checkpoints, Sound, Workers

(* A fenced statement: the owner goes on with what it saved, any other run halts. *)
LEMMA SaveAdvances ==
  ASSUME DurableInv, NEW r \in Runs, NEW y, Save(r, y), Owns(r) => Fine(y, Owns(r), DOMAIN bars, Known, clock),
         y.held = w[r].held, w[r].pc # "new"
  PROVE  Advances
<1>1. CASE ~Owns(r)
  BY <1>1, LostAdvances DEF Save
<1>2. CASE Owns(r)
  <2>1. Becomes(r, y) /\ cp' = Cp(r, y) /\ UNCHANGED <<clock, bars, disputed, lease, row, served>>
    BY <1>2 DEF Save
  <2>2. DOMAIN w = Runs /\ w'[r] = y
    BY <2>1 DEF DurableInv, RunsOK, Becomes
  <2>3. Owns(r)' => Owns(r)
    BY <1>2
  <2>4. clock \in Nat /\ Known' = Known /\ DOMAIN bars' = DOMAIN bars
    BY <2>1, BoundsParts DEF DurableInv, StoreOK, Known
  <2>4a. Fine(y, Owns(r), DOMAIN bars, Known, clock)
    BY <1>2
  <2>5. Fine(y, Owns(r)', DOMAIN bars', Known', clock)
    BY <2>3, <2>4, <2>4a, FineGrows
  <2>6. LeaseOK'
    BY <2>1, LeaseStays
  <2>7. CheckpointOK'
    <3>1. Sound(y, DOMAIN bars)
      BY <1>2 DEF Fine
    <3> QED
      BY <2>1, <2>4, <3>1, CpParts DEF CheckpointOK
  <2>8. Bridged(DOMAIN bars', Known')
    BY <2>4 DEF DurableInv, StoreOK
  <2> QED
    BY <2>1, <2>4, <2>5, <2>6, <2>7, <2>8, StepAdvances DEF DurableInv, StoreOK
<1> QED
  BY <1>1, <1>2

----------------------------------------------------------------------------
(* The actions outside a recovery.                                          *)

(* What the invariant says of a run. *)
LEMMA RunParts ==
  ASSUME DurableInv, NEW r \in Runs
  PROVE  /\ Fine(w[r], Owns(r), DOMAIN bars, Known, clock) /\ Sound(w[r], DOMAIN bars) /\ w[r] \in Workers
         /\ DOMAIN w = Runs /\ clock \in Minutes /\ clock \in Nat
BY BoundsParts DEF DurableInv, RunsOK, StoreOK, Fine, Sound

(* A change that is not about the evidence keeps a worker fine. *)
LEMMA FineSame ==
  ASSUME NEW x, NEW own, NEW dom, NEW known, NEW now, Fine(x, own, dom, known, now), NEW y \in Workers, y.pc = x.pc,
         SameEvidence(x, y), y.job = x.job, y.bar = x.bar, Active(y) => Active(x), y.state = x.state \/ x.pc = "idle"
  PROVE  Fine(y, own, dom, known, now)
<1>1. Sound(y, dom) /\ Timely(y, known, now)
  BY DEF Fine, Sound, Timely, SameEvidence
<1>2. (Recovers(y) => Recovers(x)) /\ (Goes(y) => Goes(x)) /\ (IsExact(y) => IsExact(x)) /\ (IsBoot(y) => IsBoot(x))
  BY DEF Recovers, Goes, IsExact, IsBoot, SameEvidence
<1>3. IsExact(y) => Extends(y, dom)
  BY <1>2 DEF Fine, Extends, SameEvidence
<1>4. IsBoot(y) => Boots(y, own, dom)
  BY <1>2 DEF Fine, Boots, Asking, Answered, SameEvidence
<1> QED
  BY <1>1, <1>2, <1>3, <1>4 DEF Fine, SameEvidence

(* An operator starts a process. *)
LEMMA StartAdvances == ASSUME DurableInv, NEW r \in Runs, Start(r) PROVE Advances
<1> DEFINE y == [w[r] EXCEPT !.pc = "acquire", !.state = "STARTING"]
<1>0. /\ Fine(w[r], Owns(r), DOMAIN bars, Known, clock) /\ Sound(w[r], DOMAIN bars) /\ w[r] \in Workers
      /\ DOMAIN w = Runs /\ clock \in Nat
  BY RunParts
<1>1. /\ w[r].pc = "new" /\ row' = [row EXCEPT ![r] = "STARTING"] /\ Becomes(r, y)
      /\ UNCHANGED <<clock, bars, disputed, cp, lease, served>>
  BY DEF Start, At
<1>2. /\ y \in Workers /\ y.pc = "acquire" /\ SameEvidence(w[r], y) /\ y.job = w[r].job /\ y.bar = w[r].bar
      /\ y.held = w[r].held
  BY <1>0 DEF Workers, PCs, SameEvidence
<1> HIDE DEF y
<1>3. Sound(y, DOMAIN bars) /\ Timely(y, Known, clock) /\ y.bar = NoBar
  BY <1>0, <1>1, <1>2 DEF Fine, Sound, Timely, SameEvidence
<1>4. Fine(y, Owns(r), DOMAIN bars, Known, clock)
  BY <1>2, <1>3 DEF Fine, Recovers, Goes, IsExact, IsBoot
<1>5. w'[r] = y /\ Known' = Known
  BY <1>0, <1>1 DEF Becomes, Known
<1>6. Owns(r)' => Owns(r)
  BY <1>1, <1>2, <1>5 DEF Owns
<1>7. Fine(y, Owns(r)', DOMAIN bars', Known', clock)
  BY <1>0, <1>1, <1>4, <1>5, <1>6, FineGrows
<1>8. LeaseOK'
  <2>1. DOMAIN row = Runs
    BY DEF DurableInv, LeaseOK
  <2>2. DOMAIN row' = Runs /\ \A q \in Runs : row[q] # "NONE" \/ q = r => row'[q] # "NONE"
    BY <1>1, <2>1
  <2>3. \A q \in Runs : q # r => w'[q] = w[q]
    BY <1>0, <1>1 DEF Becomes
  <2> QED
    BY <1>1, <2>2, <2>3 DEF DurableInv, LeaseOK
<1>9. CheckpointOK' /\ Bridged(DOMAIN bars', Known')
  BY <1>1, <1>5 DEF DurableInv, CheckpointOK, StoreOK
<1> QED
  BY <1>1, <1>7, <1>8, <1>9, StepAdvances DEF DurableInv, StoreOK

(* It acquires the lease, or halts. *)
LEMMA AcquireAdvances == ASSUME DurableInv, NEW r \in Runs, Acquire(r) PROVE Advances
<1>0. /\ Fine(w[r], Owns(r), DOMAIN bars, Known, clock) /\ Sound(w[r], DOMAIN bars) /\ w[r] \in Workers
      /\ DOMAIN w = Runs /\ clock \in Nat /\ w[r].pc = "acquire"
  BY RunParts DEF Acquire, At
<1>1. CASE lease.live
  <2>1. LostOwnership(r) /\ UNCHANGED <<clock, bars, disputed, cp, lease, row, served>>
    BY <1>1 DEF Acquire, LostOwnership
  <2> QED
    BY <1>0, <2>1, LostAdvances
<1>2. CASE ~lease.live
  <2> DEFINE y == [w[r] EXCEPT !.pc = "read", !.held = TRUE]
  <2>1. /\ lease' = [run |-> r, live |-> TRUE] /\ Becomes(r, y) /\ UNCHANGED <<clock, bars, disputed, cp, served>>
        /\ row' = [s \in Runs |-> IF s # r /\ row[s] \notin Ended \cup {"NONE"} THEN "SUPERSEDED" ELSE row[s]]
    BY <1>2 DEF Acquire
  <2>2. /\ y \in Workers /\ y.pc = "read" /\ SameEvidence(w[r], y) /\ y.job = w[r].job /\ y.bar = w[r].bar
    BY <1>0 DEF Workers, PCs, SameEvidence
  <2> HIDE DEF y
  <2>3. Sound(y, DOMAIN bars) /\ Timely(y, Known, clock) /\ y.bar = NoBar
    BY <1>0, <2>2 DEF Fine, Sound, Timely, SameEvidence
  <2>4. w'[r] = y /\ Known' = Known
    BY <1>0, <2>1 DEF Becomes, Known
  <2>5. Fine(y, Owns(r)', DOMAIN bars', Known', clock)
    BY <2>1, <2>2, <2>3, <2>4 DEF Fine, Recovers, Goes, IsExact, IsBoot
  <2>6. LeaseOK'
    <3>1. DOMAIN row' = Runs /\ \A q \in Runs : row[q] # "NONE" => row'[q] # "NONE"
      BY <2>1
    <3>2. \A q \in Runs : q # r => w'[q] = w[q]
      BY <1>0, <2>1 DEF Becomes
    <3>3. row[r] # "NONE"
      BY <1>0 DEF DurableInv, LeaseOK
    <3>4. r \in 0..NRuns
      BY BoundsParts DEF Runs
    <3> QED
      BY <2>1, <3>1, <3>2, <3>3, <3>4 DEF DurableInv, LeaseOK
  <2>7. CheckpointOK' /\ Bridged(DOMAIN bars', Known')
    BY <2>1, <2>4 DEF DurableInv, CheckpointOK, StoreOK
  <2> QED
    BY <2>1, <2>5, <2>6, <2>7, StepAdvances DEF DurableInv, StoreOK
<1> QED
  BY <1>1, <1>2

(* The first checkpoint of a run that has qualified. *)
LEMMA StartSaveAdvances == ASSUME DurableInv, NEW r \in Runs, StartSave(r) PROVE Advances
<1> DEFINE x == Idle(w[r])
           src == IF w[r].stopped THEN "CLOSED" ELSE "CONNECTING"
           y == [x EXCEPT !.src = src]
<1>0. /\ Fine(w[r], Owns(r), DOMAIN bars, Known, clock) /\ Sound(w[r], DOMAIN bars) /\ w[r] \in Workers
      /\ clock \in Nat /\ w[r].pc = "startSave"
  BY RunParts DEF StartSave, At
<1>1. w[r].ev.cont = "VERIFIED"
  BY <1>0 DEF Fine, Goes
<1>2. Fine(x, Owns(r), DOMAIN bars, Known, clock) /\ x \in Workers /\ x.held = w[r].held
  BY <1>0, <1>1, FineIdle, IdleParts DEF SameRun
<1> HIDE DEF x
<1>3. /\ y \in Workers /\ y.pc = x.pc /\ SameEvidence(x, y) /\ y.job = x.job /\ y.bar = x.bar /\ y.state = x.state
      /\ y.held = x.held /\ y.stopped = x.stopped
  BY <1>2 DEF Workers, SameEvidence
<1>4. Save(r, y)
  BY DEF StartSave, x
<1> HIDE DEF y
<1>5. Fine(y, Owns(r), DOMAIN bars, Known, clock)
  BY <1>2, <1>3, FineSame DEF Active
<1> QED
  BY <1>0, <1>2, <1>3, <1>4, <1>5, SaveAdvances

(* A statement that sets a row, releases the lease or writes the checkpoint. *)
LEMMA StatementAdvances ==
  ASSUME DurableInv, NEW r \in Runs, NEW y, Becomes(r, y), Fine(y, Owns(r), DOMAIN bars, Known, clock), y.held => w[r].held,
         w[r].pc # "new", UNCHANGED <<clock, bars, disputed, served>>, CheckpointOK',
         DOMAIN row' = Runs, \A q \in Runs : row[q] # "NONE" => row'[q] # "NONE",
         lease' = lease \/ (lease' \in [run : 0..NRuns, live : BOOLEAN] /\ ~lease'.live)
  PROVE  Advances
<1>0. DOMAIN w = Runs /\ clock \in Nat
  BY RunParts
<1>1. w'[r] = y /\ Known' = Known
  BY <1>0 DEF Becomes, Known
<1>2. Owns(r)' => Owns(r)
  BY <1>1 DEF Owns
<1>3. Fine(y, Owns(r)', DOMAIN bars', Known', clock)
  BY <1>0, <1>1, <1>2, FineGrows
<1>4. LeaseOK'
  <2>1. \A q \in Runs : w'[q].pc # "new" => w[q].pc # "new"
    BY <1>0, <1>1 DEF Becomes
  <2> QED
    BY <2>1 DEF DurableInv, LeaseOK
<1>5. Bridged(DOMAIN bars', Known')
  BY <1>1 DEF DurableInv, StoreOK
<1> QED
  BY <1>3, <1>4, <1>5, StepAdvances DEF DurableInv, StoreOK

(* A statement that sets the row of a run. *)
LEMMA RowParts ==
  ASSUME DurableInv, NEW r \in Runs, NEW s, s # "NONE", row' = [row EXCEPT ![r] = s] \/ row' = row
  PROVE  DOMAIN row' = Runs /\ \A q \in Runs : row[q] # "NONE" => row'[q] # "NONE"
<1>1. DOMAIN row = Runs
  BY DEF DurableInv, LeaseOK
<1> QED
  BY <1>1

(* syncStream(): the run is READY, or has been superseded. *)
LEMMA SyncAdvances == ASSUME DurableInv, NEW r \in Runs, Sync(r) PROVE Advances
<1> DEFINE y == [w[r] EXCEPT !.state = "READY"]
<1>0. /\ Fine(w[r], Owns(r), DOMAIN bars, Known, clock) /\ w[r] \in Workers /\ w[r].pc = "idle" /\ Active(w[r])
  BY RunParts DEF Sync, At
<1>1. CASE ~RowAccepts(r, "READY")
  <2>1. LostOwnership(r) /\ UNCHANGED <<clock, bars, disputed, cp, lease, row, served>>
    BY <1>1 DEF Sync
  <2> QED
    BY <1>0, <2>1, LostAdvances
<1>2. CASE RowAccepts(r, "READY")
  <2>1. row' = [row EXCEPT ![r] = "READY"] /\ Becomes(r, y) /\ UNCHANGED <<clock, bars, disputed, cp, lease, served>>
    BY <1>2 DEF Sync
  <2>2. y \in Workers /\ y.pc = w[r].pc /\ SameEvidence(w[r], y) /\ y.job = w[r].job /\ y.bar = w[r].bar /\ y.held = w[r].held
    BY <1>0 DEF Workers, SameEvidence
  <2> HIDE DEF y
  <2>3. Fine(y, Owns(r), DOMAIN bars, Known, clock)
    BY <1>0, <2>2, FineSame
  <2>4. CheckpointOK'
    BY <2>1 DEF DurableInv, CheckpointOK
  <2>5. DOMAIN row' = Runs /\ \A q \in Runs : row[q] # "NONE" => row'[q] # "NONE"
    BY <2>1, RowParts
  <2> QED
    BY <1>0, <2>1, <2>2, <2>3, <2>4, <2>5, StatementAdvances
<1> QED
  BY <1>1, <1>2

(* The heartbeat writes what is held. *)
LEMMA HeartbeatAdvances == ASSUME DurableInv, NEW r \in Runs, Heartbeat(r) PROVE Advances
<1>1. Save(r, w[r]) /\ w[r].pc # "new" /\ Fine(w[r], Owns(r), DOMAIN bars, Known, clock)
  BY RunParts DEF Heartbeat, At
<1> QED
  BY <1>1, SaveAdvances

(* A worker that gives its stream up, or is stopped while it has lost the lease, halts. *)
LEMMA QuitAdvances ==
  ASSUME DurableInv, NEW r \in Runs, NEW x, Sound(x, DOMAIN bars), x.held => w[r].held, NEW why \in Reasons,
         Locally(r, Quit(x, why)), w[r].pc # "new"
  PROVE  Advances
<1>1. clock \in Nat /\ x \in Workers
  BY RunParts DEF Sound
<1>2. Fine(Quit(x, why), Owns(r), DOMAIN bars, Known, clock)
  BY <1>1, FineQuit
<1>3. Quit(x, why).held = x.held
  BY <1>1, QuitParts DEF SameRun
<1> QED
  BY <1>2, <1>3, LocalAdvances

(* A stream that failed, or never came. *)
LEMMA StreamGivenUpAdvances == ASSUME DurableInv, NEW r \in Runs, StreamGivenUp(r) PROVE Advances
<1>1. Locally(r, Quit(w[r], "ANY")) /\ w[r].pc # "new" /\ Sound(w[r], DOMAIN bars)
  BY RunParts DEF StreamGivenUp, At
<1> QED
  BY <1>1, QuitAdvances DEF Reasons

----------------------------------------------------------------------------
(* stop(), halt() and the faults.                                           *)

(* stop() is called. *)
LEMMA StopCalledAdvances == ASSUME DurableInv, NEW r \in Runs, StopCalled(r) PROVE Advances
<1> DEFINE x == [w[r] EXCEPT !.src = "CLOSED"]
           y == [x EXCEPT !.stopped = TRUE]
<1>0. /\ Fine(w[r], Owns(r), DOMAIN bars, Known, clock) /\ w[r] \in Workers /\ w[r].pc # "new" /\ ~w[r].stopped
  BY RunParts DEF StopCalled
<1>1. Locally(r, y)
  BY DEF StopCalled, Closed
<1>2. /\ x \in Workers /\ x.pc = w[r].pc /\ x.ev = w[r].ev /\ x.latest = w[r].latest /\ x.job = w[r].job /\ x.bar = w[r].bar
      /\ x.held = w[r].held /\ x.state = w[r].state
  BY <1>0 DEF Workers
<1> HIDE DEF x
<1>3. /\ y \in Workers /\ y.pc = w[r].pc /\ SameEvidence(w[r], y) /\ y.job = w[r].job /\ y.bar = w[r].bar
      /\ y.held = w[r].held /\ y.state = w[r].state /\ y.stopped
  BY <1>2 DEF Workers, SameEvidence
<1> HIDE DEF y
<1>4. Fine(y, Owns(r), DOMAIN bars, Known, clock)
  BY <1>0, <1>3, FineSame DEF Active
<1> QED
  BY <1>0, <1>1, <1>3, <1>4, LocalAdvances

(* Its operation in the queue: what is left to do depends on the state of the worker. *)
LEMMA StopOpAdvances == ASSUME DurableInv, NEW r \in Runs, StopOp(r) PROVE Advances
<1> DEFINE x == [w[r] EXCEPT !.ending = TRUE]
<1>0. /\ Fine(w[r], Owns(r), DOMAIN bars, Known, clock) /\ w[r] \in Workers /\ Sound(w[r], DOMAIN bars)
      /\ w[r].pc = "idle" /\ w[r].stopped
  BY RunParts DEF StopOp, At
<1>1. \/ x.state = "HALTED" /\ Locally(r, Go(x, "release"))
      \/ x.state = "STOPPED" /\ Locally(r, Go(x, "done"))
      \/ Owns(r) /\ Save(r, [x EXCEPT !.state = "STOPPED", !.pc = "stopRow"])
      \/ Locally(r, Quit(x, "ANY"))
  BY DEF StopOp
<1>2. /\ x \in Workers /\ x.pc = w[r].pc /\ SameEvidence(w[r], x) /\ x.job = w[r].job /\ x.bar = w[r].bar
      /\ x.held = w[r].held /\ x.state = w[r].state /\ x.stopped
  BY <1>0 DEF Workers, SameEvidence
<1> HIDE DEF x
<1>3. Fine(x, Owns(r), DOMAIN bars, Known, clock) /\ Sound(x, DOMAIN bars)
  BY <1>0, <1>2, FineSame DEF Active, Fine
<1>4. ASSUME NEW pc \in {"release", "done", "stopRow"}, NEW y \in Workers, y.pc = pc, SameEvidence(x, y), y.job = x.job, y.bar = x.bar,
             pc = "release" => y.state = "HALTED", pc = "stopRow" => y.state = "STOPPED"
      PROVE  Fine(y, Owns(r), DOMAIN bars, Known, clock)
  <2>1. Sound(y, DOMAIN bars) /\ Timely(y, Known, clock)
    BY <1>3, <1>4 DEF Fine, Sound, Timely, SameEvidence
  <2> QED
    BY <1>4, <2>1 DEF Fine, Recovers, Goes, IsExact, IsBoot
<1>5. ASSUME NEW pc \in {"release", "done"}, Locally(r, Go(x, pc)), pc = "release" => x.state = "HALTED" PROVE Advances
  <2>1. pc \in PCs
    BY DEF PCs
  <2> DEFINE y == Go(x, pc)
  <2>2. y \in Workers /\ y.pc = pc /\ SameRun(x, y) /\ SameEvidence(x, y) /\ y.job = x.job /\ y.bar = x.bar /\ y.state = x.state
    BY <1>2, <2>1, GoParts
  <2>3. Locally(r, y)
    BY <1>5
  <2> HIDE DEF y
  <2>4. Fine(y, Owns(r), DOMAIN bars, Known, clock)
    BY <1>4, <1>5, <2>2
  <2> QED
    BY <1>0, <1>2, <2>2, <2>3, <2>4, LocalAdvances DEF SameRun
<1>6. ASSUME Save(r, [x EXCEPT !.state = "STOPPED", !.pc = "stopRow"]) PROVE Advances
  <2> DEFINE y == [x EXCEPT !.state = "STOPPED", !.pc = "stopRow"]
  <2>1. /\ y \in Workers /\ y.pc = "stopRow" /\ SameEvidence(x, y) /\ y.job = x.job /\ y.bar = x.bar /\ y.state = "STOPPED"
        /\ y.held = x.held
    BY <1>2 DEF Workers, PCs, SameEvidence
  <2>2. Save(r, y)
    BY <1>6
  <2> HIDE DEF y
  <2>3. Fine(y, Owns(r), DOMAIN bars, Known, clock)
    BY <1>4, <2>1
  <2> QED
    BY <1>0, <1>2, <2>1, <2>2, <2>3, SaveAdvances
<1>7. ASSUME Locally(r, Quit(x, "ANY")) PROVE Advances
  BY <1>0, <1>2, <1>3, <1>7, QuitAdvances DEF Reasons
<1> QED
  BY <1>1, <1>5, <1>6, <1>7

(* Its row. *)
LEMMA StopRowAdvances == ASSUME DurableInv, NEW r \in Runs, StopRow(r) PROVE Advances
<1> DEFINE y == Go(w[r], "release")
<1>0. /\ Fine(w[r], Owns(r), DOMAIN bars, Known, clock) /\ w[r] \in Workers /\ w[r].pc = "stopRow"
  BY RunParts DEF StopRow, At
<1>1. CASE ~RowAccepts(r, "STOPPED")
  <2>1. LostOwnership(r) /\ UNCHANGED <<clock, bars, disputed, cp, lease, row, served>>
    BY <1>1 DEF StopRow
  <2> QED
    BY <1>0, <2>1, LostAdvances
<1>2. CASE RowAccepts(r, "STOPPED")
  <2>1. row' = [row EXCEPT ![r] = "STOPPED"] /\ Becomes(r, y) /\ UNCHANGED <<clock, bars, disputed, cp, lease, served>>
    BY <1>2 DEF StopRow
  <2>1a. "release" \in PCs
    BY DEF PCs
  <2>2. /\ y \in Workers /\ y.pc = "release" /\ SameEvidence(w[r], y) /\ y.job = w[r].job /\ y.bar = w[r].bar
        /\ y.held = w[r].held /\ y.state = w[r].state
    BY <1>0, <2>1a, GoParts DEF SameRun
  <2> HIDE DEF y
  <2>3. Sound(y, DOMAIN bars) /\ Timely(y, Known, clock) /\ y.state \in {"HALTED", "STOPPED"}
    BY <1>0, <2>2 DEF Fine, Sound, Timely, SameEvidence
  <2>4. Fine(y, Owns(r), DOMAIN bars, Known, clock)
    BY <2>2, <2>3 DEF Fine, Recovers, Goes, IsExact, IsBoot
  <2>5. CheckpointOK'
    BY <2>1 DEF DurableInv, CheckpointOK
  <2>6. DOMAIN row' = Runs /\ \A q \in Runs : row[q] # "NONE" => row'[q] # "NONE"
    BY <2>1, RowParts
  <2> QED
    BY <1>0, <2>1, <2>2, <2>4, <2>5, <2>6, StatementAdvances
<1> QED
  BY <1>1, <1>2

(* The row of a halt. *)
LEMMA HaltRowAdvances == ASSUME DurableInv, NEW r \in Runs, HaltRow(r) PROVE Advances
<1> DEFINE todo == w[r].todo \ {"row"}
           y == [w[r] EXCEPT !.todo = todo]
<1>0. /\ Fine(w[r], Owns(r), DOMAIN bars, Known, clock) /\ w[r] \in Workers /\ w[r].pc = "halting"
  BY RunParts DEF HaltRow, At
<1>1. /\ row' = [row EXCEPT ![r] = "HALTED"] \/ row' = row
      /\ Becomes(r, y) /\ UNCHANGED <<clock, bars, disputed, cp, lease, served>>
  BY DEF HaltRow
<1>2. todo \in SUBSET {"row", "save"}
  BY <1>0 DEF Workers
<1> HIDE DEF todo
<1>3. /\ y \in Workers /\ y.pc = w[r].pc /\ SameEvidence(w[r], y) /\ y.job = w[r].job /\ y.bar = w[r].bar
      /\ y.held = w[r].held /\ y.state = w[r].state /\ y.stopped = w[r].stopped
  BY <1>0, <1>2 DEF Workers, SameEvidence
<1> HIDE DEF y
<1>4. Fine(y, Owns(r), DOMAIN bars, Known, clock)
  BY <1>0, <1>3, FineSame DEF Active
<1>5. CheckpointOK'
  BY <1>1 DEF DurableInv, CheckpointOK
<1>6. DOMAIN row' = Runs /\ \A q \in Runs : row[q] # "NONE" => row'[q] # "NONE"
  BY <1>1, RowParts
<1> QED
  BY <1>0, <1>1, <1>3, <1>4, <1>5, <1>6, StatementAdvances

(* A checkpoint that a run writes, if it is the owner, from what it holds. *)
LEMMA OwnCheckpoint ==
  ASSUME DurableInv, NEW r \in Runs, cp' = IF Owns(r) THEN Cp(r, w[r]) ELSE cp, UNCHANGED bars
  PROVE  CheckpointOK'
<1>1. Sound(w[r], DOMAIN bars)
  BY RunParts
<1> QED
  BY <1>1, CpParts DEF DurableInv, CheckpointOK

(* The checkpoint of a halt. *)
LEMMA HaltSaveAdvances == ASSUME DurableInv, NEW r \in Runs, HaltSave(r) PROVE Advances
<1> DEFINE x == Spent(w[r])
           todo == w[r].todo \ {"save"}
           y == [x EXCEPT !.todo = todo]
<1>0. /\ Fine(w[r], Owns(r), DOMAIN bars, Known, clock) /\ w[r] \in Workers /\ w[r].pc = "halting" /\ clock \in Nat
  BY RunParts DEF HaltSave, At
<1>1. /\ cp' = (IF Owns(r) THEN Cp(r, w[r]) ELSE cp) /\ UNCHANGED <<clock, bars, disputed, lease, row, served>>
      /\ Becomes(r, [x EXCEPT !.todo = @ \ {"save"}])
  BY DEF HaltSave
<1>1a. x.todo = w[r].todo
  BY RestParts DEF Spent, Workers
<1>2. Becomes(r, y)
  BY <1>1, <1>1a
<1>3. todo \in SUBSET {"row", "save"}
  BY <1>0 DEF Workers
<1>4. x \in Workers /\ x.pc = "halting" /\ SameRun(w[r], x) /\ NoWork(x) /\ x.state = w[r].state /\ x.ev = EmptyEvidence
  BY <1>0, SpentParts
<1> HIDE DEF x, todo
<1>5. y \in Workers /\ y.pc = "halting" /\ SameRun(w[r], y) /\ NoWork(y) /\ y.state = w[r].state /\ y.ev = EmptyEvidence
  BY <1>3, <1>4 DEF Workers, SameRun, NoWork
<1> HIDE DEF y
<1>6. Sound(y, DOMAIN bars) /\ y.state \in {"HALTED", "STOPPED"}
  BY <1>0, <1>5 DEF Sound, EmptyEvidence, Fine
<1>7. Fine(y, Owns(r), DOMAIN bars, Known, clock)
  BY <1>0, <1>5, <1>6, FineAtRest DEF Recovers, Goes
<1>8. CheckpointOK'
  BY <1>1, OwnCheckpoint
<1>9. DOMAIN row' = Runs /\ \A q \in Runs : row[q] # "NONE" => row'[q] # "NONE"
  BY <1>1 DEF DurableInv, LeaseOK
<1> QED
  BY <1>0, <1>1, <1>2, <1>5, <1>7, <1>8, <1>9, StatementAdvances DEF SameRun

(* What is left of a worker after its release. *)
LEMMA FineFreed ==
  ASSUME NEW x \in Workers, NEW own, NEW dom, NEW known, NEW now \in Nat, x.state \in {"HALTED", "STOPPED"}
  PROVE  Fine(Freed(x), own, dom, known, now) /\ ~Freed(x).held
<1> DEFINE y == Freed(x)
<1>1. /\ y \in Workers /\ NoWork(y) /\ ~y.held /\ y.ev = EmptyEvidence
      /\ y.pc = "done" \/ (y.pc = "idle" /\ y.state = x.state)
  BY FreedParts
<1> HIDE DEF y
<1>2. Sound(y, dom) /\ ~Goes(y) /\ ~Recovers(y)
  BY <1>1 DEF Sound, EmptyEvidence, Goes, Recovers, Active
<1>3. Fine(y, own, dom, known, now)
  BY <1>1, <1>2, FineAtRest
<1> QED
  BY <1>1, <1>3 DEF y

(* The release of the lease. *)
LEMMA ReleaseAdvances == ASSUME DurableInv, NEW r \in Runs, Release(r) PROVE Advances
<1> DEFINE y == Freed(w[r])
<1>0. /\ Fine(w[r], Owns(r), DOMAIN bars, Known, clock) /\ w[r] \in Workers /\ w[r].pc \in {"halting", "release"} /\ clock \in Nat
  BY RunParts DEF Release, At
<1>1. /\ lease' = (IF w[r].held /\ lease.run = r THEN [lease EXCEPT !.live = FALSE] ELSE lease)
      /\ Becomes(r, y) /\ UNCHANGED <<clock, bars, disputed, cp, row, served>>
  BY DEF Release
<1>2. w[r].state \in {"HALTED", "STOPPED"}
  BY <1>0 DEF Fine
<1>3. Fine(y, Owns(r), DOMAIN bars, Known, clock) /\ ~y.held
  BY <1>0, <1>2, FineFreed
<1> HIDE DEF y
<1>4. lease' = lease \/ (lease' \in [run : 0..NRuns, live : BOOLEAN] /\ ~lease'.live)
  BY <1>1 DEF DurableInv, LeaseOK
<1>5. CheckpointOK'
  BY <1>1 DEF DurableInv, CheckpointOK
<1>6. DOMAIN row' = Runs /\ \A q \in Runs : row[q] # "NONE" => row'[q] # "NONE"
  BY <1>1 DEF DurableInv, LeaseOK
<1> QED
  BY <1>0, <1>1, <1>3, <1>4, <1>5, <1>6, StatementAdvances

(* A statement throws. *)
LEMMA StorageFailsAdvances == ASSUME DurableInv, NEW r \in Runs, StorageFails(r) PROVE Advances
<1>0. /\ Fine(w[r], Owns(r), DOMAIN bars, Known, clock) /\ w[r] \in Workers /\ w[r].pc # "new" /\ clock \in Nat
      /\ Sound(w[r], DOMAIN bars)
  BY RunParts DEF StorageFails
<1>1. CASE At(r, "halting") /\ w[r].todo # {}
  <2> DEFINE y == [w[r] EXCEPT !.todo = {}]
  <2>1. Locally(r, y)
    BY <1>1 DEF StorageFails
  <2>2. /\ y \in Workers /\ y.pc = w[r].pc /\ SameEvidence(w[r], y) /\ y.job = w[r].job /\ y.bar = w[r].bar
        /\ y.held = w[r].held /\ y.state = w[r].state /\ y.stopped = w[r].stopped
    BY <1>0 DEF Workers, SameEvidence
  <2> HIDE DEF y
  <2>3. Fine(y, Owns(r), DOMAIN bars, Known, clock)
    BY <1>0, <2>2, FineSame DEF Active
  <2> QED
    BY <1>0, <2>1, <2>2, <2>3, LocalAdvances
<1>2. CASE At(r, "halting") /\ w[r].todo = {}
  <2>1. Locally(r, Freed(w[r]))
    BY <1>2 DEF StorageFails
  <2>2. w[r].state \in {"HALTED", "STOPPED"}
    BY <1>0, <1>2 DEF Fine, At
  <2>3. Fine(Freed(w[r]), Owns(r), DOMAIN bars, Known, clock) /\ ~Freed(w[r]).held
    BY <1>0, <2>2, FineFreed
  <2> QED
    BY <1>0, <2>1, <2>3, LocalAdvances
<1>3. CASE ~At(r, "halting")
  <2> DEFINE held == w[r].held /\ ~At(r, "release")
             x == [w[r] EXCEPT !.held = held]
  <2>1. Locally(r, Quit(x, "ANY"))
    BY <1>3 DEF StorageFails
  <2>2. held \in BOOLEAN /\ (held => w[r].held)
    OBVIOUS
  <2> HIDE DEF held
  <2>3. x \in Workers /\ x.ev = w[r].ev /\ x.latest = w[r].latest /\ x.held = held
    BY <1>0, <2>2 DEF Workers
  <2> HIDE DEF x
  <2>4. Sound(x, DOMAIN bars)
    BY <1>0, <2>3 DEF Sound
  <2> QED
    BY <1>0, <2>1, <2>2, <2>3, <2>4, QuitAdvances DEF Reasons
<1> QED
  BY <1>1, <1>2, <1>3

(* The process crashes. *)
LEMMA CrashAdvances == ASSUME DurableInv, NEW r \in Runs, Crash(r) PROVE Advances
<1> DEFINE y == Go(NewWorker, "dead")
<1>0. w[r].pc # "new" /\ clock \in Nat /\ Locally(r, y)
  BY RunParts DEF Crash
<1>1. NewWorker \in Workers /\ NoWork(NewWorker) /\ ~NewWorker.held /\ NewWorker.ev = EmptyEvidence /\ "dead" \in PCs
  BY RestParts DEF NewWorker, NoWork, PCs
<1>2. y \in Workers /\ y.pc = "dead" /\ NoWork(y) /\ ~y.held /\ y.ev = EmptyEvidence
  BY <1>1, GoParts DEF NoWork, SameRun, SameEvidence
<1> HIDE DEF y
<1>3. Sound(y, DOMAIN bars) /\ ~Goes(y) /\ ~Recovers(y)
  BY <1>2 DEF Sound, EmptyEvidence, Goes, Recovers
<1>4. Fine(y, Owns(r), DOMAIN bars, Known, clock)
  BY <1>0, <1>2, <1>3, FineAtRest
<1> QED
  BY <1>0, <1>2, <1>4, LocalAdvances

(* The source moves under the worker. *)
LEMMA SourceAdvances ==
  ASSUME DurableInv, NEW r \in Runs, SourceUp(r) \/ SourceDrops(r) \/ SourceFails(r)
  PROVE  Advances
<1>0. /\ Fine(w[r], Owns(r), DOMAIN bars, Known, clock) /\ w[r] \in Workers
  BY RunParts
<1>1. PICK from \in {"CONNECTING", "UP"}, to \in {"CONNECTING", "UP", "FAILED"} : SourceMoves(r, from, to)
  BY DEF SourceUp, SourceDrops, SourceFails
<1> DEFINE y == [w[r] EXCEPT !.src = to]
<1>2. Locally(r, y) /\ w[r].src = from
  BY <1>1 DEF SourceMoves
<1>3. /\ y \in Workers /\ y.pc = w[r].pc /\ SameEvidence(w[r], y) /\ y.job = w[r].job /\ y.bar = w[r].bar
      /\ y.held = w[r].held /\ y.state = w[r].state /\ y.stopped = w[r].stopped
  BY <1>0 DEF Workers, SameEvidence
<1> HIDE DEF y
<1>4. Fine(y, Owns(r), DOMAIN bars, Known, clock)
  BY <1>0, <1>3, FineSame DEF Active
<1> QED
  BY <1>2, <1>3, <1>4, LocalAdvances

(* The lease expires. *)
LEMMA LeaseExpiresAdvances == ASSUME DurableInv, LeaseExpires PROVE Advances
<1>1. lease' = [lease EXCEPT !.live = FALSE] /\ UNCHANGED <<clock, bars, disputed, cp, row, w, served>>
  BY DEF LeaseExpires
<1>2. lease' \in [run : 0..NRuns, live : BOOLEAN] /\ ~lease'.live
  BY <1>1 DEF DurableInv, LeaseOK
<1>3. LeaseOK'
  BY <1>1, <1>2 DEF DurableInv, LeaseOK
<1>4. Known' = Known /\ clock \in Nat
  BY <1>1, BoundsParts DEF Known, DurableInv, StoreOK
<1>5. ASSUME NEW q \in Runs PROVE Fine(w'[q], Owns(q)', DOMAIN bars', Known', clock')
  <2>1. ~Owns(q)'
    BY <1>2 DEF Owns
  <2>2. Fine(w[q], Owns(q), DOMAIN bars, Known, clock)
    BY DEF DurableInv, RunsOK
  <2> QED
    BY <1>1, <1>4, <2>1, <2>2, FineGrows
<1>6. StoreOK' /\ CheckpointOK' /\ RunsOK'
  BY <1>1, <1>4, <1>5 DEF DurableInv, StoreOK, CheckpointOK, RunsOK
<1>7. Ledger!Commit
  BY <1>1, <1>6, CommitParts DEF DurableInv, StoreOK
<1> QED
  BY <1>3, <1>6, <1>7 DEF Advances, DurableInv

(* A minute passes. *)
LEMMA TickAdvances == ASSUME DurableInv, Tick PROVE Advances
<1>1. clock < MaxMinute /\ clock' = clock + 1 /\ UNCHANGED <<bars, disputed, cp, lease, row, w, served>>
  BY DEF Tick
<1>2. Known' = Known /\ clock \in Nat /\ clock' \in Nat /\ clock <= clock' /\ clock' \in Minutes
  BY <1>1, BoundsParts DEF Known, DurableInv, StoreOK, Minutes
<1>3. ASSUME NEW q \in Runs PROVE Fine(w'[q], Owns(q)', DOMAIN bars', Known', clock')
  <2>1. Owns(q)' => Owns(q) /\ DOMAIN bars' = DOMAIN bars
    BY <1>1 DEF Owns
  <2>2. Fine(w[q], Owns(q), DOMAIN bars, Known, clock)
    BY DEF DurableInv, RunsOK
  <2> QED
    BY <1>1, <1>2, <2>1, <2>2, FineGrows
<1>4. StoreOK'
  <2>1. 0..clock \subseteq 0..clock' /\ clock' >= Window - 1
    BY <1>1, <1>2, BoundsParts DEF DurableInv, StoreOK
  <2> QED
    BY <1>1, <1>2, <2>1 DEF DurableInv, StoreOK
<1>5. CheckpointOK' /\ RunsOK' /\ LeaseOK'
  BY <1>1, <1>3 DEF DurableInv, CheckpointOK, RunsOK, LeaseOK
<1>6. Ledger!Commit
  BY <1>1, <1>5, CommitParts DEF DurableInv, StoreOK
<1> QED
  BY <1>4, <1>5, <1>6 DEF Advances, DurableInv

----------------------------------------------------------------------------
(* The recovery of the start and of a gap.                                  *)

(* The lease flag of a worker survives what its local code does. *)
LEMMA HeldParts ==
  ASSUME NEW x \in Workers
  PROVE  /\ NextRange(x).held = x.held /\ AfterRecovery(x).held = x.held
         /\ \A lo, hi \in Minutes : Exact(x, lo, hi).held = x.held
<1>1. ASSUME NEW z \in Workers PROVE NextRange(z).held = z.held
  BY <1>1 DEF NextRange, Go, Workers
<1>2. AfterRecovery(x).held = x.held
  BY DEF AfterRecovery, Workers
<1>3. ASSUME NEW lo \in Minutes, NEW hi \in Minutes PROVE Exact(x, lo, hi).held = x.held
  <2> DEFINE z == Marked(x)
  <2>1. z \in Workers /\ z.held = x.held
    BY MarkedParts DEF SameRun
  <2>2. CASE BeyondHorizon(x, lo, hi)
    BY <2>1, <2>2, QuitParts DEF Exact, SameRun, Reasons
  <2>3. CASE ~BeyondHorizon(x, lo, hi)
    <3> DEFINE j == [NoJob EXCEPT !.lo = lo, !.hi = hi, !.need = ToRequest(x, lo, hi)]
               y == [z EXCEPT !.job = j]
    <3>1. Exact(x, lo, hi) = NextRange(y)
      BY <2>3 DEF Exact
    <3>2. ToRequest(x, lo, hi) \subseteq Minutes
      BY BoundsParts DEF ToRequest, Minutes
    <3>3. j \in Jobs
      BY <3>2 DEF Jobs, NoJob, Times
    <3> HIDE DEF j, z
    <3>4. y \in Workers /\ y.held = z.held
      BY <2>1, <3>3 DEF Workers
    <3> QED
      BY <1>1, <2>1, <3>1, <3>4
  <2> QED
    BY <2>2, <2>3
<1> QED
  BY <1>1, <1>2, <1>3

(* A live bar that continues the range is written, one that leaves a gap first repairs it. *)
LEMMA BarArrivesAdvances ==
  ASSUME DurableInv, NEW r \in Runs, NEW t \in Minutes, NEW v \in {"a", "b"}, BarArrives(r, t, v)
  PROVE  Advances
<1> DEFINE b == [t |-> t, v |-> v]
           x == [w[r] EXCEPT !.bar = b]
<1>0. /\ Fine(w[r], Owns(r), DOMAIN bars, Known, clock) /\ w[r] \in Workers /\ clock \in Nat
      /\ w[r].pc = "idle" /\ Active(w[r]) /\ t <= clock
  BY RunParts DEF BarArrives, At
<1>1. Locally(r, IF x.latest # Nil /\ t > x.latest + 1 THEN Go(Marked(x), "gapSave") ELSE Go(x, "barWrite"))
  BY DEF BarArrives
<1>2. w[r].ev.cont = "VERIFIED" /\ Solid(w[r].ev, w[r].latest, DOMAIN bars)
  BY <1>0 DEF Fine, Goes, Sound
<1>3. b \in LiveBars /\ b.t = t
  BY DEF LiveBars, Times
<1> HIDE DEF b
<1>4. /\ x \in Workers /\ x.ev = w[r].ev /\ x.latest = w[r].latest /\ x.job = w[r].job /\ x.bar = b /\ x.held = w[r].held
  BY <1>0, <1>3 DEF Workers
<1> HIDE DEF x
<1>4a. "gapSave" \in PCs /\ "barWrite" \in PCs /\ t # Nil
  BY BoundsParts DEF PCs, Nil
<1>5. CASE x.latest # Nil /\ t > x.latest + 1
  <2> DEFINE z == Marked(x)
             y == Go(z, "gapSave")
  <2>1. /\ z \in Workers /\ z.ev.cont = "GAP" /\ z.ev.lo = x.ev.lo /\ z.ev.hi = x.ev.hi /\ z.ev.kind = x.ev.kind
        /\ z.latest = x.latest /\ z.job = x.job /\ z.bar = x.bar /\ z.held = x.held
    BY <1>4, MarkedParts DEF SameRun
  <2> HIDE DEF z
  <2>2. y \in Workers /\ y.pc = "gapSave" /\ y.held = z.held /\ y.ev = z.ev /\ y.latest = z.latest /\ y.job = z.job /\ y.bar = z.bar
    BY <1>4a, <2>1, GoParts DEF SameRun, SameEvidence
  <2>3. Locally(r, y)
    BY <1>1, <1>5 DEF z
  <2> HIDE DEF y
  <2>4. Sound(y, DOMAIN bars) /\ Timely(y, Known, clock)
    BY <1>0, <1>3, <1>4, <2>1, <2>2 DEF Fine, Sound, Timely
  <2>5. Solid(y.ev, y.latest, DOMAIN bars)
    BY <1>2, <1>4, <2>1, <2>2 DEF Solid
  <2>6. Fine(y, Owns(r), DOMAIN bars, Known, clock)
    BY <1>3, <1>4, <1>4a, <1>5, <2>1, <2>2, <2>4, <2>5 DEF Fine, Goes, IsExact, IsBoot
  <2> QED
    BY <1>0, <1>4, <2>1, <2>2, <2>3, <2>6, LocalAdvances
<1>6. CASE ~(x.latest # Nil /\ t > x.latest + 1)
  <2> DEFINE y == Go(x, "barWrite")
  <2>1. y \in Workers /\ y.pc = "barWrite" /\ y.held = x.held /\ y.ev = x.ev /\ y.latest = x.latest /\ y.job = x.job /\ y.bar = x.bar
    BY <1>4, <1>4a, GoParts DEF SameRun, SameEvidence
  <2>2. Locally(r, y)
    BY <1>1, <1>6
  <2> HIDE DEF y
  <2>3. Sound(y, DOMAIN bars) /\ Timely(y, Known, clock)
    BY <1>0, <1>3, <1>4, <2>1 DEF Fine, Sound, Timely
  <2>4. t <= x.latest + 1
    <3>1. w[r].ev.lo \in Minutes /\ w[r].ev.hi \in Minutes /\ w[r].latest \in Times
      BY <1>0, <1>2 DEF Workers, Evidence, Solid
    <3>2. \A m \in Times : m \in Int
      BY BoundsParts DEF Times, Nil
    <3>2a. w[r].ev.lo \in Nat /\ w[r].ev.hi \in Nat
      BY <3>1, BoundsParts
    <3>3. w[r].latest \in Int /\ w[r].latest # Nil
      BY <1>2, <3>1, <3>2, <3>2a DEF Solid, Nil
    <3>4. t \in Int
      BY BoundsParts
    <3> QED
      BY <1>4, <1>6, <3>3, <3>4
  <2>5. Fine(y, Owns(r), DOMAIN bars, Known, clock)
    BY <1>2, <1>3, <1>4, <1>4a, <2>1, <2>3, <2>4 DEF Fine, Recovers, IsExact, IsBoot
  <2> QED
    BY <1>0, <1>4, <2>1, <2>2, <2>5, LocalAdvances
<1> QED
  BY <1>5, <1>6

(* The gap is in the checkpoint before it is repaired. *)
LEMMA GapSaveAdvances == ASSUME DurableInv, NEW r \in Runs, GapSave(r) PROVE Advances
<1> DEFINE x == w[r]
           lo == x.latest + 1
           hi == x.bar.t - 1
           y == IF Active(x) THEN Exact(x, lo, hi) ELSE Idle(x)
<1>0. /\ Fine(x, Owns(r), DOMAIN bars, Known, clock) /\ x \in Workers /\ Sound(x, DOMAIN bars) /\ clock \in Nat /\ clock \in Minutes
      /\ x.pc = "gapSave"
  BY RunParts DEF GapSave, At
<1>1. CASE ~Owns(r)
  <2>1. LostOwnership(r) /\ UNCHANGED <<clock, bars, disputed, cp, lease, row, served>>
    BY <1>1 DEF GapSave
  <2> QED
    BY <1>0, <2>1, LostAdvances
<1>2. CASE Owns(r)
  <2>1. cp' = Cp(r, w[r]) /\ Becomes(r, y) /\ UNCHANGED <<clock, bars, disputed, lease, row, served>>
    BY <1>2 DEF GapSave
  <2>2. /\ Solid(x.ev, x.latest, DOMAIN bars) /\ x.bar.t > x.latest + 1 /\ x.bar.t # Nil /\ x.bar.t <= clock
    BY <1>0 DEF Fine, Timely
  <2>3. x.ev.lo \in Minutes /\ x.ev.hi \in Minutes /\ x.latest \in Times /\ x.bar.t \in Minutes
    BY <1>0, <2>2 DEF Workers, Evidence, Solid, LiveBars, Times
  <2>4. x.ev.lo \in Nat /\ x.ev.hi \in Nat /\ x.bar.t \in Nat /\ x.latest \in Int /\ x.bar.t <= MaxMinute
    <3>1. \A m \in Times : m \in Int
      BY BoundsParts DEF Times, Nil
    <3> QED
      BY <2>3, <3>1, BoundsParts DEF Minutes
  <2>5. x.latest \in Nat /\ x.ev.lo <= x.latest /\ x.ev.hi <= x.latest
    BY <2>2, <2>4 DEF Solid
  <2>6. lo \in Minutes /\ hi \in Minutes /\ hi <= clock /\ x.latest <= hi /\ x.ev.lo <= hi /\ x.bar.t = hi + 1
    BY <1>0, <2>2, <2>4, <2>5, BoundsParts DEF Minutes
  <2>7. ASSUME NEW m \in Minutes, x.ev.lo <= m, m < lo, m > hi - Window PROVE m \in DOMAIN bars
    <3>1. m \in Nat /\ m <= x.latest /\ m > x.ev.hi - Window
      BY <2>4, <2>5, <2>6, <2>7, BoundsParts
    <3> QED
      BY <2>2, <2>7, <3>1 DEF Solid
  <2>8. Active(x) => Fine(Exact(x, lo, hi), Owns(r), DOMAIN bars, Known, clock)
    <3> HIDE DEF x, lo, hi
    <3> QED
      BY <1>0, <2>2, <2>6, <2>7, FineExact
  <2>9. Fine(y, Owns(r), DOMAIN bars, Known, clock) /\ y.held = x.held
    <3>1. CASE Active(x)
      <4>1. y = Exact(x, lo, hi)
        BY <3>1
      <4> HIDE DEF x, lo, hi, y
      <4> QED
        BY <1>0, <2>6, <2>8, <3>1, <4>1, HeldParts
    <3>2. CASE ~Active(x)
      <4>1. y = Idle(x)
        BY <3>2
      <4> HIDE DEF x, lo, hi, y
      <4> QED
        BY <1>0, <3>2, <4>1, FineIdle, IdleParts DEF SameRun
    <3> QED
      BY <3>1, <3>2
  <2> HIDE DEF y
  <2>10. CheckpointOK'
    BY <1>2, <2>1, OwnCheckpoint
  <2>11. DOMAIN row' = Runs /\ \A q \in Runs : row[q] # "NONE" => row'[q] # "NONE"
    BY <2>1 DEF DurableInv, LeaseOK
  <2> QED
    BY <1>0, <2>1, <2>9, <2>10, <2>11, StatementAdvances
<1> QED
  BY <1>1, <1>2

(* Solid evidence is about numbers. *)
LEMMA SolidNumbers ==
  ASSUME NEW x \in Workers, NEW dom, Solid(x.ev, x.latest, dom)
  PROVE  x.ev.lo \in Minutes /\ x.ev.hi \in Minutes /\ x.latest \in Minutes /\ x.ev.lo \in Nat /\ x.ev.hi \in Nat /\ x.latest \in Nat
<1>1. x.ev.lo \in Minutes /\ x.ev.hi \in Minutes /\ x.latest \in Times
  BY DEF Workers, Evidence, Solid
<1>2. \A m \in Times : m \in Int
  BY BoundsParts DEF Times, Nil
<1>3. x.ev.lo \in Nat /\ x.ev.hi \in Nat
  BY <1>1, BoundsParts
<1>4. x.latest # Nil
  BY <1>1, <1>2, <1>3 DEF Solid, Nil
<1>5. x.latest \in Minutes
  BY <1>1, <1>4 DEF Times
<1> QED
  BY <1>1, <1>3, <1>5, BoundsParts

(* A live bar is stored, or contradicts the ledger and takes the trust away. *)
LEMMA BarWriteAdvances == ASSUME DurableInv, NEW r \in Runs, BarWrite(r) PROVE Advances
<1> DEFINE x == w[r]
           t == x.bar.t
           hi == IF x.ev.cont = "VERIFIED" /\ t = x.ev.hi + 1 THEN t ELSE x.ev.hi
           latest == Max({x.latest, t})
           y == [x EXCEPT !.pc = "barSave", !.latest = latest, !.ev.hi = hi]
           dom == DOMAIN bars \cup {t}
<1>0. /\ Fine(x, Owns(r), DOMAIN bars, Known, clock) /\ x \in Workers /\ Sound(x, DOMAIN bars) /\ clock \in Nat
      /\ x.pc = "barWrite" /\ DOMAIN w = Runs
  BY RunParts DEF BarWrite, At
<1>1. CASE ~Owns(r)
  <2>1. LostOwnership(r) /\ UNCHANGED <<clock, bars, disputed, cp, lease, row, served>>
    BY <1>1 DEF BarWrite
  <2> QED
    BY <1>0, <2>1, LostAdvances
<1>2. /\ x.ev.cont = "VERIFIED" /\ Solid(x.ev, x.latest, DOMAIN bars) /\ t # Nil /\ t <= x.latest + 1 /\ t <= clock
      /\ t \in Minutes /\ t \in Nat
  <2>1. x.ev.cont = "VERIFIED" /\ t # Nil /\ t <= x.latest + 1 /\ t <= clock
    BY <1>0 DEF Fine, Goes, Timely
  <2>2. Solid(x.ev, x.latest, DOMAIN bars) /\ t \in Times
    BY <1>0, <2>1 DEF Sound, Workers, LiveBars
  <2> QED
    BY <2>1, <2>2, BoundsParts DEF Times
<1>3. CASE Owns(r) /\ t \in DOMAIN bars /\ bars[t] # x.bar.v
  <2> DEFINE d == Distrusted(x)
             z == Quit(d, "BAR_CONFLICT")
  <2>1. /\ disputed' = disputed \cup {t} /\ cp' = Cp(r, d) /\ Becomes(r, z)
        /\ UNCHANGED <<clock, bars, lease, row, served>>
    BY <1>3 DEF BarWrite, OnConflict
  <2>2. d \in Workers /\ d.ev.cont = "GAP"
    BY <1>0, DistrustedParts
  <2> HIDE DEF d
  <2>3. Sound(d, DOMAIN bars)
    BY <2>2 DEF Sound
  <2>4. Fine(z, Owns(r)', DOMAIN bars', Known', clock)
    BY <1>0, <2>1, <2>3, FineQuit DEF Reasons
  <2>5. LeaseOK'
    BY <1>0, <2>1, LeaseStays
  <2>6. cp'.ev.cont = "GAP" /\ cp' \in Checkpoints
    BY <2>1, <2>2, <2>3, CpParts DEF Cp
  <2>7. CheckpointOK'
    BY <2>6 DEF CheckpointOK
  <2>8. Bridged(DOMAIN bars', Known')
    BY <2>1 DEF DurableInv, StoreOK, Known
  <2> HIDE DEF z
  <2>9. disputed' \subseteq DOMAIN bars
    BY <1>3, <2>1 DEF DurableInv, StoreOK
  <2> QED
    BY <2>1, <2>4, <2>5, <2>6, <2>7, <2>8, <2>9, StepAdvances DEF DurableInv, StoreOK
<1>4. CASE Owns(r) /\ ~(t \in DOMAIN bars /\ bars[t] # x.bar.v)
  <2>1. /\ bars' = [m \in dom |-> IF m = t THEN x.bar.v ELSE bars[m]] /\ UNCHANGED <<disputed, cp>>
        /\ UNCHANGED <<clock, lease, row, served>>
    BY <1>4 DEF BarWrite
  <2>1a. Becomes(r, y)
    <3>1. Becomes(r, [x EXCEPT !.pc = "barSave", !.latest = Max({@, t}),
                               !.ev.hi = IF x.ev.cont = "VERIFIED" /\ t = @ + 1 THEN t ELSE @])
      BY <1>4 DEF BarWrite
    <3> QED
      BY <3>1
  <2>2. /\ x.ev.lo \in Minutes /\ x.ev.hi \in Minutes /\ x.latest \in Minutes
        /\ x.ev.lo \in Nat /\ x.ev.hi \in Nat /\ x.latest \in Nat
    BY <1>0, <1>2, SolidNumbers
  <2>3. latest = (IF x.latest >= t THEN x.latest ELSE t) /\ hi = (IF t = x.ev.hi + 1 THEN t ELSE x.ev.hi)
    BY <1>2, <2>2, MaxOfTwo
  <2>4. latest \in Minutes /\ hi \in Minutes
    BY <1>2, <2>2, <2>3
  <2> DEFINE e == [x.ev EXCEPT !.hi = hi]
  <2>5. x.ev \in Evidence
    BY <1>0 DEF Workers
  <2>6. e \in Evidence /\ e.cont = "VERIFIED" /\ e.lo = x.ev.lo /\ e.hi = hi /\ e.kind = x.ev.kind
    BY <1>2, <2>4, <2>5 DEF Evidence
  <2>7. y = [x EXCEPT !.pc = "barSave", !.latest = latest, !.ev = e]
    OBVIOUS
  <2> HIDE DEF e, latest, hi
  <2>8. y \in Workers /\ y.pc = "barSave" /\ y.latest = latest /\ y.ev = e /\ y.job = x.job /\ y.bar = x.bar /\ y.held = x.held
    BY <1>0, <2>4, <2>6, <2>7 DEF Workers, PCs, Times
  <2> HIDE DEF y
  <2>9. DOMAIN bars' = dom /\ dom \subseteq 0..clock /\ bars' = [m \in DOMAIN bars' |-> bars'[m]]
    BY <1>0, <1>2, <2>1 DEF DurableInv, StoreOK
  <2>10. Solid(e, latest, dom)
    <3>1. e.lo # Nil /\ e.hi # Nil /\ e.lo <= e.hi /\ e.hi <= latest /\ e.lo = x.ev.lo
      BY <1>2, <2>2, <2>3, <2>4, <2>6, BoundsParts DEF Solid
    <3>2. ASSUME NEW m \in Minutes, e.lo <= m, m <= latest, m > e.hi - Window PROVE m \in dom
      <4>1. m \in Nat /\ (m = t \/ (m <= x.latest /\ m > x.ev.hi - Window))
        BY <1>2, <2>2, <2>3, <2>6, <3>2, BoundsParts
      <4> QED
        BY <1>2, <3>1, <3>2, <4>1 DEF Solid
    <3>3. e.hi = latest \/ (e.kind = "BOOTSTRAP" /\ \E m \in Sparse : m \in e.lo..(e.hi + 1))
      <4>1. CASE x.ev.hi = x.latest
        BY <1>2, <2>2, <2>3, <2>6, <4>1
      <4>2. CASE x.ev.hi # x.latest
        <5>1. x.ev.kind = "BOOTSTRAP" /\ \E m \in Sparse : m \in x.ev.lo..(x.ev.hi + 1)
          BY <1>2, <4>2 DEF Solid
        <5>2. x.ev.lo..(x.ev.hi + 1) \subseteq e.lo..(e.hi + 1)
          BY <1>2, <2>2, <2>3, <2>6
        <5> QED
          BY <2>6, <5>1, <5>2
      <4> QED
        BY <4>1, <4>2
    <3> QED
      BY <3>1, <3>2, <3>3 DEF Solid
  <2>11. Sound(y, dom) /\ Timely(y, Known', clock)
    BY <1>0, <2>1, <2>8, <2>10 DEF Sound, Timely, Fine, Known
  <2>12. Fine(y, Owns(r)', DOMAIN bars', Known', clock)
    BY <2>6, <2>8, <2>9, <2>11 DEF Fine, Recovers, IsExact, IsBoot
  <2>13. LeaseOK'
    BY <1>0, <2>1, <2>1a, LeaseStays
  <2>14. CheckpointOK'
    BY <2>1, <2>9, SolidGrows DEF DurableInv, CheckpointOK
  <2>15. Bridged(DOMAIN bars', Known')
    <3>1. Known' = Known /\ Bridged(DOMAIN bars, Known)
      BY <2>1 DEF DurableInv, StoreOK, Known
    <3>2. ASSUME NEW m \in Minutes, NEW k \in dom, m < k, m \notin dom PROVE \E n \in dom \cap Known : n > m
      <4>1. \E k2 \in DOMAIN bars : m < k2
        <5>1. CASE k \in DOMAIN bars
          BY <3>2, <5>1
        <5>2. CASE k = t
          <6>1. x.latest \in DOMAIN bars
            BY <1>2, <2>2, BoundsParts DEF Solid
          <6>2. m \in Nat /\ m # x.latest
            BY <3>2, <6>1, BoundsParts
          <6> QED
            BY <1>2, <2>2, <3>2, <5>2, <6>1, <6>2
        <5> QED
          BY <5>1, <5>2
      <4>2. m \notin DOMAIN bars
        BY <3>2
      <4> QED
        BY <3>1, <4>1, <4>2 DEF Bridged
    <3> QED
      BY <2>9, <3>1, <3>2 DEF Bridged
  <2>16. \A m \in DOMAIN bars : bars'[m] = bars[m]
    BY <1>4, <2>1
  <2>17. served' \subseteq 0..clock /\ disputed' \subseteq DOMAIN bars
    BY <2>1 DEF DurableInv, StoreOK
  <2> HIDE DEF dom, x, t
  <2> QED
    BY <1>4, <2>1, <2>1a, <2>9, <2>12, <2>13, <2>14, <2>15, <2>16, <2>17, StepAdvances DEF dom
<1> QED
  BY <1>1, <1>3, <1>4

(* The checkpoint of a bar. *)
LEMMA BarSaveAdvances == ASSUME DurableInv, NEW r \in Runs, BarSave(r) PROVE Advances
<1>0. /\ Fine(w[r], Owns(r), DOMAIN bars, Known, clock) /\ w[r] \in Workers /\ Sound(w[r], DOMAIN bars) /\ clock \in Nat
      /\ w[r].pc = "barSave" /\ Save(r, Idle(w[r]))
  BY RunParts DEF BarSave, At
<1>1. w[r].ev.cont = "VERIFIED"
  BY <1>0 DEF Fine, Goes
<1>2. Fine(Idle(w[r]), Owns(r), DOMAIN bars, Known, clock) /\ Idle(w[r]).held = w[r].held
  BY <1>0, <1>1, FineIdle, IdleParts DEF SameRun
<1> QED
  BY <1>0, <1>2, SaveAdvances

(* A failed attempt is written down, and the worker halts. *)
LEMMA AttemptFailedAdvances == ASSUME DurableInv, NEW r \in Runs, AttemptFailed(r) PROVE Advances
<1> DEFINE y == Quit(w[r], "ANY")
<1>0. /\ w[r] \in Workers /\ Sound(w[r], DOMAIN bars) /\ clock \in Nat /\ w[r].pc = "attemptFailed"
  BY RunParts DEF AttemptFailed, At
<1>1. /\ cp' = (IF Owns(r) THEN Cp(r, w[r]) ELSE cp) /\ Becomes(r, y)
      /\ UNCHANGED <<clock, bars, disputed, lease, row, served>>
  BY DEF AttemptFailed, LostOwnership
<1>2. Fine(y, Owns(r), DOMAIN bars, Known, clock) /\ y.held = w[r].held
  BY <1>0, FineQuit, QuitParts DEF Reasons, SameRun
<1> HIDE DEF y
<1>3. CheckpointOK'
  BY <1>1, OwnCheckpoint
<1>4. DOMAIN row' = Runs /\ \A q \in Runs : row[q] # "NONE" => row'[q] # "NONE"
  BY <1>1 DEF DurableInv, LeaseOK
<1> QED
  BY <1>0, <1>1, <1>2, <1>3, <1>4, StatementAdvances

----------------------------------------------------------------------------
(* The recovery.                                                            *)

(* A statement that a stopped worker does not make any more. *)
LEMMA RenewedAdvances ==
  ASSUME DurableInv, NEW r \in Runs, NEW y, Renewed(r, y), Owns(r) => Fine(y, Owns(r), DOMAIN bars, Known, clock),
         y.held = w[r].held, w[r].pc # "new"
  PROVE  Advances
<1>1. CASE Active(w[r])
  BY <1>1, SaveAdvances DEF Renewed
<1>2. CASE ~Active(w[r])
  <2>1. w[r] \in Workers /\ Sound(w[r], DOMAIN bars) /\ clock \in Nat
    BY RunParts
  <2>2. Fine(Idle(w[r]), Owns(r), DOMAIN bars, Known, clock) /\ Idle(w[r]).held = w[r].held
    BY <1>2, <2>1, FineIdle, IdleParts DEF SameRun
  <2> QED
    BY <1>2, <2>2, LocalAdvances DEF Renewed
<1> QED
  BY <1>1, <1>2

(* An attempt of a bootstrap keeps what it will answer, one of an exact recovery what it extends. *)
LEMMA AttemptAdvances == ASSUME DurableInv, NEW r \in Runs, Attempt(r) PROVE Advances
<1> DEFINE x == w[r]
<1>0. /\ Fine(x, Owns(r), DOMAIN bars, Known, clock) /\ x \in Workers /\ clock \in Nat /\ x.pc = "attempt"
  BY RunParts DEF Attempt, At
<1>1. x.ev.cont = "GAP"
  BY <1>0 DEF Fine, Recovers
<1>2. CASE x.job.need = {}
  <2> DEFINE y == Go(x, "fetch")
  <2>1. Save(r, y)
    BY <1>2 DEF Attempt
  <2>2. "fetch" \in PCs
    BY DEF PCs
  <2>3. y \in Workers /\ y.pc = "fetch" /\ y.held = x.held /\ SameEvidence(x, y) /\ y.job = x.job /\ y.bar = x.bar
    BY <1>0, <2>2, GoParts DEF SameRun
  <2> HIDE DEF x, y
  <2>4. Sound(y, DOMAIN bars) /\ Timely(y, Known, clock)
    BY <1>0, <1>1, <2>3 DEF Fine, Sound, Timely, SameEvidence
  <2>5. Boots(x, Owns(r), DOMAIN bars)
    BY <1>0, <1>2 DEF Fine, IsBoot
  <2>6. Boots(y, Owns(r), DOMAIN bars)
    BY <1>0, <2>3, <2>5 DEF Boots, Asking, SameEvidence
  <2>7. ~IsExact(y) /\ y.ev.cont = "GAP"
    BY <1>1, <2>3, <2>6 DEF IsExact, Boots, SameEvidence
  <2>8. Fine(y, Owns(r), DOMAIN bars, Known, clock)
    BY <2>3, <2>4, <2>6, <2>7 DEF Fine, Goes
  <2> QED
    BY <1>0, <2>1, <2>3, <2>8, SaveAdvances DEF x
<1>3. CASE x.job.need # {}
  <2> DEFINE e == [x.ev EXCEPT !.kind = "EXACT", !.reason = "ANY"]
             y == [x EXCEPT !.pc = "fetch", !.ev = e]
  <2>1. Renewed(r, y)
    BY <1>3 DEF Attempt
  <2>2. x.ev \in Evidence
    BY <1>0 DEF Workers
  <2>3. e \in Evidence /\ e.cont = "GAP" /\ e.lo = x.ev.lo /\ e.kind = "EXACT"
    BY <1>1, <2>2 DEF Evidence
  <2> HIDE DEF e
  <2>4. y \in Workers /\ y.pc = "fetch" /\ y.held = x.held /\ y.ev = e /\ y.latest = x.latest /\ y.job = x.job /\ y.bar = x.bar
    BY <1>0, <2>3 DEF Workers, PCs
  <2> HIDE DEF x, y
  <2>5. Sound(y, DOMAIN bars) /\ Timely(y, Known, clock)
    BY <1>0, <2>3, <2>4 DEF Fine, Sound, Timely
  <2>6. Extends(x, DOMAIN bars)
    BY <1>0, <1>3 DEF Fine, IsExact
  <2>7. Extends(y, DOMAIN bars)
    BY <2>3, <2>4, <2>6 DEF Extends
  <2>8. ~IsBoot(y)
    BY <2>3, <2>4 DEF IsBoot
  <2>9. Fine(y, Owns(r), DOMAIN bars, Known, clock)
    BY <2>3, <2>4, <2>5, <2>7, <2>8 DEF Fine, Goes
  <2> QED
    BY <1>0, <2>1, <2>4, <2>9, RenewedAdvances DEF x
<1> QED
  BY <1>2, <1>3

(* The whole interval is stored: the range extends to its end. *)
LEMMA FinalAdvances == ASSUME DurableInv, NEW r \in Runs, Final(r) PROVE Advances
<1> DEFINE x == w[r]
           lo == IF x.ev.lo = Nil THEN x.job.lo ELSE x.ev.lo
           hi == x.job.hi
<1>0. /\ Fine(x, Owns(r), DOMAIN bars, Known, clock) /\ x \in Workers /\ Sound(x, DOMAIN bars) /\ clock \in Nat
      /\ x.pc = "final"
  BY RunParts DEF Final, At
<1>1. CASE ~(x.job.lo..x.job.hi \subseteq DOMAIN bars)
  <2>1. Locally(r, Quit(x, "ANY"))
    BY <1>1 DEF Final
  <2>2. Fine(Quit(x, "ANY"), Owns(r), DOMAIN bars, Known, clock) /\ Quit(x, "ANY").held = x.held
    BY <1>0, FineQuit, QuitParts DEF Reasons, SameRun
  <2> QED
    BY <1>0, <2>1, <2>2, LocalAdvances
<1>2. CASE x.job.lo..x.job.hi \subseteq DOMAIN bars
  <2> DEFINE v == Verified(x, lo, hi)
             y == AfterRecovery(v)
  <2>1. Renewed(r, y)
    BY <1>2 DEF Final
  <2>2. Extends(x, DOMAIN bars) /\ x.bar.t <= clock
    BY <1>0 DEF Fine, IsExact, Timely
  <2>3. x.job.lo \in Minutes /\ hi \in Minutes /\ x.job.lo \in Nat /\ hi \in Nat /\ lo \in Minutes /\ lo \in Nat /\ x.latest \in Int
    <3>1. x.job.lo \in Minutes /\ hi \in Minutes /\ x.ev.lo \in Times /\ x.latest \in Times
      BY <1>0, <2>2 DEF Extends, Workers, Evidence, Times
    <3>2. \A m \in Times : m \in Int
      BY BoundsParts DEF Times, Nil
    <3> QED
      BY <3>1, <3>2, BoundsParts DEF Times
  <2>4. lo <= hi /\ x.latest <= hi
    BY <2>2 DEF Extends
  <2>5. /\ v \in Workers /\ v.ev.cont = "VERIFIED" /\ v.ev.lo = lo /\ v.ev.hi = hi /\ v.bar = x.bar /\ v.held = x.held
        /\ v.latest = hi
    <3> HIDE DEF x, lo, hi, v
    <3>1. v = Verified(x, lo, hi) /\ x \in Workers /\ lo \in Minutes /\ hi \in Minutes
      BY <1>0, <2>3 DEF v
    <3>2. /\ v \in Workers /\ v.ev.cont = "VERIFIED" /\ v.ev.lo = lo /\ v.ev.hi = hi /\ v.bar = x.bar /\ SameRun(x, v)
          /\ v.latest = (IF x.latest >= hi THEN x.latest ELSE hi)
      BY <3>1, VerifiedParts
    <3> QED
      BY <2>3, <2>4, <3>2 DEF SameRun
  <2>6. ASSUME NEW m \in Minutes, lo <= m, m <= hi, m > hi - Window PROVE m \in DOMAIN bars
    <3>1. m \in Nat
      BY BoundsParts
    <3>2. CASE m >= x.job.lo
      BY <1>2, <2>3, <2>6, <3>1, <3>2
    <3>3. CASE m < x.job.lo
      BY <2>2, <2>3, <2>6, <3>1, <3>3 DEF Extends
    <3> QED
      BY <2>3, <3>1, <3>2, <3>3
  <2> HIDE DEF v
  <2>7. Solid(v.ev, v.latest, DOMAIN bars)
    BY <2>3, <2>4, <2>5, <2>6, BoundsParts DEF Solid
  <2>8. v.bar # NoBar => v.bar.t # Nil /\ v.bar.t <= v.latest + 1
    BY <2>2, <2>3, <2>5 DEF Extends, Nil
  <2>9. Sound(v, DOMAIN bars)
    BY <2>5, <2>7 DEF Sound
  <2>10. Fine(y, Owns(r), DOMAIN bars, Known, clock)
    BY <1>0, <2>2, <2>5, <2>8, <2>9, FineAfterRecovery
  <2>11. y.held = x.held
    BY <2>5 DEF AfterRecovery, Workers
  <2> HIDE DEF y
  <2> QED
    BY <1>0, <2>1, <2>10, <2>11, RenewedAdvances
<1> QED
  BY <1>1, <1>2

(* What is known only grows, and with it what is bridged. *)
LEMMA BridgedStays == ASSUME NEW dom, NEW known, NEW known2, Bridged(dom, known), known \subseteq known2 PROVE Bridged(dom, known2)
BY DEF Bridged

(* The answer to a bootstrap: below the bars an owner goes on from, what the ledger lacks has a bar above *)
(* it in the window that REST returns, so what follows the answer is whole.                              *)
LEMMA BootAnswered ==
  ASSUME NEW x \in Workers, NEW own, NEW dom, NEW known, dom \subseteq Minutes, Boots(x, own, dom), Asking(x, own, dom), Bridged(dom, known),
         NEW S \in SUBSET x.job.range, x.job.range \cap known \subseteq S, S # {}, own,
         NEW m \in Minutes, m <= x.latest, \A k \in S : k < m
  PROVE  m \in dom
<1>1. SUFFICES ASSUME m \notin dom PROVE FALSE
  OBVIOUS
<1>2. x.latest \in Int /\ (x.latest # Nil => x.latest \in dom) /\ x.latest <= x.job.hi /\ x.job.range = x.job.lo..x.job.hi
      /\ x.job.lo \in Nat /\ x.job.hi \in Nat
  <2>1. \A n \in Times : n \in Int
    BY BoundsParts DEF Times, Nil
  <2> QED
    BY <2>1, BoundsParts DEF Boots, Workers
<1>3. m \in Nat /\ x.latest \in dom /\ m < x.latest
  <2>1. m \in Nat
    BY BoundsParts
  <2>2. x.latest # Nil
    BY <1>2, <2>1 DEF Nil
  <2> QED
    BY <1>1, <1>2, <2>1, <2>2
<1>4. PICK n \in dom \cap known : n > m
  BY <1>1, <1>3 DEF Bridged
<1>5. n \in Nat /\ n <= x.latest
  BY <1>4, BoundsParts DEF Asking
<1>6. PICK k \in S : k < m
  OBVIOUS
<1>7. k \in Nat /\ x.job.lo <= k
  BY <1>2, <1>6
<1>8. n \in x.job.range
  BY <1>2, <1>3, <1>4, <1>5, <1>6, <1>7
<1>9. n \in S /\ n < m
  BY <1>4, <1>8
<1> QED
  BY <1>3, <1>4, <1>5, <1>9

(* REST answers, with what it has of the range, or fails. *)
LEMMA FetchAdvances == ASSUME DurableInv, NEW r \in Runs, Fetch(r) PROVE Advances
<1> DEFINE x == w[r]
<1>0. /\ Fine(x, Owns(r), DOMAIN bars, Known, clock) /\ x \in Workers /\ clock \in Nat /\ clock \in Minutes /\ x.pc = "fetch"
      /\ UNCHANGED <<clock, bars, disputed, cp, lease, row>> /\ DOMAIN w = Runs
  BY RunParts DEF Fetch, At
<1>1. x.ev.cont = "GAP" /\ Timely(x, Known, clock) /\ x.job \in Jobs /\ x.job.range \subseteq 0..clock /\ x.job.range \subseteq Minutes
  BY <1>0 DEF Fine, Recovers, Timely, Workers, Jobs
<1>2. ASSUME NEW y, Becomes(r, y), y.pc # "new", y.held = x.held, served \subseteq served', served' \subseteq 0..clock,
             Fine(y, Owns(r), DOMAIN bars, Known', clock)
      PROVE  Advances
  <2>1. w'[r] = y
    BY <1>0, <1>2 DEF Becomes
  <2>2. Owns(r)' = Owns(r) /\ DOMAIN bars' = DOMAIN bars
    BY <1>0, <1>2, <2>1 DEF Owns
  <2>3. LeaseOK'
    BY <1>0, <1>2, LeaseStays
  <2>4. CheckpointOK'
    BY <1>0 DEF DurableInv, CheckpointOK
  <2>5. Known \subseteq Known'
    BY <1>2 DEF Known
  <2>6. Bridged(DOMAIN bars', Known')
    BY <2>2, <2>5, BridgedStays DEF DurableInv, StoreOK
  <2> HIDE DEF x
  <2>7. Fine(y, Owns(r)', DOMAIN bars', Known', clock)
    BY <1>2, <2>2
  <2> QED
    BY <1>0, <1>2, <2>3, <2>4, <2>6, <2>7, StepAdvances DEF DurableInv, StoreOK
<1>3. ASSUME NEW reason \in {"CONFLICT", "ANY"}, Becomes(r, Failed(x, reason)), served \subseteq served', served' \subseteq 0..clock
      PROVE  Advances
  <2> DEFINE y == Failed(x, reason)
  <2>1. y.pc = "attemptFailed" /\ y.held = x.held
    BY <1>0, FailedParts DEF SameRun
  <2>2. Timely(x, Known', clock)
    BY <1>1, <1>3 DEF Timely, Known
  <2>3. Fine(y, Owns(r), DOMAIN bars, Known', clock)
    BY <1>0, <1>1, <2>2, FineFailed
  <2>4. Becomes(r, y)
    BY <1>3
  <2> HIDE DEF y
  <2> QED
    BY <1>2, <1>3, <2>1, <2>3, <2>4
<1>4. ASSUME NEW reason \in {"CONFLICT", "ANY"}, Becomes(r, Failed(x, reason)), UNCHANGED served
      PROVE  Advances
  <2>1. served' \subseteq 0..clock
    BY <1>4 DEF DurableInv, StoreOK
  <2> QED
    BY <1>3, <1>4, <2>1
<1>5. ASSUME NEW S \in SUBSET x.job.range, x.job.range \ (Sparse \ served) \subseteq S, served' = served \cup (S \cap Sparse),
             Booting(x) \/ S = x.job.range, Becomes(r, [x EXCEPT !.pc = IF S = {} THEN "stored" ELSE "chunk", !.job.got = S, !.job.left = S])
      PROVE  Advances
  <2> DEFINE j == [x.job EXCEPT !.got = S, !.left = S]
             pc == IF S = {} THEN "stored" ELSE "chunk"
             y == [x EXCEPT !.pc = pc, !.job = j]
  <2>1. Becomes(r, y)
    BY <1>5
  <2>2. S \subseteq 0..clock /\ S \subseteq Minutes
    BY <1>1, <1>5
  <2>3. served \subseteq served' /\ served' \subseteq 0..clock
    BY <1>5, <2>2 DEF DurableInv, StoreOK
  <2>4. S \subseteq Known'
    BY <1>5, <2>2 DEF Known
  <2>5. x.job.range \cap Known \subseteq S
    BY <1>5 DEF Known
  <2>6. /\ j \in Jobs /\ j.got = S /\ j.left = S /\ j.range = x.job.range /\ j.need = x.job.need /\ j.lo = x.job.lo /\ j.hi = x.job.hi
    BY <1>1, <2>2 DEF Jobs
  <2> HIDE DEF j
  <2>7. pc \in PCs /\ pc \in {"stored", "chunk"}
    BY DEF PCs
  <2> HIDE DEF pc
  <2>8. /\ y \in Workers /\ y.pc = pc /\ y.held = x.held /\ y.ev = x.ev /\ y.latest = x.latest /\ y.job = j /\ y.bar = x.bar
    BY <1>0, <2>6, <2>7 DEF Workers
  <2> HIDE DEF x, y
  <2>9. Timely(y, Known', clock)
    <3>1. Known \subseteq Known'
      BY <2>3 DEF Known
    <3> QED
      BY <1>1, <2>2, <2>4, <2>6, <2>8 DEF Timely
  <2>10. Sound(y, DOMAIN bars) /\ y.ev.cont = "GAP"
    BY <1>1, <2>8 DEF Sound
  <2>11. IsExact(y) => Extends(y, DOMAIN bars)
    <3>1. SUFFICES ASSUME IsExact(y) PROVE Extends(y, DOMAIN bars)
      OBVIOUS
    <3>2. IsExact(x)
      BY <1>0, <2>7, <2>8, <3>1 DEF IsExact
    <3>3. Extends(x, DOMAIN bars)
      BY <1>0, <3>2 DEF Fine
    <3> QED
      BY <2>6, <2>8, <3>3 DEF Extends
  <2>12. IsBoot(y) => Boots(y, Owns(r), DOMAIN bars)
    <3>1. SUFFICES ASSUME IsBoot(y) PROVE Boots(y, Owns(r), DOMAIN bars)
      OBVIOUS
    <3>2. IsBoot(x)
      BY <1>0, <2>7, <2>8, <3>1 DEF IsBoot
    <3>3. Boots(x, Owns(r), DOMAIN bars) /\ Asking(x, Owns(r), DOMAIN bars)
      BY <1>0, <3>2 DEF Fine, Boots
    <3>4. \A m \in x.job.range : m \in S \/ m \in Sparse
      BY <1>5
    <3>5. ASSUME S # {}, Owns(r), NEW m \in Minutes, m <= x.latest, \A k \in S : k < m PROVE m \in DOMAIN bars
      <4>1. Bridged(DOMAIN bars, Known) /\ DOMAIN bars \subseteq Minutes
        BY <1>0, BoundsParts DEF DurableInv, StoreOK, Minutes
      <4> QED
        BY <1>0, <1>5, <2>5, <3>3, <3>5, <4>1, BootAnswered
    <3>6. Answered(y, Owns(r), DOMAIN bars)
      BY <1>5, <2>6, <2>8, <3>4, <3>5 DEF Answered
    <3> QED
      BY <2>6, <2>7, <2>8, <3>3, <3>6 DEF Boots
  <2>13. Fine(y, Owns(r), DOMAIN bars, Known', clock)
    BY <2>7, <2>8, <2>9, <2>10, <2>11, <2>12 DEF Fine, Goes
  <2> QED
    BY <1>2, <2>1, <2>3, <2>7, <2>8, <2>13
<1>6. CASE \E S \in SUBSET x.job.range :
             /\ x.job.range \ (Sparse \ served) \subseteq S
             /\ served' = served \cup (S \cap Sparse)
             /\ Becomes(r, IF Booting(x) \/ S = x.job.range
                           THEN [x EXCEPT !.pc = IF S = {} THEN "stored" ELSE "chunk", !.job.got = S, !.job.left = S]
                           ELSE Failed(x, "ANY"))
  <2>1. PICK S \in SUBSET x.job.range :
             /\ x.job.range \ (Sparse \ served) \subseteq S
             /\ served' = served \cup (S \cap Sparse)
             /\ Becomes(r, IF Booting(x) \/ S = x.job.range
                           THEN [x EXCEPT !.pc = IF S = {} THEN "stored" ELSE "chunk", !.job.got = S, !.job.left = S]
                           ELSE Failed(x, "ANY"))
    BY <1>6
  <2>2. CASE Booting(x) \/ S = x.job.range
    <3>1. Becomes(r, [x EXCEPT !.pc = IF S = {} THEN "stored" ELSE "chunk", !.job.got = S, !.job.left = S])
      BY <2>1, <2>2
    <3> HIDE DEF x
    <3> QED
      BY <1>5, <2>1, <2>2, <3>1
  <2>3. CASE ~(Booting(x) \/ S = x.job.range)
    <3>1. Becomes(r, Failed(x, "ANY"))
      BY <2>1, <2>3
    <3>2. served \subseteq served' /\ served' \subseteq 0..clock
      BY <1>1, <2>1 DEF DurableInv, StoreOK
    <3> QED
      BY <1>3, <3>1, <3>2
  <2> QED
    BY <2>2, <2>3
<1>7. CASE \E reason \in {"CONFLICT", "ANY"} : Becomes(r, Failed(x, reason)) /\ UNCHANGED served
  BY <1>4, <1>7
<1> QED
  BY <1>6, <1>7 DEF Fetch

(* A chunk of the answer is stored: what was bridged stays so, because REST returns what is new. *)
LEMMA ChunkWriteAdvances == ASSUME DurableInv, NEW r \in Runs, ChunkWrite(r) PROVE Advances
<1> DEFINE x == w[r]
           chunk == FirstOf(x.job.left, Chunk)
           clash == {m \in chunk \cap DOMAIN bars : bars[m] # "a"}
           left == x.job.left \ chunk
           j == [x.job EXCEPT !.left = left]
           rest == [x EXCEPT !.job = j]
           dom == DOMAIN bars \cup chunk
           y == IF clash # {} THEN Failed(rest, "CONFLICT") ELSE Go(rest, IF rest.job.left = {} THEN "stored" ELSE "chunk")
<1>0. /\ Fine(x, Owns(r), DOMAIN bars, Known, clock) /\ x \in Workers /\ Sound(x, DOMAIN bars) /\ clock \in Nat /\ clock \in Minutes
      /\ x.pc = "chunk" /\ DOMAIN w = Runs /\ UNCHANGED <<clock, lease, row, served>>
  BY RunParts DEF ChunkWrite, At
<1>1. CASE ~Active(x)
  <2>1. Locally(r, Idle(x))
    BY <1>0, <1>1 DEF ChunkWrite, Locally
  <2>2. Fine(Idle(x), Owns(r), DOMAIN bars, Known, clock) /\ Idle(x).held = x.held
    BY <1>0, <1>1, FineIdle, IdleParts DEF SameRun
  <2> QED
    BY <1>0, <2>1, <2>2, LocalAdvances
<1>2. CASE Active(x) /\ ~Owns(r)
  <2>1. LostOwnership(r) /\ UNCHANGED <<bars, disputed, cp>>
    BY <1>2 DEF ChunkWrite
  <2> QED
    BY <1>0, <2>1, LostAdvances
<1>3. CASE Active(x) /\ Owns(r)
  <2>1. /\ bars' = [m \in dom |-> IF m \in DOMAIN bars THEN bars[m] ELSE "a"]
        /\ disputed' = disputed \cup clash /\ cp' = Cp(r, x) /\ Becomes(r, y)
    BY <1>3 DEF ChunkWrite
  <2>2. x.ev.cont = "GAP" /\ Timely(x, Known, clock) /\ x.job \in Jobs
    BY <1>0 DEF Fine, Recovers, Workers
  <2>3. chunk \subseteq x.job.left /\ chunk \subseteq 0..clock /\ chunk \subseteq Known
    BY <2>2 DEF FirstOf, Timely
  <2> HIDE DEF chunk
  <2>4. /\ j \in Jobs /\ j.got = x.job.got /\ j.left = left /\ j.range = x.job.range /\ j.need = x.job.need
        /\ j.lo = x.job.lo /\ j.hi = x.job.hi
    BY <2>2 DEF Jobs
  <2> HIDE DEF j
  <2>5. /\ rest \in Workers /\ rest.pc = "chunk" /\ rest.held = x.held /\ rest.ev = x.ev /\ rest.latest = x.latest
        /\ rest.job = j /\ rest.bar = x.bar
    BY <1>0, <2>4 DEF Workers
  <2>6. clash \subseteq DOMAIN bars /\ disputed' \subseteq DOMAIN bars
    BY <2>1 DEF DurableInv, StoreOK
  <2>7. Timely(rest, Known, clock)
    BY <2>2, <2>4, <2>5 DEF Timely
  <2> HIDE DEF rest
  <2>8. DOMAIN bars' = dom /\ dom \subseteq 0..clock /\ bars' = [m \in DOMAIN bars' |-> bars'[m]] /\ Known' = Known
    BY <1>0, <2>1, <2>3 DEF DurableInv, StoreOK, Known
  <2>9. \A m \in DOMAIN bars : bars'[m] = bars[m]
    BY <2>1
  <2>10. Fine(y, Owns(r), dom, Known, clock) /\ y.held = x.held /\ y.pc # "new"
    <3>1. CASE clash # {}
      <4>1. y = Failed(rest, "CONFLICT")
        BY <3>1
      <4> HIDE DEF y, clash, left
      <4> QED
        BY <2>2, <2>5, <2>7, <4>1, FineFailed, FailedParts DEF SameRun
    <3>2. CASE clash = {}
      <4> DEFINE pc == IF rest.job.left = {} THEN "stored" ELSE "chunk"
      <4>1. y = Go(rest, pc)
        BY <3>2
      <4>2. pc \in PCs /\ pc \in {"stored", "chunk"}
        BY DEF PCs
      <4> HIDE DEF pc, y, left, clash
      <4>3. y \in Workers /\ y.pc = pc /\ y.held = x.held /\ y.ev = x.ev /\ y.latest = x.latest /\ y.job = j /\ y.bar = x.bar
        BY <2>5, <4>1, <4>2, GoParts DEF SameRun, SameEvidence
      <4> HIDE DEF x
      <4>4. Timely(y, Known, clock) /\ Sound(y, dom) /\ y.ev.cont = "GAP"
        BY <2>2, <2>5, <2>7, <4>3 DEF Timely, Sound
      <4>5. IsExact(y) => Extends(y, dom)
        <5>1. SUFFICES ASSUME IsExact(y) PROVE Extends(y, dom)
          OBVIOUS
        <5>2. IsExact(x)
          BY <1>0, <4>2, <4>3, <5>1 DEF IsExact
        <5>3. Extends(x, DOMAIN bars)
          BY <1>0, <5>2 DEF Fine
        <5> QED
          BY <2>4, <4>3, <5>3 DEF Extends
      <4>6. IsBoot(y) => Boots(y, Owns(r), dom)
        <5>1. SUFFICES ASSUME IsBoot(y) PROVE Boots(y, Owns(r), dom)
          OBVIOUS
        <5>2. IsBoot(x)
          BY <1>0, <4>2, <4>3, <5>1 DEF IsBoot
        <5>3. Boots(x, Owns(r), DOMAIN bars) /\ Answered(x, Owns(r), DOMAIN bars)
          BY <1>0, <5>2 DEF Fine, Boots
        <5>4. Answered(y, Owns(r), dom)
          BY <2>4, <4>3, <5>3 DEF Answered
        <5> QED
          BY <2>4, <4>2, <4>3, <5>3, <5>4 DEF Boots
      <4> QED
        BY <4>2, <4>3, <4>4, <4>5, <4>6 DEF Fine, Goes
    <3> QED
      BY <3>1, <3>2
  <2> HIDE DEF y
  <2>11. w'[r] = y /\ (Owns(r)' <=> Owns(r))
    <3>1. w'[r] = y
      BY <1>0, <2>1 DEF Becomes
    <3> QED
      BY <1>0, <2>10, <3>1 DEF Owns
  <2>12. Fine(y, Owns(r)', DOMAIN bars', Known', clock)
    <3> QED
      BY <1>0, <2>8, <2>10, <2>11, FineGrows
  <2>13. LeaseOK'
    BY <1>0, <2>1, LeaseStays
  <2>14. cp'.ev.cont = "GAP" /\ CheckpointOK'
    <3>1. cp' \in Checkpoints
      BY <1>0, <2>1, CpParts
    <3>2. cp'.ev.cont = "GAP"
      BY <2>1, <2>2 DEF Cp
    <3> QED
      BY <3>1, <3>2 DEF CheckpointOK
  <2>15. Bridged(dom, Known)
    <3>1. Bridged(DOMAIN bars, Known)
      BY DEF DurableInv, StoreOK
    <3>2. ASSUME NEW m \in Minutes, NEW k \in dom, m < k, m \notin dom PROVE \E n \in dom \cap Known : n > m
      <4>1. CASE k \in DOMAIN bars
        BY <3>1, <3>2, <4>1 DEF Bridged
      <4>2. CASE k \in chunk
        <5>1. k \in Known /\ k \in Nat /\ m \in Nat
          BY <2>3, <4>2, BoundsParts
        <5> QED
          BY <3>2, <5>1
      <4> QED
        BY <4>1, <4>2
    <3> QED
      BY <3>2 DEF Bridged
  <2>16. served' \subseteq 0..clock /\ Bridged(DOMAIN bars', Known') /\ DOMAIN bars' \subseteq 0..clock
    BY <1>0, <2>8, <2>15 DEF DurableInv, StoreOK
  <2> HIDE DEF clash, x
  <2> QED
    BY <1>0, <1>3, <2>1, <2>6, <2>8, <2>9, <2>12, <2>13, <2>14, <2>16, StepAdvances
<1> QED
  BY <1>1, <1>2, <1>3

(* The newest contiguous suffix of a set of minutes ends at its newest minute and has no hole. *)
LEMMA SuffixParts ==
  ASSUME NEW n \in Nat, NEW S \in SUBSET (0..n), S # {}
  PROVE  /\ Min(Suffix(S)) \in S /\ Max(Suffix(S)) \in S /\ Min(Suffix(S)) <= Max(Suffix(S))
         /\ \A m \in S : m <= Max(Suffix(S))
         /\ Min(Suffix(S))..Max(Suffix(S)) \subseteq S
<1> DEFINE T == Suffix(S)
           hi == Max(S)
<1>1. hi \in S /\ \A m \in S : m <= hi
  BY MaxIsGreatest
<1>3. T = {m \in S : m..hi \subseteq S}
  BY DEF Suffix
<1> HIDE DEF T, hi
<1>2. hi \in Nat /\ hi..hi = {hi}
  BY <1>1
<1>4. hi \in T /\ T \in SUBSET (0..n) /\ T \in SUBSET Nat /\ T # {}
  BY <1>1, <1>2, <1>3
<1>5. Min(T) \in T /\ \A m \in T : Min(T) <= m
  BY <1>4, MinIsLeast
<1>6. Max(T) \in T /\ \A m \in T : m <= Max(T)
  BY <1>4, MaxIsGreatest
<1>7. Max(T) = hi
  <2>1. Max(T) \in Nat /\ Max(T) <= hi /\ hi <= Max(T)
    BY <1>1, <1>3, <1>4, <1>6
  <2> QED
    BY <1>2, <2>1
<1> QED
  BY <1>1, <1>3, <1>4, <1>5, <1>6, <1>7 DEF T

(* What was returned is stored: the range is done, or the bootstrap verifies its newest suffix. *)
LEMMA StoredAdvances == ASSUME DurableInv, NEW r \in Runs, Stored(r) PROVE Advances
<1> DEFINE x == w[r]
           suffix == Suffix(x.job.got)
<1>0. /\ Fine(x, Owns(r), DOMAIN bars, Known, clock) /\ x \in Workers /\ clock \in Nat /\ clock \in Minutes
      /\ x.pc = "stored"
  BY RunParts DEF Stored, At
<1>1. x.ev.cont = "GAP" /\ Timely(x, Known, clock) /\ x.job \in Jobs /\ x.job.got \in SUBSET (0..clock)
  BY <1>0 DEF Fine, Recovers, Workers, Timely
<1>2. ASSUME NEW reason \in {"CONFLICT", "ANY"}, Locally(r, Failed(x, reason)) PROVE Advances
  <2>1. Fine(Failed(x, reason), Owns(r), DOMAIN bars, Known, clock) /\ Failed(x, reason).held = x.held
    BY <1>0, <1>1, FineFailed, FailedParts DEF SameRun
  <2> QED
    BY <1>0, <1>2, <2>1, LocalAdvances
<1>3. CASE ~IsStored(x.job.got)
  BY <1>2, <1>3 DEF Stored
<1>4. CASE IsStored(x.job.got) /\ ~Booting(x)
  <2> DEFINE j == [x.job EXCEPT !.need = x.job.need \ x.job.range, !.range = {}, !.got = {}]
             z == [x EXCEPT !.job = j]
             y == NextRange(z)
  <2>1. Save(r, y)
    BY <1>4 DEF Stored
  <2>2. /\ j \in Jobs /\ j.need \subseteq x.job.need /\ j.range = {} /\ j.got = {} /\ j.left = x.job.left
        /\ j.lo = x.job.lo /\ j.hi = x.job.hi
    BY <1>1 DEF Jobs
  <2> HIDE DEF j
  <2>3. z \in Workers /\ z.ev = x.ev /\ z.latest = x.latest /\ z.bar = x.bar /\ z.job = j /\ z.held = x.held
    BY <1>0, <2>2 DEF Workers
  <2>4. Extends(x, DOMAIN bars)
    BY <1>0, <1>4 DEF Fine, IsExact, Booting
  <2> HIDE DEF z
  <2>5. Timely(z, Known, clock)
    BY <1>1, <2>2, <2>3 DEF Timely
  <2>6. Extends(z, DOMAIN bars)
    BY <2>2, <2>3, <2>4 DEF Extends
  <2>7. Fine(y, Owns(r), DOMAIN bars, Known, clock)
    BY <1>1, <2>3, <2>5, <2>6, FineNextRange
  <2>8. y.held = x.held
    BY <2>3 DEF NextRange, Go, Workers
  <2> HIDE DEF y
  <2> QED
    BY <1>0, <2>1, <2>7, <2>8, SaveAdvances
<1>5. CASE IsStored(x.job.got) /\ Booting(x) /\ Cardinality(suffix) < MinSuffix
  BY <1>2, <1>5 DEF Stored
<1>6. CASE IsStored(x.job.got) /\ Booting(x) /\ ~(Cardinality(suffix) < MinSuffix)
  <2> DEFINE lo == Min(suffix)
             hi == Max(suffix)
             v == Verified(x, lo, hi)
             y == AfterRecovery(v)
  <2>1. Save(r, y)
    BY <1>6 DEF Stored
  <2>2. x.job.got # {}
    <3>1. SUFFICES ASSUME x.job.got = {} PROVE FALSE
      OBVIOUS
    <3>2. suffix = {}
      BY <3>1 DEF Suffix
    <3> QED
      BY <1>6, <3>2, FS_EmptySet, BoundsParts
  <2>3. lo \in x.job.got /\ hi \in x.job.got /\ lo <= hi /\ (\A m \in x.job.got : m <= hi) /\ lo..hi \subseteq x.job.got
    BY <1>0, <1>1, <2>2, SuffixParts
  <2> HIDE DEF suffix, lo, hi
  <2>4. Boots(x, Owns(r), DOMAIN bars) /\ Answered(x, Owns(r), DOMAIN bars)
    BY <1>0, <1>6 DEF Fine, IsBoot, Booting, Boots
  <2>5. /\ x.job.lo \in Nat /\ x.job.hi \in Nat /\ lo \in Nat /\ hi \in Nat /\ lo \in Minutes /\ hi \in Minutes /\ x.latest \in Int
        /\ x.job.got \subseteq DOMAIN bars
    <3>1. \A m \in Times : m \in Int
      BY BoundsParts DEF Times, Nil
    <3>2. x.job.lo \in Nat /\ x.job.hi \in Nat
      BY <2>4, BoundsParts DEF Boots
    <3>3. x.job.got \subseteq Minutes /\ x.latest \in Times
      BY <1>0, <1>1 DEF Workers, Jobs
    <3> QED
      BY <1>6, <2>3, <3>1, <3>2, <3>3, BoundsParts DEF IsStored
  <2>6. /\ v \in Workers /\ v.ev.cont = "VERIFIED" /\ v.ev.lo = lo /\ v.ev.hi = hi /\ v.bar = x.bar /\ v.held = x.held
        /\ v.latest = (IF x.latest >= hi THEN x.latest ELSE hi) /\ v.ev.kind = "BOOTSTRAP"
    <3> HIDE DEF x, v
    <3>1. /\ v \in Workers /\ v.ev.cont = "VERIFIED" /\ v.ev.lo = lo /\ v.ev.hi = hi /\ v.bar = x.bar /\ SameRun(x, v)
          /\ v.latest = (IF x.latest >= hi THEN x.latest ELSE hi) /\ v.ev.kind = x.ev.kind
      BY <1>0, <2>5, VerifiedParts DEF v
    <3> QED
      BY <1>6, <3>1 DEF SameRun, Booting
  <2> HIDE DEF v, x
  <2>7. ASSUME Owns(r) PROVE Solid(v.ev, v.latest, DOMAIN bars)
    <3>1. ASSUME NEW m \in Minutes, lo <= m, m <= v.latest PROVE m \in DOMAIN bars
      <4>1. m \in Nat
        BY BoundsParts
      <4>2. CASE m <= hi
        BY <2>3, <2>5, <3>1, <4>1, <4>2
      <4>3. CASE m > hi
        <5>1. m <= x.latest /\ \A k \in x.job.got : k < m
          <6>1. ASSUME NEW k \in x.job.got PROVE k < m
            <7>1. k \in Nat /\ k <= hi
              BY <1>1, <2>3
            <7> QED
              BY <2>5, <4>1, <4>3, <7>1
          <6> QED
            BY <2>5, <2>6, <3>1, <4>1, <4>3, <6>1
        <5> QED
          BY <2>2, <2>4, <2>7, <3>1, <5>1 DEF Answered
      <4> QED
        BY <2>5, <4>1, <4>2, <4>3
    <3>2. hi = v.latest \/ (hi + 1) \in Sparse
      <4>1. SUFFICES ASSUME x.latest > hi PROVE (hi + 1) \in Sparse
        BY <2>5, <2>6
      <4>2. hi + 1 \in x.job.range /\ hi \in x.job.lo..x.job.hi
        <5>1. x.latest <= x.job.hi /\ x.job.range = x.job.lo..x.job.hi /\ hi \in x.job.range
          BY <2>3, <2>4 DEF Boots, Answered
        <5> QED
          BY <2>5, <4>1, <5>1
      <4>3. hi + 1 \notin x.job.got
        BY <2>3, <2>5
      <4> QED
        BY <2>4, <4>2, <4>3 DEF Answered
    <3>3. (hi + 1) \in lo..(hi + 1) /\ lo # Nil /\ hi # Nil /\ hi <= v.latest
      BY <2>3, <2>5, <2>6 DEF Nil
    <3> QED
      BY <2>3, <2>6, <3>1, <3>2, <3>3 DEF Solid
  <2>8. x.bar = NoBar /\ x.bar.t <= clock
    BY <1>1, <2>4 DEF Boots, Timely
  <2>9. ASSUME Owns(r) PROVE Fine(y, Owns(r), DOMAIN bars, Known, clock)
    <3>1. Sound(v, DOMAIN bars)
      BY <2>6, <2>7, <2>9 DEF Sound
    <3> QED
      BY <1>0, <2>6, <2>8, <3>1, FineAfterRecovery
  <2>10. y.held = x.held
    BY <2>6 DEF AfterRecovery, Workers
  <2> HIDE DEF y
  <2> QED
    BY <1>0, <2>1, <2>9, <2>10, SaveAdvances DEF x
<1> QED
  BY <1>3, <1>4, <1>5, <1>6

\* What a run reads of the stored bars: the newest, and the oldest of its window.
Newest == IF bars = << >> THEN Nil ELSE Max(DOMAIN bars)
Oldest(latest, floor) == Min({m \in DOMAIN bars : m > latest - Window} \cup {IF bars = << >> THEN floor ELSE latest})

(* Both are minutes of the ledger, if it holds any. *)
LEMMA StoredEnds ==
  ASSUME NEW n \in Minutes, DOMAIN bars \subseteq 0..n, bars = [m \in DOMAIN bars |-> bars[m]], NEW floor \in Minutes
  PROVE  /\ Newest \in Times /\ Newest <= n /\ (Newest # Nil => Newest \in DOMAIN bars) /\ \A m \in DOMAIN bars : m <= Newest
         /\ Oldest(Newest, floor) \in Minutes
<1> DEFINE latest == Newest
<1>0. n \in Nat /\ 0..n \subseteq Minutes
  BY BoundsParts DEF Minutes
<1>1. CASE DOMAIN bars = {}
  <2>1. bars = << >>
    BY <1>1
  <2>2. latest = Nil /\ Nil <= n
    BY <1>0, <2>1 DEF Nil, Newest
  <2>3. Min({m \in DOMAIN bars : m > latest - Window} \cup {IF bars = << >> THEN floor ELSE latest}) = floor
    <3>1. {m \in DOMAIN bars : m > latest - Window} \cup {IF bars = << >> THEN floor ELSE latest} = {floor} /\ floor \in Nat
      BY <1>1, <2>1, BoundsParts
    <3>2. Min({floor}) = floor
      BY <3>1, MinIsLeast
    <3> QED
      BY <3>1, <3>2
  <2> QED
    BY <1>1, <2>2, <2>3 DEF Times, Oldest
<1>2. CASE DOMAIN bars # {}
  <2>1. bars # << >>
    BY <1>2
  <2>2. latest = Max(DOMAIN bars)
    BY <2>1 DEF Newest
  <2>3. latest \in DOMAIN bars /\ \A m \in DOMAIN bars : m <= latest
    BY <1>0, <1>2, <2>2, MaxIsGreatest
  <2> DEFINE T == {m \in DOMAIN bars : m > latest - Window} \cup {IF bars = << >> THEN floor ELSE latest}
  <2>4. T \in SUBSET Nat /\ T # {} /\ T \subseteq Minutes
    BY <1>0, <2>1, <2>3, BoundsParts
  <2> HIDE DEF T
  <2>5. Min(T) \in Minutes
    BY <2>4, MinIsLeast
  <2>6. latest \in Times /\ latest <= n
    BY <1>0, <2>3 DEF Times
  <2> QED
    BY <2>3, <2>5, <2>6 DEF T, Oldest
<1> QED
  BY <1>1, <1>2

(* A run reads where it stands, and recovers from there to the clock. *)
LEMMA ReadBackAdvances == ASSUME DurableInv, NEW r \in Runs, ReadBack(r) PROVE Advances
<1> DEFINE x == w[r]
           latest == Newest
           floor == LastCompleted - Window + 1
           ev == IF PriorConflict(cp) THEN [cp.ev EXCEPT !.lo = Nil, !.hi = Nil, !.cont = "GAP"] ELSE cp.ev
           rev == IF HasHole(latest - Window + 1) THEN [ev EXCEPT !.cont = "GAP"] ELSE ev
           read == [x EXCEPT !.latest = latest, !.ev = rev]
           oldest == Oldest(latest, floor)
           first == IF ev.lo # Nil THEN ev.lo ELSE oldest
           lo == Max({floor, first})
<1>0. /\ Fine(x, Owns(r), DOMAIN bars, Known, clock) /\ x \in Workers /\ clock \in Nat /\ clock \in Minutes
      /\ x.pc = "read" /\ x.bar = NoBar
  BY RunParts DEF ReadBack, At, Fine
<1>1. Locally(r, IF PriorConflict(cp) \/ ev.lo # Nil \/ ev.kind = "EXACT" THEN Exact(read, lo, LastCompleted) ELSE Bootstrap(read))
  BY DEF ReadBack, Newest, Oldest
<1>2. LastCompleted = clock /\ floor \in Minutes /\ floor \in Nat /\ floor = clock - Window + 1 /\ floor <= clock
  BY <1>0, BoundsParts DEF LastCompleted, DurableInv, StoreOK, Minutes
<1>3. ev \in Evidence /\ rev \in Evidence /\ rev.lo = ev.lo
  <2>1. cp.ev \in Evidence
    BY DEF DurableInv, CheckpointOK, Checkpoints
  <2>2. ev \in Evidence
    BY <2>1 DEF Evidence
  <2> HIDE DEF ev
  <2> QED
    BY <2>2 DEF Evidence
<1> HIDE DEF ev, rev, floor, latest
<1>4. /\ latest \in Times /\ latest <= clock /\ (latest # Nil => latest \in DOMAIN bars) /\ (\A m \in DOMAIN bars : m <= latest)
      /\ oldest \in Minutes
  BY <1>0, <1>2, StoredEnds DEF DurableInv, StoreOK, latest
<1> HIDE DEF oldest
<1>5. first \in Minutes /\ first \in Nat
  <2>1. ev.lo \in Minutes \cup {Nil}
    BY <1>3 DEF Evidence
  <2> QED
    BY <1>4, <2>1, BoundsParts
<1> HIDE DEF x
<1>6. /\ read \in Workers /\ read.ev = rev /\ read.latest = latest /\ read.bar = NoBar /\ read.held = x.held /\ read.job = x.job
  BY <1>0, <1>3, <1>4 DEF Workers
<1> HIDE DEF read
<1>7. NoBar.t = Nil /\ Nil <= clock
  BY <1>0 DEF NoBar, Nil
<1>8. CASE PriorConflict(cp) \/ ev.lo # Nil \/ ev.kind = "EXACT"
  <2> HIDE DEF first
  <2>1. lo = (IF floor >= first THEN floor ELSE first)
    BY <1>2, <1>5, MaxOfTwo
  <2> HIDE DEF lo
  <2>2. lo \in Minutes /\ lo \in Nat /\ lo >= floor /\ lo >= first
    BY <1>2, <1>5, <2>1
  <2>3. lo <= clock => read.ev.lo <= clock
    <3>1. CASE ev.lo = Nil
      BY <1>3, <1>6, <1>7, <3>1
    <3>2. CASE ev.lo # Nil
      <4>1. first = read.ev.lo
        BY <1>3, <1>6, <3>2 DEF first
      <4> QED
        BY <1>0, <1>5, <2>2, <4>1
    <3> QED
      BY <3>1, <3>2
  <2>4. ASSUME read.ev.lo # Nil, NEW m \in Minutes, read.ev.lo <= m, m < lo, m > clock - Window PROVE m \in DOMAIN bars
    <3>1. first = ev.lo /\ m \in Nat
      BY <1>3, <1>6, <2>4, BoundsParts DEF first
    <3> QED
      BY <1>0, <1>2, <1>3, <1>5, <1>6, <2>1, <2>4, <3>1, BoundsParts
  <2>5. read.latest <= clock /\ read.bar.t <= clock /\ clock <= clock
    BY <1>0, <1>4, <1>6, <1>7
  <2>6. Fine(Exact(read, lo, clock), Owns(r), DOMAIN bars, Known, clock)
    BY <1>0, <1>6, <2>2, <2>3, <2>4, <2>5, FineExact
  <2>7. Exact(read, lo, clock).held = x.held
    BY <1>0, <1>6, <2>2, HeldParts
  <2>8. Locally(r, Exact(read, lo, clock))
    BY <1>1, <1>2, <1>8
  <2> QED
    BY <1>0, <2>6, <2>7, <2>8, LocalAdvances DEF x
<1>9. CASE ~(PriorConflict(cp) \/ ev.lo # Nil \/ ev.kind = "EXACT")
  <2> DEFINE z == Marked(read)
             j == [NoJob EXCEPT !.lo = floor, !.hi = clock, !.range = floor..clock]
             e == [z.ev EXCEPT !.kind = "BOOTSTRAP", !.reason = "ANY"]
             y == [z EXCEPT !.pc = "attempt", !.ev = e, !.job = j]
  <2>1. z \in Workers /\ z.ev.cont = "GAP" /\ z.latest = latest /\ z.bar = NoBar /\ z.held = x.held
    BY <1>6, MarkedParts DEF SameRun
  <2>2. Bootstrap(read) = y
    BY <1>2 DEF Bootstrap, floor
  <2>3. Locally(r, y)
    BY <1>1, <1>9, <2>2
  <2> HIDE DEF z
  <2>4. e \in Evidence /\ e.cont = "GAP" /\ e.kind = "BOOTSTRAP"
    <3>1. z.ev \in Evidence
      BY <2>1 DEF Workers
    <3> QED
      BY <2>1, <3>1 DEF Evidence
  <2>5. floor..clock \subseteq Minutes /\ floor..clock \subseteq 0..clock
    BY <1>0, <1>2, BoundsParts DEF Minutes
  <2>6. /\ j \in Jobs /\ j.lo = floor /\ j.hi = clock /\ j.range = floor..clock /\ j.need = {} /\ j.got = {} /\ j.left = {}
    BY <1>0, <1>2, <2>5 DEF Jobs, NoJob, Times
  <2> HIDE DEF e, j
  <2>7. y \in Workers /\ y.pc = "attempt" /\ y.ev = e /\ y.latest = latest /\ y.job = j /\ y.bar = NoBar /\ y.held = x.held
    BY <2>1, <2>4, <2>6 DEF Workers, PCs
  <2> HIDE DEF y
  <2>8. Sound(y, DOMAIN bars) /\ Timely(y, Known, clock)
    BY <1>7, <2>4, <2>5, <2>6, <2>7 DEF Sound, Timely
  <2>9. Boots(y, Owns(r), DOMAIN bars)
    BY <1>0, <1>2, <1>4, <2>4, <2>6, <2>7 DEF Boots, Asking
  <2>10. Fine(y, Owns(r), DOMAIN bars, Known, clock)
    BY <2>4, <2>6, <2>7, <2>8, <2>9 DEF Fine, Goes, IsExact
  <2> QED
    BY <1>0, <2>3, <2>7, <2>10, LocalAdvances DEF x
<1> QED
  BY <1>8, <1>9

----------------------------------------------------------------------------
(* The theorems.                                                            *)

(* Every action of a run keeps the invariant and is a transaction of the ledger. *)
LEMMA RunAdvances ==
  ASSUME DurableInv, NEW r \in Runs,
         \/ Step(r) \/ Start(r) \/ Sync(r) \/ Heartbeat(r) \/ StreamGivenUp(r) \/ StopCalled(r) \/ StopOp(r)
         \/ \E t \in Minutes : BarArrives(r, t, "a") \/ (t \in Contested /\ BarArrives(r, t, "b"))
         \/ SourceUp(r) \/ SourceDrops(r) \/ SourceFails(r) \/ StorageFails(r) \/ Crash(r)
  PROVE  Advances
<1>1. CASE Step(r)
  <2>1. CASE Acquire(r)
    BY <2>1, AcquireAdvances
  <2>2. CASE ReadBack(r)
    BY <2>2, ReadBackAdvances
  <2>3. CASE StartSave(r)
    BY <2>3, StartSaveAdvances
  <2>4. CASE Attempt(r)
    BY <2>4, AttemptAdvances
  <2>5. CASE Fetch(r)
    BY <2>5, FetchAdvances
  <2>6. CASE ChunkWrite(r)
    BY <2>6, ChunkWriteAdvances
  <2>7. CASE Stored(r)
    BY <2>7, StoredAdvances
  <2>8. CASE AttemptFailed(r)
    BY <2>8, AttemptFailedAdvances
  <2>9. CASE Final(r)
    BY <2>9, FinalAdvances
  <2>10. CASE GapSave(r)
    BY <2>10, GapSaveAdvances
  <2>11. CASE BarWrite(r)
    BY <2>11, BarWriteAdvances
  <2>12. CASE BarSave(r)
    BY <2>12, BarSaveAdvances
  <2>13. CASE StopRow(r)
    BY <2>13, StopRowAdvances
  <2>14. CASE HaltRow(r)
    BY <2>14, HaltRowAdvances
  <2>15. CASE HaltSave(r)
    BY <2>15, HaltSaveAdvances
  <2>16. CASE Release(r)
    BY <2>16, ReleaseAdvances
  <2> QED
    BY <1>1, <2>1, <2>2, <2>3, <2>4, <2>5, <2>6, <2>7, <2>8, <2>9, <2>10, <2>11, <2>12, <2>13, <2>14, <2>15, <2>16 DEF Step
<1>2. CASE Start(r)
  BY <1>2, StartAdvances
<1>3. CASE Sync(r)
  BY <1>3, SyncAdvances
<1>4. CASE Heartbeat(r)
  BY <1>4, HeartbeatAdvances
<1>5. CASE StreamGivenUp(r)
  BY <1>5, StreamGivenUpAdvances
<1>6. CASE StopCalled(r)
  BY <1>6, StopCalledAdvances
<1>7. CASE StopOp(r)
  BY <1>7, StopOpAdvances
<1>8. CASE \E t \in Minutes : BarArrives(r, t, "a") \/ (t \in Contested /\ BarArrives(r, t, "b"))
  <2>1. PICK t \in Minutes, v \in {"a", "b"} : BarArrives(r, t, v)
    BY <1>8
  <2> QED
    BY <2>1, BarArrivesAdvances
<1>9. CASE SourceUp(r) \/ SourceDrops(r) \/ SourceFails(r)
  BY <1>9, SourceAdvances
<1>10. CASE StorageFails(r)
  BY <1>10, StorageFailsAdvances
<1>11. CASE Crash(r)
  BY <1>11, CrashAdvances
<1> QED
  BY <1>1, <1>2, <1>3, <1>4, <1>5, <1>6, <1>7, <1>8, <1>9, <1>10, <1>11

(* A step of the system is one of them, an expiry, a minute that passes, or nothing. *)
LEMMA NextAdvances == ASSUME DurableInv, [Next]_vars PROVE Advances
<1>1. CASE \E r \in Runs :
             \/ Step(r) \/ Start(r) \/ Sync(r) \/ Heartbeat(r) \/ StreamGivenUp(r) \/ StopCalled(r) \/ StopOp(r)
             \/ \E t \in Minutes : BarArrives(r, t, "a") \/ (t \in Contested /\ BarArrives(r, t, "b"))
             \/ SourceUp(r) \/ SourceDrops(r) \/ SourceFails(r) \/ StorageFails(r) \/ Crash(r)
  BY <1>1, RunAdvances
<1>2. CASE LeaseExpires
  BY <1>2, LeaseExpiresAdvances
<1>3. CASE Tick
  BY <1>3, TickAdvances
<1>4. CASE UNCHANGED vars
  <2>1. UNCHANGED <<clock, bars, disputed, cp, lease, row, w, served>>
    BY <1>4 DEF vars
  <2>2. Known' = Known /\ \A r \in Runs : Owns(r)' = Owns(r)
    BY <2>1 DEF Known, Owns
  <2>3. StoreOK' /\ CheckpointOK' /\ LeaseOK'
    BY <2>1, <2>2 DEF DurableInv, StoreOK, CheckpointOK, LeaseOK
  <2>4. RunsOK'
    BY <2>1, <2>2 DEF DurableInv, RunsOK
  <2>5. UNCHANGED <<bars, Trusted, disputed>>
    BY <2>1 DEF Trusted, Claimed
  <2> QED
    BY <2>3, <2>4, <2>5 DEF Advances, DurableInv
<1> QED
  BY <1>1, <1>2, <1>3, <1>4 DEF Next

(* Before the first process starts, nothing is stored and nothing is claimed. *)
LEMMA InitIsInv == Init => DurableInv /\ Ledger!Init
<1> SUFFICES ASSUME Init PROVE DurableInv /\ Ledger!Init
  OBVIOUS
<1>1. DOMAIN bars = {} /\ bars = [m \in DOMAIN bars |-> bars[m]] /\ bars = << >>
  BY DEF Init
<1>2. clock \in Minutes /\ clock >= Window - 1 /\ clock \in Nat
  BY BoundsParts DEF Init, Minutes
<1>3. StoreOK
  BY <1>1, <1>2 DEF Init, StoreOK, Bridged
<1>4. CheckpointOK
  <2>1. 0 \in 0..NRuns
    BY BoundsParts
  <2>2. EmptyEvidence \in Evidence /\ EmptyEvidence.cont = "UNVERIFIED"
    BY RestParts DEF EmptyEvidence
  <2> QED
    BY <2>1, <2>2 DEF Init, CheckpointOK, Checkpoints, Times, Reasons
<1>5. NewWorker \in Workers /\ NewWorker.pc = "new" /\ NewWorker.ev = EmptyEvidence /\ NewWorker.job = NoJob /\ NewWorker.bar = NoBar
  BY RestParts DEF NewWorker
<1>6. LeaseOK
  <2>1. 0 \in 0..NRuns
    BY BoundsParts
  <2> QED
    BY <1>5, <2>1 DEF Init, LeaseOK
<1>7. Sound(NewWorker, DOMAIN bars)
  BY <1>5 DEF Sound, EmptyEvidence
<1>8. ASSUME NEW r \in Runs PROVE Fine(NewWorker, Owns(r), DOMAIN bars, Known, clock)
  BY <1>2, <1>5, <1>7, FineAtRest DEF NoWork, Recovers, Goes
<1>9. RunsOK
  BY <1>8 DEF Init, RunsOK
<1>10. Trusted = {}
  BY DEF Init, Trusted, Claimed, EmptyEvidence
<1> QED
  BY <1>1, <1>3, <1>4, <1>6, <1>9, <1>10 DEF DurableInv, Ledger!Init, Init

(* In every reachable state the store, the checkpoint, the lease and every worker are in order. *)
THEOREM DurableInvariance == Spec => []DurableInv
<1>1. Init => DurableInv
  BY InitIsInv
<1>2. DurableInv /\ [Next]_vars => DurableInv'
  BY NextAdvances DEF Advances
<1> QED
  BY <1>1, <1>2, PTL DEF Spec

(* Whoever is shown as READY by the observer has verified everything up to the newest stored bar, unless  *)
(* REST lacked a minute of a bootstrap: whatever restarts, takeovers, late bars and repairs came before. *)
THEOREM ReadyIsVerified == Spec => []WorkerInv
<1>1. DurableInv => WorkerInv
  <2> SUFFICES ASSUME DurableInv PROVE WorkerInv
    OBVIOUS
  <2>1. TypeOK
    <3>1. ASSUME NEW r \in Runs PROVE w[r] \in Workers
      BY RunParts
    <3>2. lease.live => row[lease.run] # "NONE"
      BY DEF DurableInv, LeaseOK
    <3> QED
      BY <3>1, <3>2 DEF TypeOK, DurableInv, StoreOK, CheckpointOK, Checkpoints, Times, LeaseOK, Workers
  <2>2. ReadyReachesLatest
    <3>1. SUFFICES ASSUME HealthReady, ~Lagging PROVE cp.ev.hi = Max(DOMAIN bars)
      BY DEF ReadyReachesLatest
    <3>2. Solid(cp.ev, cp.latest, DOMAIN bars) /\ cp.latest = Max(DOMAIN bars)
      BY <3>1 DEF HealthReady, DurableInv, CheckpointOK
    <3>3. cp.ev.hi = cp.latest
      BY <3>1, <3>2 DEF Solid, Lagging
    <3> QED
      BY <3>2, <3>3
  <2> QED
    BY <2>1, <2>2 DEF WorkerInv
<1> QED
  BY <1>1, DurableInvariance, PTL

(* The writes of all runs, crashed and superseded ones included, are transactions of the append-only ledger: *)
(* no stored bar changes, what the window presents as verified is stored, and a contradiction takes the      *)
(* trust away in the transaction that records it.                                                          *)
THEOREM LedgerImplemented == Spec => LedgerSpec
<1>1. Init => Ledger!Init
  BY InitIsInv
<1>2. DurableInv /\ [Next]_vars => [Ledger!Commit]_<<bars, Trusted, disputed>>
  BY NextAdvances DEF Advances
<1> QED
  BY <1>1, <1>2, DurableInvariance, PTL DEF Spec, LedgerSpec, Ledger!Spec
=============================================================================
