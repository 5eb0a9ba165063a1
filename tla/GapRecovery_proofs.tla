------------------------- MODULE GapRecovery_proofs -------------------------
(* Proofs about GapRecovery: whatever is lost, late, repaired or restarted,  *)
(* no decision that may reach the broker bridges a gap, and none is about    *)
(* the past.                                                                 *)
EXTENDS GapRecovery, FiniteSetTheorems, NaturalsInduction, WellFoundedInduction, TLAPS

----------------------------------------------------------------------------
(* The inductive invariant.                                                 *)

PCs == {"down", "scan", "gaps", "ready", "idle", "record", "saveLatest", "saveGap", "saveRequest", "fetch", "saveVerifying",
        "backfill", "decide", "dispatch", "saveDecision", "saveRestored", "saveRebuilding"}
Checkpoints == [latest : Nat \cup {None}, cont : {"HEALTHY", "REBUILDING"}, rec : Recoveries, barrier : Nat]
Workers ==
  [pc : PCs, boot : BOOLEAN, ck : Checkpoints, bar : Nat \cup {None}, val : {"a", "b"}, seen : Nat, prior : Nat \cup {None},
   gap : SUBSET Nat, gaps : SUBSET SUBSET Nat, left : SUBSET Nat, todo : SUBSET Nat]
Verdicts == [status : {"PENDING", "CANCELLED", "SUBMITTED"}, rec : Recoveries \cup {"NONE"}]

Newest == IF DOMAIN bars = {} THEN None ELSE Max(DOMAIN bars)

\* The store: bars and decisions are functions, and the checkpoint is about no bar to come.
StoreOK ==
  /\ clock \in 0..MaxMinute
  /\ bars = [m \in DOMAIN bars |-> bars[m]] /\ DOMAIN bars \subseteq 0..(clock - 1)
  /\ ck \in Checkpoints /\ ck.latest <= Newest
  /\ wk \in Workers

\* What was decided was complete when it was decided, and what may be dispatched has its whole window behind it.
First(b) == b - (Obs - 1) * Width
Whole(b) == \A m \in First(b)..(b + Width - 1) : m \in DOMAIN bars /\ Regular(m)
DecisionsOK ==
  \A b \in DOMAIN decisions :
    decisions[b] \in Verdicts /\ Complete(b) /\ Regular(b) /\ (decisions[b].status # "CANCELLED" => Whole(b))

\* Where the worker is, and what it then has in its hands.
Rests == {"down", "scan", "gaps", "ready", "idle"}
Deciding == {"decide", "dispatch", "saveDecision"}
PlaceOK ==
  /\ wk.ck.latest <= Newest
  /\ wk.pc \notin {"down", "scan"} => wk.ck.latest = Newest
  /\ wk.pc \in {"idle", "record", "saveLatest", "ready"} => ~wk.boot
  /\ wk.pc \in {"scan", "gaps"} => wk.boot
  /\ wk.boot \/ wk.gaps = {}
  /\ wk.pc \in {"down", "scan"} => wk.gaps = {}
  /\ wk.pc \in {"record", "saveLatest"} => wk.bar \in Nat /\ wk.bar < wk.seen /\ wk.ck.latest < wk.seen /\ wk.seen <= clock
  /\ wk.pc = "saveLatest" => wk.bar \in DOMAIN bars
  /\ wk.pc \in Rests \cup {"record", "saveLatest", "dispatch", "saveDecision"} => wk.gap = {}
  /\ wk.pc \in {"saveGap", "saveRequest", "fetch", "saveVerifying", "backfill", "saveRestored"} => wk.gap # {}
  /\ wk.pc \notin Deciding => wk.todo = {}

\* A gap lies below the newest bar, and the barrier above it.
GapOK ==
  /\ wk.gap # {} =>
       /\ wk.gap \subseteq 0..wk.ck.latest /\ wk.todo = {}
       /\ wk.ck.latest < wk.seen /\ wk.seen <= clock /\ NextBucket(wk.seen) <= wk.ck.barrier
  /\ wk.left \subseteq wk.gap
  /\ \A g \in wk.gaps : g # {} /\ g \subseteq 0..wk.ck.latest

\* What is left to decide is the bucket of the bar that came.
TodoOK ==
  /\ \A c \in wk.todo : wk.bar \in Nat /\ wk.bar \in DOMAIN bars /\ c = BucketOf(wk.bar) /\ c \in Trailing(Raw(wk.ck.latest)) /\ c >= wk.ck.barrier
  /\ wk.pc \in {"dispatch", "saveDecision"} => wk.todo # {} /\ Min(wk.todo) \in DOMAIN decisions

\* A missing minute that no live bar brings any more: BarArrives() would be too late for it.
Gone(m) == clock > m + 1 + MaxLate /\ ~(wk.pc = "record" /\ wk.bar = m)
\* A bucket that is never warm: its window reaches out of the session, or over a minute gone.
Cold(b) == \E m \in First(b)..(b - 1) : m \notin Session \/ (m \notin DOMAIN bars /\ Gone(m))
\* A minute whose bucket is not decided any more, by the barrier, for want of a window, or for its age.
Shielded(m) == BucketOf(m) < wk.ck.barrier \/ Cold(BucketOf(m)) \/ BucketOf(m) < RawFrom(wk.ck.latest)
LaterDay(m) == \E j \in DOMAIN bars : j > m /\ ~SameDay(m, j)

\* A missing regular minute below a bar of its day is of no more use, or it is about to be repaired.
HolesOK ==
  wk.pc \notin {"down", "scan"} =>
    \A m \in Session \ DOMAIN bars, k \in DOMAIN bars : m < k /\ SameDay(m, k) =>
      \/ Shielded(m) \/ Gone(m)
      \/ m \in UNION wk.gaps
      \/ wk.pc = "saveLatest" /\ m \in LiveGap(wk.prior, wk.bar)
      \/ k \notin Session /\ LaterDay(m)

\* The bar that came is the newest of its session, or of no more use.
FreshOK ==
  wk.pc \in {"saveLatest"} \cup Deciding /\ wk.gap = {} /\ wk.bar \in Session =>
    \A k \in DOMAIN bars : k > wk.bar /\ SameDay(wk.bar, k) => Shielded(wk.bar) \/ (k \notin Session /\ LaterDay(wk.bar))

GapInv == StoreOK /\ DecisionsOK /\ PlaceOK /\ GapOK /\ TodoOK /\ HolesOK /\ FreshOK

----------------------------------------------------------------------------
(* Numbers and buckets.                                                     *)

(* The bounds are numbers, and so are the minutes. *)
LEMMA GapNumbers ==
  /\ Width \in Nat /\ Width >= 1 /\ Obs \in Nat /\ Obs >= 2 /\ MaxMinute \in Nat /\ MaxAge \in Nat /\ MaxLate \in Nat
  /\ Session \subseteq 0..MaxMinute
<1>1. /\ Width \in Nat /\ Width >= 1 /\ Obs \in Nat /\ Obs >= 1 /\ MaxMinute \in Nat /\ MaxAge \in Nat /\ MaxLate \in Nat
      /\ Session \subseteq 0..MaxMinute /\ MaxLate < (Obs - 1) * Width
  BY GapBounds
<1>2. Obs # 1
  BY <1>1
<1> QED
  BY <1>1, <1>2

(* A bar is late by less than the window of a decision is long. *)
LEMMA WindowIsLong == (Obs - 1) * Width \in Nat /\ MaxLate < (Obs - 1) * Width
BY GapBounds, GapNumbers

(* A bucket holds its minutes. *)
LEMMA BucketBounds == \A m \in Int : BucketOf(m) \in Int /\ BucketOf(m) <= m /\ m < BucketOf(m) + Width
BY GapNumbers DEF BucketOf

(* Later minutes are in later buckets. *)
LEMMA BucketOrder == \A m, n \in Int : m <= n => BucketOf(m) <= BucketOf(n)
BY GapNumbers DEF BucketOf

(* A minute between the bounds of a bucket is in it. *)
LEMMA BucketIn == \A m, n \in Int : BucketOf(m) <= n /\ n < BucketOf(m) + Width => BucketOf(n) = BucketOf(m)
BY GapNumbers DEF BucketOf

(* Buckets are Width apart. *)
LEMMA BucketStep == \A m, n \in Int : BucketOf(m) < BucketOf(n) => BucketOf(m) + Width <= BucketOf(n)
BY GapNumbers DEF BucketOf

(* The bucket of a natural number is one, and is its own. *)
LEMMA BucketNat == \A m \in Nat : BucketOf(m) \in Nat /\ BucketOf(BucketOf(m)) = BucketOf(m)
BY GapNumbers DEF BucketOf

(* What has passed lies below the next bucket. *)
LEMMA NextBucketAbove == \A m, n \in Int : m <= n => BucketOf(m) < NextBucket(n)
BY GapNumbers, BucketBounds, BucketOrder DEF NextBucket

(* A set of numbers has a least element, and Min() is it. *)
LEMMA MinIsLeast == ASSUME NEW S \in SUBSET Nat, S # {} PROVE Min(S) \in S /\ \A m \in S : Min(S) <= m
<1>1. PICK m \in S : \A n \in S : ~(<<n, m>> \in OpToRel(<, Nat))
  BY NatLessThanWellFounded, WFMin
<1>2. ASSUME NEW n \in S PROVE m <= n
  <2>1. m \in Nat /\ n \in Nat
    OBVIOUS
  <2>2. n < m => <<n, m>> \in OpToRel(<, Nat)
    BY <2>1 DEF OpToRel
  <2>3. ~(n < m)
    BY <1>1, <2>2, Zenon
  <2> QED
    BY <2>1, <2>3
<1> QED
  BY <1>2 DEF Min

(* A set of minutes has a greatest element, and Max() is it. *)
LEMMA MaxIsGreatest ==
  ASSUME NEW n \in Nat, NEW S \in SUBSET (0..n), S # {}
  PROVE  Max(S) \in S /\ \A m \in S : m <= Max(S)
<1> DEFINE U == {k \in Nat : \A m \in S : m <= k}
<1>1. n \in U
  OBVIOUS
<1>2. Min(U) \in U /\ \A k \in U : Min(U) <= k
  BY <1>1, MinIsLeast
<1> DEFINE u == Min(U)
<1>3. u \in Nat /\ \A m \in S : m <= u
  BY <1>2
<1>4. u \in S
  <2>1. SUFFICES ASSUME u \notin S PROVE FALSE
    OBVIOUS
  <2>2. u > 0
    <3>1. PICK m : m \in S
      OBVIOUS
    <3>2. m \in Nat /\ m <= u /\ m # u
      BY <1>3, <2>1, <3>1
    <3> QED
      BY <1>3, <3>2
  <2>3. u - 1 \in U
    BY <1>3, <2>1, <2>2
  <2> QED
    BY <1>2, <1>3, <2>3
<1> HIDE DEF u
<1> QED
  BY <1>3, <1>4 DEF Max

(* Of two numbers. *)
LEMMA MaxOfTwo == ASSUME NEW a \in Int, NEW b \in Int PROVE Max({a, b}) = IF a >= b THEN a ELSE b
BY DEF Max

----------------------------------------------------------------------------
(* The window of a decision.                                                *)

WholeBuckets(raw) == {b \in {BucketOf(m) : m \in raw} : Regular(b) /\ Minutes(b) \subseteq raw}

(* A whole bucket of minutes up to n: it is a bucket, and its minutes are there and in one session. *)
LEMMA WholeParts ==
  ASSUME NEW n \in Nat, NEW raw \in SUBSET (0..n), NEW b \in WholeBuckets(raw)
  PROVE  /\ b \in 0..n /\ BucketOf(b) = b /\ b \in raw
         /\ \A m \in Int : BucketOf(m) = b => m \in raw /\ m \in Session
<1>1. PICK x \in raw : b = BucketOf(x)
  BY DEF WholeBuckets
<1>2. x \in Nat /\ b \in Nat /\ BucketOf(b) = b /\ b \in Session /\ Minutes(b) \subseteq raw
  BY <1>1, BucketNat DEF WholeBuckets, Regular
<1>3. b \in Minutes(b)
  BY <1>2, GapNumbers DEF Minutes
<1>4. Minutes(b) \subseteq Session
  BY <1>2, SessionBounds
<1>5. ASSUME NEW m \in Int, BucketOf(m) = b PROVE m \in Minutes(b)
  BY <1>2, <1>5, BucketBounds, GapNumbers DEF Minutes
<1> QED
  BY <1>2, <1>3, <1>4, <1>5

(* Nothing is missing from a trailing bucket up to the end of a whole one after it. *)
LEMMA TrailingIsWhole ==
  ASSUME NEW n \in Nat, NEW raw \in SUBSET (0..n), NEW b \in Trailing(raw), NEW c \in WholeBuckets(raw), b <= c,
         NEW m \in Int, b <= m, m < c + Width
  PROVE  m \in raw /\ m \in Session
<1> DEFINE W == WholeBuckets(raw)
<1>1. b \in W /\ \A k \in b..Max(W) : BucketOf(k) \in W
  BY DEF Trailing, WholeBuckets
<1>2. W \in SUBSET (0..n) /\ W # {}
  BY <1>1, WholeParts
<1> DEFINE top == Max(W)
<1>3. top \in W /\ c <= top
  <2> HIDE DEF W
  <2> QED
    BY <1>2, MaxIsGreatest DEF W
<1>4. b \in Nat /\ c \in Nat /\ top \in Nat /\ BucketOf(c) = c
  BY <1>1, <1>2, <1>3, WholeParts
<1>5. BucketOf(m) \in W
  <2>1. CASE m <= c
    <3>1. m \in b..top
      BY <1>3, <1>4, <2>1
    <3> QED
      BY <1>1, <3>1
  <2>2. CASE m > c
    BY <1>4, <2>2, BucketIn
  <2> QED
    BY <1>4, <2>1, <2>2
<1> HIDE DEF top
<1> QED
  BY <1>5, WholeParts

(* A warm observation has its whole window behind it: Obs whole buckets that follow one another. *)
LEMMA WarmWindow ==
  ASSUME NEW n \in Nat, NEW raw \in SUBSET (0..n), NEW b \in Trailing(raw), Warm(Trailing(raw), b)
  PROVE  \A m \in First(b)..(b + Width - 1) : m \in raw /\ m \in Session
<1> DEFINE T == {c \in Trailing(raw) : c <= b}
<1>1. Trailing(raw) \subseteq WholeBuckets(raw)
  BY DEF Trailing, WholeBuckets
<1>2. b \in Nat /\ b \in WholeBuckets(raw) /\ BucketOf(b) = b
  BY <1>1, WholeParts
<1>3. T \subseteq 0..n /\ \A c \in T : c \in Nat /\ BucketOf(c) = c
  BY <1>1, WholeParts
<1>4. IsFiniteSet(T) /\ Cardinality(T) \in Nat
  <2>1. IsFiniteSet(0..n)
    BY FS_Interval
  <2> HIDE DEF T
  <2>2. IsFiniteSet(T)
    BY <1>3, <2>1, FS_Subset
  <2> QED
    BY <2>2, FS_CardinalityType
<1>5. Cardinality(T) >= Obs
  BY DEF Warm
<1>6. \E c \in T : c <= First(b)
  <2>1. SUFFICES ASSUME \A c \in T : ~(c <= First(b)) PROVE FALSE
    OBVIOUS
  <2> DEFINE q == b \div Width
             I == (q - Obs + 2)..q
             f == [c \in T |-> c \div Width]
  <2>2. q \in Nat /\ b = Width * q
    BY <1>2, GapNumbers DEF BucketOf
  <2>3. ASSUME NEW c \in T PROVE c \div Width \in I /\ c = Width * (c \div Width)
    <3> DEFINE p == c \div Width
    <3>1. p \in Nat /\ c = Width * p /\ c <= b
      BY <1>3, GapNumbers DEF BucketOf
    <3>2. First(b) < c /\ First(b) = Width * (q - Obs + 1)
      BY <1>2, <2>1, <2>2, <3>1, GapNumbers DEF First
    <3> HIDE DEF p, q
    <3>3. Width * (q - Obs + 1) < Width * p /\ Width * p <= Width * q
      BY <2>2, <3>1, <3>2
    <3>4. q - Obs + 1 < p
      BY <2>2, <3>1, <3>3, GapNumbers
    <3>5. p <= q
      BY <2>2, <3>1, <3>3, GapNumbers
    <3> QED
      BY <2>2, <3>1, <3>4, <3>5, GapNumbers DEF p
  <2>4. f \in Injection(T, I)
    <3>1. f \in [T -> I]
      BY <2>3
    <3>2. \A c, e \in T : f[c] = f[e] => c = e
      BY <2>3
    <3> QED
      BY <3>1, <3>2 DEF Injection, IsInjective
  <2>5. IsFiniteSet(I) /\ Cardinality(I) = Obs - 1
    <3>1. q \in Int /\ q - Obs + 2 \in Int /\ q - Obs + 2 <= q /\ q - (q - Obs + 2) + 1 = Obs - 1
      BY <2>2, GapNumbers
    <3> HIDE DEF q
    <3> QED
      BY <3>1, FS_Interval
  <2>6. Cardinality(T) <= Obs - 1
    <3> HIDE DEF T, I, f
    <3> QED
      BY <2>4, <2>5, FS_Injection
  <2> QED
    BY <1>4, <1>5, <2>6, GapNumbers
<1>7. PICK c \in T : c <= First(b)
  BY <1>6
<1> HIDE DEF T
<1>8. First(b) \in Int /\ c \in Nat /\ c \in Trailing(raw) /\ c <= b
  BY <1>2, <1>3, GapNumbers DEF First, T
<1> SUFFICES ASSUME NEW m \in First(b)..(b + Width - 1) PROVE m \in raw /\ m \in Session
  OBVIOUS
<1>9. m \in Int /\ c <= m /\ m < b + Width
  BY <1>2, <1>7, <1>8, GapNumbers
<1> QED
  BY <1>2, <1>8, <1>9, TrailingIsWhole

----------------------------------------------------------------------------
(* The worker object: what its local code changes.                          *)

\* What x and y have in common that the invariant is about.
Keeps(x, y) ==
  /\ y.boot = x.boot /\ y.ck.latest = x.ck.latest /\ y.bar = x.bar /\ y.seen = x.seen /\ y.prior = x.prior
  /\ y.gaps = x.gaps /\ y.left = x.left

(* A worker begins and ends with nothing in its hands. *)
LEMMA DownParts ==
  /\ EmptyCheckpoint \in Checkpoints /\ EmptyCheckpoint.latest = None /\ Down \in Workers /\ Down.pc = "down"
  /\ Down.gap = {} /\ Down.gaps = {} /\ Down.left = {} /\ Down.todo = {} /\ ~Down.boot
<1>1. EmptyCheckpoint \in Checkpoints /\ EmptyCheckpoint.latest = None
  BY DEF EmptyCheckpoint, Checkpoints, Recoveries
<1> QED
  BY <1>1 DEF Down, Workers, PCs

(* The barrier is raised above now. *)
LEMMA BarredParts ==
  ASSUME NEW x \in Workers, NEW now \in Nat
  PROVE  /\ Barred(x, now) \in Workers /\ Keeps(x, Barred(x, now)) /\ Barred(x, now).pc = x.pc
         /\ Barred(x, now).gap = x.gap /\ Barred(x, now).todo = x.todo
         /\ x.ck.barrier <= Barred(x, now).ck.barrier /\ NextBucket(now) <= Barred(x, now).ck.barrier
<1> DEFINE top == Max({x.ck.barrier, NextBucket(now)})
           c == [x.ck EXCEPT !.barrier = top]
<1>1. x.ck \in Checkpoints /\ x.ck.barrier \in Nat /\ NextBucket(now) \in Nat
  BY BucketNat, GapNumbers DEF NextBucket, Workers, Checkpoints
<1>2. top \in Nat /\ x.ck.barrier <= top /\ NextBucket(now) <= top
  BY <1>1, MaxOfTwo
<1>3. Barred(x, now) = [x EXCEPT !.ck = c]
  BY <1>1 DEF Barred, Workers
<1> HIDE DEF top
<1>4. c \in Checkpoints /\ c.barrier = top /\ c.latest = x.ck.latest
  BY <1>1, <1>2 DEF Checkpoints
<1> HIDE DEF c
<1> QED
  BY <1>2, <1>3, <1>4 DEF Workers, Keeps

\* Goes on at pc with another recovery state and continuity.
Onward(x, pc, rec, cont) == [x EXCEPT !.pc = pc, !.ck = [x.ck EXCEPT !.rec = rec, !.cont = cont]]

(* What going on leaves alone. *)
LEMMA OnwardParts ==
  ASSUME NEW x \in Workers, NEW pc \in PCs, NEW rec \in Recoveries, NEW cont \in {"HEALTHY", "REBUILDING"}
  PROVE  /\ Onward(x, pc, rec, cont) \in Workers /\ Keeps(x, Onward(x, pc, rec, cont)) /\ Onward(x, pc, rec, cont).pc = pc
         /\ Onward(x, pc, rec, cont).gap = x.gap /\ Onward(x, pc, rec, cont).todo = x.todo
         /\ Onward(x, pc, rec, cont).ck.barrier = x.ck.barrier
<1> DEFINE c == [x.ck EXCEPT !.rec = rec, !.cont = cont]
           y == Onward(x, pc, rec, cont)
<1>1. x.ck \in Checkpoints
  BY DEF Workers
<1>2. c \in Checkpoints /\ c.barrier = x.ck.barrier /\ c.latest = x.ck.latest
  BY <1>1 DEF Checkpoints
<1>3. y = [x EXCEPT !.pc = pc, !.ck = c]
  BY DEF Onward
<1> HIDE DEF c, y
<1>4. y \in Workers /\ y.ck = c /\ y.pc = pc /\ y.gap = x.gap /\ y.todo = x.todo
  BY <1>2, <1>3 DEF Workers
<1>5. /\ y.boot = x.boot /\ y.bar = x.bar /\ y.seen = x.seen /\ y.prior = x.prior
      /\ y.gaps = x.gaps /\ y.left = x.left
  BY <1>3 DEF Workers
<1> QED
  BY <1>2, <1>4, <1>5 DEF Keeps, y

(* recoverGap() has found a gap. *)
LEMMA DetectedParts ==
  ASSUME NEW x \in Workers, NEW gap \in SUBSET Nat
  PROVE  /\ Detected(x, gap) \in Workers /\ Keeps(x, Detected(x, gap)) /\ Detected(x, gap).pc = "saveGap"
         /\ Detected(x, gap).gap = gap /\ Detected(x, gap).todo = x.todo
         /\ x.ck.barrier <= Detected(x, gap).ck.barrier /\ NextBucket(x.seen) <= Detected(x, gap).ck.barrier
<1> DEFINE y == Barred(x, x.seen)
           c == [y.ck EXCEPT !.rec = "GAP_DETECTED"]
           d == Detected(x, gap)
<1>1. x.seen \in Nat
  BY DEF Workers
<1>2. /\ y \in Workers /\ Keeps(x, y) /\ y.pc = x.pc /\ y.gap = x.gap /\ y.todo = x.todo
      /\ x.ck.barrier <= y.ck.barrier /\ NextBucket(x.seen) <= y.ck.barrier
  BY <1>1, BarredParts
<1>3. d = [y EXCEPT !.pc = "saveGap", !.gap = gap, !.ck = c]
  <2>1. d = [y EXCEPT !.pc = "saveGap", !.gap = gap, !.ck.rec = "GAP_DETECTED"]
    BY DEF Detected
  <2> HIDE DEF y, d
  <2> QED
    BY <1>2, <2>1 DEF Workers
<1> HIDE DEF y, d
<1>4. c \in Checkpoints /\ c.barrier = y.ck.barrier /\ c.latest = y.ck.latest
  <2>1. y.ck \in Checkpoints
    BY <1>2 DEF Workers
  <2> QED
    BY <2>1 DEF Checkpoints, Recoveries
<1> HIDE DEF c
<1>5. d \in Workers /\ d.pc = "saveGap" /\ d.gap = gap /\ d.todo = y.todo /\ Keeps(y, d) /\ d.ck = c
  BY <1>2, <1>3, <1>4 DEF Workers, Keeps, PCs
<1> QED
  BY <1>2, <1>4, <1>5 DEF Keeps, d

(* enterRebuilding(). *)
LEMMA RebuildingParts ==
  ASSUME NEW x \in Workers
  PROVE  /\ Rebuilding(x) \in Workers /\ Keeps(x, Rebuilding(x)) /\ Rebuilding(x).pc = "saveRebuilding"
         /\ Rebuilding(x).gap = x.gap /\ Rebuilding(x).todo = x.todo /\ Rebuilding(x).ck.barrier = x.ck.barrier
<1>1. Rebuilding(x) = Onward(x, "saveRebuilding", "REBUILDING", "REBUILDING")
  BY DEF Rebuilding, Onward, Workers, Checkpoints
<1>2. "saveRebuilding" \in PCs /\ "REBUILDING" \in Recoveries /\ "REBUILDING" \in {"HEALTHY", "REBUILDING"}
  BY DEF PCs, Recoveries
<1> QED
  BY <1>1, <1>2, OnwardParts

(* The work on a bar or a gap is over. *)
LEMMA RestingParts ==
  ASSUME NEW x \in Workers
  PROVE  /\ Resting(x) \in Workers /\ Resting(x).boot = x.boot /\ Resting(x).ck = x.ck /\ Resting(x).gaps = x.gaps
         /\ Resting(x).pc = (IF x.boot THEN "gaps" ELSE "idle")
         /\ Resting(x).gap = {} /\ Resting(x).left = {} /\ Resting(x).todo = {}
BY DEF Resting, Workers, PCs

(* What processCompletedDecisionBars() takes up. *)
LEMMA EvaluateParts ==
  ASSUME NEW x \in Workers, NEW n \in Nat, DOMAIN bars \subseteq 0..n, NEW b
  PROVE  /\ Evaluate(x, b) \in Workers /\ Keeps(x, Evaluate(x, b)) /\ Evaluate(x, b).pc = x.pc
         /\ Evaluate(x, b).gap = x.gap /\ Evaluate(x, b).ck.barrier = x.ck.barrier
         /\ \/ Evaluate(x, b).todo = x.todo
            \/ Evaluate(x, b).todo =
                 {c \in Trailing(Raw(x.ck.latest)) : ~x.boot /\ (b # None => c = b) /\ c >= x.ck.barrier}
<1>1. CASE Raw(x.ck.latest) = {}
  BY <1>1 DEF Evaluate, Keeps
<1>2. CASE Raw(x.ck.latest) # {}
  <2> DEFINE trail == Trailing(Raw(x.ck.latest))
             warm == trail # {} /\ Warm(trail, Max(trail))
             cont == IF warm THEN "HEALTHY" ELSE "REBUILDING"
             rec == IF x.ck.rec = "REBUILDING" /\ warm THEN "HEALTHY" ELSE x.ck.rec
             todo == {c \in trail : ~x.boot /\ (b # None => c = b) /\ c >= x.ck.barrier}
             y == Onward(x, x.pc, rec, cont)
  <2>1. trail \subseteq Nat
    <3>1. Raw(x.ck.latest) \in SUBSET (0..n)
      BY DEF Raw
    <3>2. trail \subseteq WholeBuckets(Raw(x.ck.latest))
      BY DEF Trailing, WholeBuckets
    <3> QED
      BY <3>1, <3>2, WholeParts
  <2>2. Evaluate(x, b) = [x EXCEPT !.ck.cont = cont, !.ck.rec = rec, !.todo = todo]
    BY <1>2 DEF Evaluate, Reevaluated
  <2>3. cont \in {"HEALTHY", "REBUILDING"} /\ rec \in Recoveries /\ x.pc \in PCs /\ todo \in SUBSET Nat
    BY <2>1 DEF Workers, Checkpoints, Recoveries
  <2> HIDE DEF trail, warm, cont, rec, todo
  <2>4. /\ y \in Workers /\ Keeps(x, y) /\ y.pc = x.pc /\ y.gap = x.gap /\ y.ck.barrier = x.ck.barrier
    BY <2>3, OnwardParts
  <2>5. Evaluate(x, b) = [y EXCEPT !.todo = todo]
    BY <2>2 DEF Workers, Checkpoints, Onward
  <2> HIDE DEF y
  <2>6. /\ Evaluate(x, b) \in Workers /\ Keeps(y, Evaluate(x, b)) /\ Evaluate(x, b).pc = y.pc
        /\ Evaluate(x, b).gap = y.gap /\ Evaluate(x, b).ck = y.ck /\ Evaluate(x, b).todo = todo
    BY <2>3, <2>4, <2>5 DEF Workers, Keeps
  <2> QED
    BY <2>4, <2>6 DEF Keeps, todo, trail
<1> QED
  BY <1>1, <1>2

----------------------------------------------------------------------------
(* What stays true when no bar is stored.                                   *)

(* The newest bar. *)
LEMMA StoreFacts ==
  ASSUME StoreOK
  PROVE  /\ clock \in Nat /\ DOMAIN bars \in SUBSET (0..MaxMinute) /\ \A k \in DOMAIN bars : k \in Nat /\ k < clock /\ k <= Newest
         /\ Newest \in Nat \cup {None} /\ Newest < clock
         /\ (Newest = None <=> DOMAIN bars = {}) /\ (Newest # None => Newest \in DOMAIN bars)
<1>1. clock \in Nat /\ clock <= MaxMinute /\ DOMAIN bars \subseteq 0..(clock - 1)
  BY GapNumbers DEF StoreOK
<1>2. DOMAIN bars \in SUBSET (0..MaxMinute)
  BY <1>1, GapNumbers
<1>3. DOMAIN bars # {} => Newest \in DOMAIN bars /\ \A k \in DOMAIN bars : k <= Newest
  BY <1>2, GapNumbers, MaxIsGreatest DEF Newest
<1>4. DOMAIN bars = {} => Newest = None
  BY DEF Newest
<1> QED
  BY <1>1, <1>2, <1>3, <1>4 DEF None

(* The store stays as it is, and the checkpoint is the old one or the worker's. *)
LEMMA StoreStays ==
  ASSUME StoreOK, PlaceOK, bars' = bars, clock' \in clock..MaxMinute, wk' \in Workers,
         ck' = ck \/ (ck' = wk.ck /\ wk.pc # "down")
  PROVE  StoreOK'
<1>1. clock' \in 0..MaxMinute /\ DOMAIN bars' \subseteq 0..(clock' - 1) /\ Newest' = Newest
  BY StoreFacts, GapNumbers DEF Newest
<1>2. ck' \in Checkpoints /\ ck'.latest <= Newest
  BY DEF StoreOK, Workers, PlaceOK
<1> QED
  BY <1>1, <1>2 DEF StoreOK

(* What was decided stays decided. *)
LEMMA DecisionsStay ==
  ASSUME DecisionsOK, DOMAIN bars \subseteq DOMAIN bars', decisions' = decisions
  PROVE  DecisionsOK'
BY DEF DecisionsOK, Complete, Whole

(* A minute that is of no more use stays so while nothing is stored. *)
LEMMA HolesStay ==
  ASSUME StoreOK, HolesOK, wk.pc \notin {"down", "scan"}, wk' \in Workers, bars' = bars, clock' \in Nat, clock <= clock',
         wk'.ck.latest = wk.ck.latest, wk.ck.barrier <= wk'.ck.barrier, wk'.gaps = wk.gaps,
         wk'.pc = "record" => clock' <= wk'.bar + 1 + MaxLate \/ (wk.pc = "record" /\ wk'.bar = wk.bar),
         wk.pc = "saveLatest" =>
           LiveGap(wk.prior, wk.bar) = {} \/ (wk'.pc = "saveLatest" /\ wk'.prior = wk.prior /\ wk'.bar = wk.bar)
  PROVE  HolesOK' /\ \A m \in Int : Shielded(m) => Shielded(m)'
<1>0. wk \in Workers /\ clock \in Nat /\ wk.ck.barrier \in Nat /\ wk'.ck.barrier \in Nat /\ wk.ck.latest \in Int
      /\ DOMAIN bars \subseteq Nat /\ MaxLate \in Nat /\ wk'.bar \in Int
  <2>1. wk \in Workers /\ clock \in Nat /\ DOMAIN bars \subseteq Nat
    BY StoreFacts DEF StoreOK
  <2>2. wk.ck \in Checkpoints /\ wk'.ck \in Checkpoints /\ wk'.bar \in Int
    BY <2>1 DEF Workers, None
  <2> QED
    BY <2>1, <2>2, GapNumbers DEF Checkpoints, None
<1>1. ASSUME NEW m \in Int, Gone(m) PROVE Gone(m)'
  BY <1>0, <1>1 DEF Gone
<1>2. ASSUME NEW b \in Int, Cold(b) PROVE Cold(b)'
  <2>1. First(b) \in Int
    BY GapNumbers DEF First
  <2>2. PICK m \in First(b)..(b - 1) : m \notin Session \/ (m \notin DOMAIN bars /\ Gone(m))
    BY <1>2 DEF Cold
  <2>3. m \in Int
    BY <2>1, <2>2
  <2>4. m \notin Session \/ (m \notin DOMAIN bars' /\ Gone(m)')
    BY <1>1, <2>2, <2>3
  <2> QED
    BY <2>4 DEF Cold, First
<1>3. ASSUME NEW m \in Int, Shielded(m) PROVE Shielded(m)'
  <2>1. BucketOf(m) \in Int
    BY BucketBounds
  <2> QED
    BY <1>0, <1>2, <1>3, <2>1 DEF Shielded, RawFrom, BucketOf
<1>4. HolesOK'
  <2>1. SUFFICES ASSUME NEW m \in Session \ DOMAIN bars, NEW k \in DOMAIN bars, m < k, SameDay(m, k)
                 PROVE  \/ Shielded(m)' \/ Gone(m)'
                        \/ m \in UNION wk'.gaps
                        \/ wk'.pc = "saveLatest" /\ m \in LiveGap(wk'.prior, wk'.bar)
                        \/ k \notin Session /\ LaterDay(m)'
    BY DEF HolesOK, SameDay, LiveGap, Regular
  <2>2. m \in Int
    BY GapNumbers
  <2>3. \/ Shielded(m) \/ Gone(m)
        \/ m \in UNION wk.gaps
        \/ wk.pc = "saveLatest" /\ m \in LiveGap(wk.prior, wk.bar)
        \/ k \notin Session /\ LaterDay(m)
    BY <2>1 DEF HolesOK
  <2>4. LaterDay(m) => LaterDay(m)'
    BY DEF LaterDay, SameDay
  <2> QED
    BY <1>1, <1>3, <2>2, <2>3, <2>4
<1> QED
  BY <1>3, <1>4

(* A barrier above every bar leaves nothing open. *)
LEMMA AllShielded ==
  ASSUME StoreOK', NEW n \in Int, \A k \in DOMAIN bars' : k <= n, NextBucket(n) <= wk'.ck.barrier
  PROVE  HolesOK' /\ FreshOK'
<1>1. wk'.ck.barrier \in Nat /\ DOMAIN bars' \subseteq Int /\ NextBucket(n) \in Int
  BY GapNumbers, BucketBounds DEF StoreOK, Workers, Checkpoints, NextBucket
<1>2. ASSUME NEW m \in Int, NEW k \in DOMAIN bars', m < k PROVE Shielded(m)'
  <2>1. BucketOf(m) < NextBucket(n) /\ BucketOf(m) \in Int
    BY <1>1, <1>2, NextBucketAbove, BucketBounds
  <2> QED
    BY <1>1, <2>1 DEF Shielded, BucketOf
<1>3. Session \subseteq Int
  BY GapNumbers
<1>4. HolesOK'
  BY <1>2, <1>3 DEF HolesOK
<1>5. FreshOK'
  BY <1>2, <1>3, <1>1 DEF FreshOK
<1> QED
  BY <1>4, <1>5

(* A step that stores no bar. *)
LEMMA QuietKeeps ==
  ASSUME GapInv, wk.pc \notin {"down", "scan"}, wk' \in Workers, bars' = bars, DecisionsOK', clock' \in clock..MaxMinute,
         ck' = ck \/ ck' = wk.ck,
         wk'.ck.latest = wk.ck.latest, wk.ck.barrier <= wk'.ck.barrier, wk'.gaps = wk.gaps,
         wk'.pc = "record" => clock' <= wk'.bar + 1 + MaxLate \/ (wk.pc = "record" /\ wk'.bar = wk.bar),
         wk.pc = "saveLatest" =>
           LiveGap(wk.prior, wk.bar) = {} \/ (wk'.pc = "saveLatest" /\ wk'.prior = wk.prior /\ wk'.bar = wk.bar),
         wk'.pc \in {"saveLatest"} \cup Deciding /\ wk'.gap = {} =>
           wk.pc \in {"saveLatest"} \cup Deciding /\ wk.gap = {} /\ wk'.bar = wk.bar,
         PlaceOK', GapOK', TodoOK'
  PROVE  GapInv'
<1>1. StoreOK'
  BY StoreStays DEF GapInv
<1>3. HolesOK' /\ \A m \in Int : Shielded(m) => Shielded(m)'
  <2>1. clock' \in Nat /\ clock <= clock'
    BY StoreFacts DEF GapInv
  <2> QED
    BY <2>1, HolesStay DEF GapInv
<1>4. FreshOK'
  <2>1. SUFFICES ASSUME NEW b \in Session, b = wk'.bar, wk'.pc \in {"saveLatest"} \cup Deciding, wk'.gap = {},
                        NEW k \in DOMAIN bars, k > b, SameDay(b, k)
                 PROVE  Shielded(b)' \/ (k \notin Session /\ LaterDay(b)')
    BY DEF FreshOK, SameDay
  <2>2. b = wk.bar /\ b \in Int
    BY <2>1, GapNumbers
  <2>3. Shielded(b) \/ (k \notin Session /\ LaterDay(b))
    BY <2>1, <2>2 DEF GapInv, FreshOK
  <2>4. LaterDay(b) => LaterDay(b)'
    BY DEF LaterDay, SameDay
  <2> QED
    BY <1>3, <2>2, <2>3, <2>4
<1> QED
  BY <1>1, <1>3, <1>4 DEF GapInv

----------------------------------------------------------------------------
(* Steps that store no bar and take no decision.                            *)

(* The recovery of a gap goes on. *)
LEMMA RecoveryGoesOn ==
  ASSUME GapInv, wk.gap # {}, wk' \in Workers, bars' = bars, decisions' = decisions, clock' = clock, ck' = ck \/ ck' = wk.ck,
         wk'.boot = wk.boot, wk'.ck.latest = wk.ck.latest, wk'.seen = wk.seen, wk'.gaps = wk.gaps, wk'.gap = wk.gap,
         wk'.left \subseteq wk.gap, wk'.todo = {}, wk.ck.barrier <= wk'.ck.barrier,
         wk'.pc \in {"saveRequest", "fetch", "saveVerifying", "backfill", "decide", "saveRestored", "saveRebuilding"}
  PROVE  GapInv'
<1>1. wk.pc \notin {"down", "scan", "saveLatest"} /\ wk.ck.latest = Newest /\ (wk.boot \/ wk.gaps = {})
  BY DEF GapInv, PlaceOK, Rests
<1>2. Newest' = Newest
  BY DEF Newest
<1>3. Newest \in Int
  BY StoreFacts DEF GapInv, None
<1>4. PlaceOK'
  BY <1>1, <1>2, <1>3 DEF PlaceOK, Rests, Deciding
<1>5. GapOK'
  <2>1. wk.ck.barrier \in Nat /\ wk'.ck.barrier \in Nat /\ wk.seen \in Int /\ NextBucket(wk.seen) \in Int
    BY GapNumbers, BucketBounds DEF GapInv, StoreOK, Workers, Checkpoints, NextBucket
  <2> QED
    BY <2>1 DEF GapInv, GapOK, NextBucket, BucketOf
<1>6. TodoOK'
  BY DEF TodoOK
<1>7. clock' \in clock..MaxMinute
  BY StoreFacts, GapNumbers DEF GapInv, StoreOK
<1>8. DecisionsOK'
  BY DecisionsStay DEF GapInv
<1> QED
  BY <1>1, <1>4, <1>5, <1>6, <1>7, <1>8, QuietKeeps

(* The work on a bar or a gap is over. *)
LEMMA WorkEnds ==
  ASSUME GapInv, wk' = Resting(wk), bars' = bars, decisions' = decisions, clock' = clock, ck' = ck \/ ck' = wk.ck,
         wk.pc \notin {"down", "scan", "saveLatest"}
  PROVE  GapInv'
<1>1. wk \in Workers /\ wk.ck.latest = Newest /\ (wk.boot \/ wk.gaps = {}) /\ Newest \in Int
  BY StoreFacts DEF GapInv, PlaceOK, StoreOK, None
<1>2. /\ wk' \in Workers /\ wk'.boot = wk.boot /\ wk'.ck = wk.ck /\ wk'.gaps = wk.gaps
      /\ wk'.pc = (IF wk.boot THEN "gaps" ELSE "idle")
      /\ wk'.gap = {} /\ wk'.left = {} /\ wk'.todo = {}
  BY <1>1, RestingParts
<1>3. Newest' = Newest
  BY DEF Newest
<1>4. PlaceOK'
  BY <1>1, <1>2, <1>3 DEF PlaceOK, Rests, Deciding
<1>5. GapOK' /\ TodoOK'
  BY <1>2 DEF GapInv, GapOK, TodoOK
<1>6. clock' \in clock..MaxMinute /\ wk.ck.barrier <= wk'.ck.barrier
  BY <1>1, <1>2, StoreFacts, GapNumbers DEF GapInv, StoreOK, Workers, Checkpoints
<1>7. wk'.pc # "record" /\ wk'.pc \notin {"saveLatest"} \cup Deciding /\ wk'.pc \notin {"down", "scan"}
  BY <1>2 DEF Deciding
<1>8. DecisionsOK'
  BY DecisionsStay DEF GapInv
<1> QED
  BY <1>2, <1>4, <1>5, <1>6, <1>7, <1>8, QuietKeeps

(* What is under way while a gap is recovered. *)
LEMMA RecoveryFacts ==
  ASSUME GapInv, wk.gap # {}
  PROVE  /\ wk \in Workers /\ wk.todo = {} /\ wk.left \subseteq wk.gap /\ wk.ck \in Checkpoints
         /\ wk.ck.rec \in Recoveries /\ wk.ck.cont \in {"HEALTHY", "REBUILDING"} /\ wk.ck.barrier \in Nat
         /\ wk.pc \notin {"down", "scan", "record", "saveLatest"}
BY DEF GapInv, GapOK, StoreOK, PlaceOK, Rests, Workers, Checkpoints

(* A recovery that goes on as before. *)
LEMMA OnwardKeeps ==
  ASSUME GapInv, wk.gap # {}, bars' = bars, decisions' = decisions, clock' = clock, ck' = ck \/ ck' = wk.ck,
         NEW pc \in {"saveRequest", "fetch", "saveVerifying", "backfill", "decide", "saveRestored", "saveRebuilding"},
         NEW rec \in Recoveries, NEW cont \in {"HEALTHY", "REBUILDING"}, wk' = Onward(wk, pc, rec, cont)
  PROVE  GapInv'
<1>1. pc \in PCs
  BY DEF PCs
<1>2. /\ wk' \in Workers /\ Keeps(wk, wk') /\ wk'.pc = pc /\ wk'.gap = wk.gap /\ wk'.todo = wk.todo
      /\ wk'.ck.barrier = wk.ck.barrier
  BY <1>1, RecoveryFacts, OnwardParts
<1>3. wk.ck.barrier <= wk'.ck.barrier /\ wk'.left \subseteq wk.gap /\ wk'.todo = {}
  BY <1>2, RecoveryFacts DEF Keeps
<1> QED
  BY <1>2, <1>3, RecoveryGoesOn DEF Keeps

(* The statements of recoverGap() before and after the bars, and its failures. *)
LEMMA RecoveryStepsKeep ==
  ASSUME GapInv, SaveGap \/ SaveRequest \/ Fetch \/ SaveVerifying \/ Restored \/ RecoveryFails
  PROVE  GapInv'
<1>1. wk.gap # {}
  BY DEF SaveGap, SaveRequest, Fetch, SaveVerifying, Restored, RecoveryFails, At, GapInv, PlaceOK
<1>0. /\ wk \in Workers /\ wk.ck \in Checkpoints /\ wk.ck.rec \in Recoveries /\ wk.ck.cont \in {"HEALTHY", "REBUILDING"}
      /\ Recoveries = {"HEALTHY", "GAP_DETECTED", "BACKFILLING", "VERIFYING", "REBUILDING"}
  BY <1>1, RecoveryFacts DEF Recoveries
<1>2. ASSUME Saves([wk EXCEPT !.pc = "saveRequest", !.ck.rec = "BACKFILLING"]) PROVE GapInv'
  <2>1. wk' = Onward(wk, "saveRequest", "BACKFILLING", wk.ck.cont)
    BY <1>0, <1>2 DEF Saves, Onward, Workers, Checkpoints
  <2> QED
    BY <1>0, <1>1, <1>2, <2>1, OnwardKeeps DEF Saves
<1>3. ASSUME Saves([wk EXCEPT !.pc = "fetch"]) PROVE GapInv'
  <2>1. wk' = Onward(wk, "fetch", wk.ck.rec, wk.ck.cont)
    BY <1>0, <1>3 DEF Saves, Onward, Workers, Checkpoints
  <2> QED
    BY <1>0, <1>1, <1>3, <2>1, OnwardKeeps DEF Saves
<1>4. ASSUME Goes([wk EXCEPT !.pc = "saveVerifying", !.ck.rec = "VERIFYING", !.left = wk.gap]) PROVE GapInv'
  <2> DEFINE y == Onward(wk, "saveVerifying", "VERIFYING", wk.ck.cont)
  <2>1. wk' = [y EXCEPT !.left = wk.gap] /\ UNCHANGED <<clock, bars, ck, decisions>>
    BY <1>0, <1>4 DEF Goes, Onward, Workers, Checkpoints
  <2>2. /\ y \in Workers /\ Keeps(wk, y) /\ y.pc = "saveVerifying" /\ y.gap = wk.gap /\ y.todo = wk.todo
        /\ y.ck.barrier = wk.ck.barrier
    <3>1. "saveVerifying" \in PCs /\ "VERIFYING" \in Recoveries
      BY DEF PCs, Recoveries
    <3>2. wk \in Workers /\ wk.ck.cont \in {"HEALTHY", "REBUILDING"}
      BY <1>0
    <3> QED
      BY <3>1, <3>2, OnwardParts
  <2> HIDE DEF y
  <2>3. /\ wk' \in Workers /\ wk'.pc = "saveVerifying" /\ wk'.gap = wk.gap /\ wk'.todo = wk.todo /\ wk'.left = wk.gap
        /\ wk'.boot = wk.boot /\ wk'.ck = y.ck /\ wk'.ck.latest = wk.ck.latest /\ wk'.seen = wk.seen /\ wk'.gaps = wk.gaps
    BY <1>0, <2>1, <2>2 DEF Workers, Keeps
  <2>4. wk.ck.barrier <= wk'.ck.barrier /\ wk'.todo = {}
    BY <1>1, <2>2, <2>3, RecoveryFacts
  <2> QED
    BY <1>1, <2>1, <2>3, <2>4, RecoveryGoesOn
<1>5. ASSUME Goes(Rebuilding(wk)) PROVE GapInv'
  <2>1. wk' = Onward(wk, "saveRebuilding", "REBUILDING", "REBUILDING")
    BY <1>0, <1>5 DEF Goes, Rebuilding, Onward, Workers, Checkpoints
  <2> QED
    BY <1>0, <1>1, <1>5, <2>1, OnwardKeeps DEF Goes
<1>6. ASSUME Saves([wk EXCEPT !.pc = "backfill"]) PROVE GapInv'
  <2>1. wk' = Onward(wk, "backfill", wk.ck.rec, wk.ck.cont)
    BY <1>0, <1>6 DEF Saves, Onward, Workers, Checkpoints
  <2> QED
    BY <1>0, <1>1, <1>6, <2>1, OnwardKeeps DEF Saves
<1>7. ASSUME NEW rec \in Recoveries, Goes([wk EXCEPT !.pc = "saveRestored", !.ck.rec = rec]) PROVE GapInv'
  <2>1. wk' = Onward(wk, "saveRestored", rec, wk.ck.cont)
    BY <1>0, <1>7 DEF Goes, Onward, Workers, Checkpoints
  <2> QED
    BY <1>0, <1>1, <1>7, <2>1, OnwardKeeps DEF Goes
<1>8. CASE Restored
  <2> DEFINE rec == IF wk.ck.cont = "HEALTHY" THEN "HEALTHY" ELSE "REBUILDING"
  <2>1. rec \in Recoveries /\ Goes([wk EXCEPT !.pc = "saveRestored", !.ck.rec = rec])
    BY <1>0, <1>8 DEF Restored
  <2> QED
    BY <1>7, <2>1
<1>9. CASE SaveGap \/ SaveRequest \/ Fetch \/ SaveVerifying \/ RecoveryFails
  BY <1>2, <1>3, <1>4, <1>5, <1>6, <1>9 DEF SaveGap, SaveRequest, Fetch, SaveVerifying, RecoveryFails
<1> QED
  BY <1>8, <1>9

(* The steps that end the work on a bar or a gap. *)
LEMMA RestingStepsKeep == ASSUME GapInv, Ready \/ SaveRestored \/ SaveRebuilding \/ DecideDone PROVE GapInv'
<1>1. wk' = Resting(wk) /\ bars' = bars /\ decisions' = decisions /\ clock' = clock /\ (ck' = ck \/ ck' = wk.ck)
  BY DEF Ready, SaveRestored, SaveRebuilding, DecideDone, Saves, Goes
<1>2. wk.pc \notin {"down", "scan", "saveLatest"}
  BY DEF Ready, SaveRestored, SaveRebuilding, DecideDone, At
<1> QED
  BY <1>1, <1>2, WorkEnds

(* Everything is repaired: the barrier is above all bars, so that nothing is decided. *)
LEMMA BackfillDoneKeeps == ASSUME GapInv, BackfillDone PROVE GapInv'
<1> DEFINE x == Barred(wk, clock)
           y == Evaluate(x, None)
<1>1. wk.gap # {} /\ wk \in Workers /\ clock \in Nat /\ wk.left \subseteq wk.gap /\ wk.todo = {} /\ wk.ck.barrier \in Nat
      /\ clock <= MaxMinute
  <2>1. wk.gap # {}
    BY DEF BackfillDone, At, GapInv, PlaceOK
  <2> QED
    BY <2>1, RecoveryFacts, StoreFacts, GapNumbers DEF GapInv, StoreOK
<1>2. /\ x \in Workers /\ Keeps(wk, x) /\ x.pc = wk.pc /\ x.gap = wk.gap /\ x.todo = wk.todo
      /\ wk.ck.barrier <= x.ck.barrier /\ NextBucket(clock) <= x.ck.barrier
  BY <1>1, BarredParts
<1>3. DOMAIN bars \subseteq 0..MaxMinute /\ MaxMinute \in Nat
  BY StoreFacts, GapNumbers DEF GapInv
<1>4. /\ y \in Workers /\ Keeps(x, y) /\ y.gap = x.gap /\ y.ck.barrier = x.ck.barrier
      /\ \/ y.todo = x.todo
         \/ y.todo = {c \in Trailing(Raw(x.ck.latest)) : ~x.boot /\ (None # None => c = None) /\ c >= x.ck.barrier}
  <2> HIDE DEF x
  <2> QED
    BY <1>2, <1>3, EvaluateParts
<1>5. y.todo = {}
  <2>1. SUFFICES ASSUME NEW c \in Trailing(Raw(x.ck.latest)), c >= x.ck.barrier PROVE FALSE
    <3> HIDE DEF x, y
    <3> QED
      BY <1>1, <1>2, <1>4
  <2>2. Raw(x.ck.latest) \in SUBSET (0..MaxMinute) /\ Raw(x.ck.latest) \subseteq DOMAIN bars
    BY <1>3 DEF Raw
  <2>3. c \in WholeBuckets(Raw(x.ck.latest))
    BY DEF Trailing, WholeBuckets
  <2> HIDE DEF x
  <2>4. c \in Nat /\ BucketOf(c) = c /\ c \in DOMAIN bars
    BY <1>3, <2>2, <2>3, WholeParts
  <2>5. c <= clock
    BY <2>4, <1>1, StoreFacts DEF GapInv
  <2>6. c < NextBucket(clock)
    BY <1>1, <2>4, <2>5, NextBucketAbove
  <2>7. x.ck.barrier \in Nat /\ NextBucket(clock) \in Int
    BY <1>1, <1>2, BucketBounds, GapNumbers DEF NextBucket, Workers, Checkpoints
  <2> QED
    BY <1>2, <2>1, <2>4, <2>6, <2>7
<1>6. wk' = [y EXCEPT !.pc = "decide"] /\ UNCHANGED <<clock, bars, ck, decisions>>
  BY DEF BackfillDone, Goes
<1> HIDE DEF x, y
<1>7. /\ wk' \in Workers /\ wk'.pc = "decide" /\ wk'.gap = y.gap /\ wk'.todo = y.todo /\ wk'.left = y.left
      /\ wk'.boot = y.boot /\ wk'.ck = y.ck /\ wk'.seen = y.seen /\ wk'.gaps = y.gaps
  BY <1>4, <1>6 DEF Workers, PCs
<1>8. /\ wk'.boot = wk.boot /\ wk'.ck.latest = wk.ck.latest /\ wk'.seen = wk.seen /\ wk'.gaps = wk.gaps /\ wk'.gap = wk.gap
      /\ wk'.left \subseteq wk.gap /\ wk'.todo = {} /\ wk.ck.barrier <= wk'.ck.barrier
  BY <1>1, <1>2, <1>4, <1>5, <1>7 DEF Keeps
<1> QED
  BY <1>1, <1>6, <1>7, <1>8, RecoveryGoesOn

(* A bar comes that is not too late. *)
LEMMA BarArrivesKeeps == ASSUME GapInv, NEW t \in 0..MaxMinute, NEW v \in {"a", "b"}, BarArrives(t, v) PROVE GapInv'
<1>1. /\ wk.pc = "idle" /\ t < clock /\ clock <= t + 1 + MaxLate
      /\ wk' = [wk EXCEPT !.pc = "record", !.bar = t, !.val = v, !.seen = clock] /\ UNCHANGED <<clock, bars, ck, decisions>>
  BY DEF BarArrives, At, Goes
<1>2. wk \in Workers /\ clock \in Nat /\ clock <= MaxMinute /\ t \in Nat /\ wk.ck.barrier \in Nat /\ MaxMinute \in Nat
  BY StoreFacts, GapNumbers DEF GapInv, StoreOK, Workers, Checkpoints
<1>3. /\ wk' \in Workers /\ wk'.pc = "record" /\ wk'.bar = t /\ wk'.seen = clock
      /\ wk'.boot = wk.boot /\ wk'.ck = wk.ck /\ wk'.gaps = wk.gaps /\ wk'.gap = wk.gap /\ wk'.left = wk.left /\ wk'.todo = wk.todo
  BY <1>1, <1>2 DEF Workers, PCs
<1>4. Newest' = Newest /\ Newest < clock /\ Newest \in Int
  BY <1>1, StoreFacts DEF Newest, GapInv, None
<1>5. PlaceOK'
  BY <1>1, <1>2, <1>3, <1>4 DEF GapInv, PlaceOK, Rests, Deciding
<1>6. GapOK' /\ TodoOK'
  BY <1>1, <1>3 DEF GapInv, GapOK, TodoOK, PlaceOK, Rests, Deciding
<1>7. DecisionsOK'
  BY <1>1, DecisionsStay DEF GapInv
<1> QED
  BY <1>1, <1>2, <1>3, <1>5, <1>6, <1>7, QuietKeeps DEF Deciding

(* A step of neither the worker nor the store: time passes, or an intent is taken up. *)
LEMMA StillKeeps ==
  ASSUME GapInv, wk' = wk, bars' = bars, ck' = ck, clock' \in clock..MaxMinute, DecisionsOK', DOMAIN decisions \subseteq DOMAIN decisions'
  PROVE  GapInv'
<1>1. wk \in Workers /\ clock \in Nat /\ clock' \in Nat /\ clock <= clock' /\ wk.seen \in Nat /\ wk.ck.barrier \in Nat
  <2>1. clock \in Nat
    BY StoreFacts DEF GapInv
  <2>2. clock' \in Nat /\ clock <= clock'
    BY <2>1, GapNumbers
  <2>3. wk \in Workers /\ wk.seen \in Nat /\ wk.ck.barrier \in Nat
    BY DEF GapInv, StoreOK, Workers, Checkpoints
  <2> QED
    BY <2>1, <2>2, <2>3
<1>2. Newest' = Newest
  BY DEF Newest
<1>3. PlaceOK'
  BY <1>1, <1>2 DEF GapInv, PlaceOK
<1>4. GapOK'
  BY <1>1 DEF GapInv, GapOK, NextBucket, BucketOf
<1>5. TodoOK'
  BY DEF GapInv, TodoOK, Trailing, Raw, RawFrom, Minutes, BucketOf, Regular
<1>6. CASE wk.pc \notin {"down", "scan"}
  BY <1>1, <1>3, <1>4, <1>5, <1>6, QuietKeeps
<1>7. CASE wk.pc \in {"down", "scan"}
  <2>1. HolesOK' /\ FreshOK'
    BY <1>7 DEF HolesOK, FreshOK, Deciding
  <2>2. StoreOK'
    BY <1>1, StoreStays DEF GapInv
  <2> QED
    BY <1>3, <1>4, <1>5, <2>1, <2>2 DEF GapInv
<1> QED
  BY <1>6, <1>7

(* Time passes. *)
LEMMA TickKeeps == ASSUME GapInv, Tick PROVE GapInv'
<1>1. clock' \in clock..MaxMinute /\ wk' = wk /\ bars' = bars /\ ck' = ck /\ decisions' = decisions
  BY StoreFacts, GapNumbers DEF Tick, GapInv
<1>2. DecisionsOK'
  BY <1>1, DecisionsStay DEF GapInv
<1> QED
  BY <1>1, <1>2, StillKeeps

(* The process ends. *)
LEMMA EndsKeep == ASSUME GapInv, Halt \/ Crash PROVE GapInv'
<1>1. wk' = Down /\ wk.pc # "down" /\ (ck' = ck \/ ck' = wk.ck) /\ UNCHANGED <<clock, bars, decisions>>
  BY DEF Halt, Crash, Saves, Goes, At
<1>2. /\ wk' \in Workers /\ wk'.pc = "down" /\ wk'.gap = {} /\ wk'.gaps = {} /\ wk'.left = {} /\ wk'.todo = {} /\ ~wk'.boot
  BY <1>1, DownParts
<1>3. clock' \in clock..MaxMinute
  BY <1>1, StoreFacts, GapNumbers DEF GapInv, StoreOK
<1>4. StoreOK' /\ DecisionsOK'
  BY <1>1, <1>2, <1>3, StoreStays, DecisionsStay DEF GapInv
<1>5. wk'.ck.latest <= Newest'
  <2>1. wk'.ck.latest = None
    BY <1>1, DownParts DEF Down
  <2>2. Newest' = Newest /\ Newest \in Nat \cup {None}
    BY <1>1, StoreFacts DEF GapInv, Newest
  <2> QED
    BY <2>1, <2>2 DEF None
<1>6. PlaceOK' /\ GapOK' /\ TodoOK' /\ HolesOK' /\ FreshOK'
  BY <1>2, <1>5 DEF PlaceOK, GapOK, TodoOK, HolesOK, FreshOK, Rests, Deciding
<1> QED
  BY <1>4, <1>6 DEF GapInv

(* A worker starts from the checkpoint. *)
LEMMA StartKeeps == ASSUME GapInv, Start PROVE GapInv'
<1>1. wk' = [Down EXCEPT !.pc = "scan", !.boot = TRUE, !.ck = ck] /\ UNCHANGED <<clock, bars, ck, decisions>>
  BY DEF Start, Goes
<1>2. ck \in Checkpoints /\ ck.latest <= Newest /\ Newest' = Newest
  BY <1>1 DEF GapInv, StoreOK, Newest
<1>3. /\ wk' \in Workers /\ wk'.pc = "scan" /\ wk'.boot /\ wk'.ck = ck /\ wk'.gap = {} /\ wk'.gaps = {} /\ wk'.left = {} /\ wk'.todo = {}
  BY <1>1, <1>2, DownParts DEF Workers, PCs
<1>4. clock' \in clock..MaxMinute
  BY <1>1, StoreFacts, GapNumbers DEF GapInv, StoreOK
<1>5. StoreOK' /\ DecisionsOK'
  BY <1>1, <1>3, <1>4, StoreStays, DecisionsStay DEF GapInv
<1>6. PlaceOK' /\ GapOK' /\ TodoOK' /\ HolesOK' /\ FreshOK'
  BY <1>2, <1>3 DEF PlaceOK, GapOK, TodoOK, HolesOK, FreshOK, Rests, Deciding
<1> QED
  BY <1>5, <1>6 DEF GapInv

----------------------------------------------------------------------------
(* Decisions.                                                               *)

(* What is left to decide is one bucket. *)
LEMMA TodoFacts ==
  ASSUME GapInv, wk.todo # {}
  PROVE  /\ wk.pc \in Deciding /\ wk.gap = {} /\ wk.bar \in DOMAIN bars /\ wk.bar \in Nat
         /\ Min(wk.todo) = BucketOf(wk.bar) /\ wk.todo = {Min(wk.todo)}
         /\ Min(wk.todo) \in Trailing(Raw(wk.ck.latest)) /\ Min(wk.todo) >= wk.ck.barrier
<1>1. wk.pc \in Deciding /\ wk.gap = {} /\ wk.todo \in SUBSET Nat
  BY DEF GapInv, PlaceOK, GapOK, StoreOK, Workers
<1>2. Min(wk.todo) \in wk.todo
  BY <1>1, MinIsLeast
<1>3. \A c \in wk.todo : wk.bar \in Nat /\ wk.bar \in DOMAIN bars /\ c = BucketOf(wk.bar) /\ c \in Trailing(Raw(wk.ck.latest)) /\ c >= wk.ck.barrier
  BY DEF GapInv, TodoOK
<1> DEFINE b == Min(wk.todo)
<1> HIDE DEF b
<1>4. b \in wk.todo
  BY <1>2 DEF b
<1>5. wk.bar \in Nat /\ wk.bar \in DOMAIN bars /\ b = BucketOf(wk.bar) /\ b \in Trailing(Raw(wk.ck.latest)) /\ b >= wk.ck.barrier
  BY <1>3, <1>4
<1>6. wk.todo = {b}
  BY <1>3, <1>4, <1>5
<1> QED
  BY <1>1, <1>5, <1>6 DEF b

(* The stored bars a decision looks at, and what a trailing bucket among them is. *)
LEMMA RawFacts ==
  ASSUME StoreOK, NEW latest \in Nat \cup {None}
  PROVE  /\ Raw(latest) \in SUBSET (0..MaxMinute) /\ Raw(latest) \subseteq DOMAIN bars /\ MaxMinute \in Nat
         /\ \A b \in Trailing(Raw(latest)) : /\ b \in WholeBuckets(Raw(latest)) /\ b \in Nat /\ BucketOf(b) = b /\ b >= RawFrom(latest)
                                             /\ Complete(b) /\ Regular(b)
<1>1. Raw(latest) \in SUBSET (0..MaxMinute) /\ Raw(latest) \subseteq DOMAIN bars /\ MaxMinute \in Nat
  BY StoreFacts, GapNumbers DEF Raw
<1>2. ASSUME NEW b \in Trailing(Raw(latest)) PROVE /\ b \in WholeBuckets(Raw(latest)) /\ b \in Nat /\ BucketOf(b) = b
         /\ b >= RawFrom(latest) /\ Complete(b) /\ Regular(b)
  <2>1. b \in WholeBuckets(Raw(latest))
    BY <1>2 DEF Trailing, WholeBuckets
  <2>2. b \in Nat /\ BucketOf(b) = b /\ b \in Raw(latest)
    BY <1>1, <2>1, WholeParts
  <2>3. b >= RawFrom(latest)
    BY <2>2 DEF Raw
  <2>4. Complete(b) /\ Regular(b)
    BY <1>1, <2>1 DEF WholeBuckets, Complete
  <2> QED
    BY <2>1, <2>2, <2>3, <2>4
<1> QED
  BY <1>1, <1>2

(* A bucket that is eligible has its whole window behind it. *)
LEMMA EligibleIsWhole ==
  ASSUME StoreOK, NEW b \in Trailing(Raw(wk.ck.latest)), Eligible(b)
  PROVE  Whole(b)
<1> DEFINE raw == Raw(wk.ck.latest)
<1>1. wk.ck.latest \in Nat \cup {None}
  BY DEF StoreOK, Workers, Checkpoints
<1>2. raw \in SUBSET (0..MaxMinute) /\ raw \subseteq DOMAIN bars /\ MaxMinute \in Nat
  BY <1>1, RawFacts
<1>3. Warm(Trailing(raw), b)
  BY DEF Eligible
<1> HIDE DEF raw
<1>4. b \in Trailing(raw)
  BY DEF raw
<1>5. \A m \in First(b)..(b + Width - 1) : m \in raw /\ m \in Session
  BY <1>2, <1>3, <1>4, WarmWindow
<1> QED
  BY <1>2, <1>5 DEF Whole, Regular

(* What there is to decide stays so while nothing is stored. *)
LEMMA TodoStays ==
  ASSUME NEW S, bars' = bars, wk'.ck.latest = wk.ck.latest, wk'.ck.barrier = wk.ck.barrier, wk'.bar = wk.bar, wk'.todo \subseteq S,
         \A c \in S : wk.bar \in Nat /\ wk.bar \in DOMAIN bars /\ c = BucketOf(wk.bar)
                            /\ c \in Trailing(Raw(wk.ck.latest)) /\ c >= wk.ck.barrier,
         wk'.pc \in {"dispatch", "saveDecision"} => wk'.todo # {} /\ Min(wk'.todo) \in DOMAIN decisions'
  PROVE  TodoOK'
<1> DEFINE latest == wk.ck.latest
<1>1. wk'.ck.latest = latest /\ wk'.ck.barrier = wk.ck.barrier
  OBVIOUS
<1> HIDE DEF latest
<1>2. Raw(wk.ck.latest)' = Raw(wk.ck.latest)
  BY DEF Raw, RawFrom
<1>3. Trailing(Raw(wk.ck.latest))' = Trailing(Raw(wk.ck.latest))
  BY <1>2 DEF Trailing, Minutes, BucketOf, Regular
<1>4. ASSUME NEW c \in wk'.todo
      PROVE  (wk.bar \in Nat /\ wk.bar \in DOMAIN bars /\ c = BucketOf(wk.bar) /\ c \in Trailing(Raw(wk.ck.latest)) /\ c >= wk.ck.barrier)'
  <2>1. wk.bar \in Nat /\ wk.bar \in DOMAIN bars /\ c = BucketOf(wk.bar) /\ c \in Trailing(Raw(wk.ck.latest)) /\ c >= wk.ck.barrier
    OBVIOUS
  <2> QED
    BY <1>1, <1>3, <2>1 DEF BucketOf
<1> QED
  BY <1>4 DEF TodoOK

(* The worker goes on after a decision, or with it. *)
LEMMA DecidingGoesOn ==
  ASSUME GapInv, wk.todo # {}, NEW pc \in Deciding, NEW todo \in SUBSET wk.todo, wk' = [wk EXCEPT !.pc = pc, !.todo = todo],
         bars' = bars, clock' = clock, ck' = ck \/ ck' = wk.ck, DecisionsOK',
         pc # "decide" => todo = wk.todo /\ Min(wk.todo) \in DOMAIN decisions'
  PROVE  GapInv'
<1>1. wk.pc \in Deciding /\ wk.gap = {} /\ wk \in Workers /\ wk.ck.latest = Newest /\ wk.ck.barrier \in Nat
  BY TodoFacts DEF GapInv, PlaceOK, StoreOK, Workers, Checkpoints, Deciding
<1>2. /\ wk' \in Workers /\ wk'.pc = pc /\ wk'.todo = todo /\ wk'.gap = {} /\ wk'.ck = wk.ck /\ wk'.bar = wk.bar
      /\ wk'.boot = wk.boot /\ wk'.gaps = wk.gaps /\ wk'.left = wk.left /\ wk'.seen = wk.seen
  <2>1. todo \in SUBSET Nat /\ pc \in PCs
    BY <1>1 DEF Workers, PCs, Deciding
  <2> QED
    BY <1>1, <2>1 DEF Workers
<1>3. Newest' = Newest /\ Newest \in Int
  BY StoreFacts DEF GapInv, Newest, None
<1>4. PlaceOK'
  BY <1>1, <1>2, <1>3 DEF GapInv, PlaceOK, Rests, Deciding
<1>5. GapOK'
  BY <1>1, <1>2 DEF GapInv, GapOK
<1>6. TodoOK'
  <2>1. \A c \in wk.todo : wk.bar \in Nat /\ wk.bar \in DOMAIN bars /\ c = BucketOf(wk.bar) /\ c \in Trailing(Raw(wk.ck.latest)) /\ c >= wk.ck.barrier
    BY DEF GapInv, TodoOK
  <2>2. pc # "decide" => Min(wk'.todo) \in DOMAIN decisions' /\ wk'.todo # {}
    BY <1>2
  <2> QED
    BY <1>2, <2>1, <2>2, TodoStays
<1>7. clock' \in clock..MaxMinute
  BY StoreFacts, GapNumbers DEF GapInv, StoreOK
<1> QED
  BY <1>1, <1>2, <1>4, <1>5, <1>6, <1>7, QuietKeeps DEF Deciding

(* A new decision is about a complete bucket of a session, and has its window behind it or is cancelled. *)
LEMMA DecideKeeps == ASSUME GapInv, Decide PROVE GapInv'
<1>0. PICK b : b = Min(wk.todo)
  OBVIOUS
<1>1. wk.pc = "decide" /\ wk.todo # {} /\ wk \in Workers
  BY DEF Decide, At, GapInv, StoreOK
<1>2. b \in Trailing(Raw(wk.ck.latest)) /\ wk.todo = {b}
  BY <1>0, <1>1, TodoFacts
<1>3. CASE b \in DOMAIN decisions
  <2>1. wk' = [wk EXCEPT !.todo = @ \ {b}] /\ UNCHANGED <<clock, bars, ck, decisions>>
    BY <1>0, <1>3 DEF Decide, Goes
  <2>2. wk' = [wk EXCEPT !.pc = "decide", !.todo = {}]
    BY <1>1, <1>2, <2>1 DEF Workers
  <2>3. DecisionsOK'
    BY <2>1, DecisionsStay DEF GapInv
  <2> QED
    BY <1>1, <2>1, <2>2, <2>3, DecidingGoesOn DEF Deciding
<1>4. CASE b \notin DOMAIN decisions
  <2> DEFINE new == [status |-> IF Eligible(b) THEN "PENDING" ELSE "CANCELLED", rec |-> "NONE"]
             pc == IF Eligible(b) THEN "dispatch" ELSE "saveDecision"
  <2>1. /\ decisions' = [c \in DOMAIN decisions \cup {b} |-> IF c = b THEN new ELSE decisions[c]]
        /\ wk' = [wk EXCEPT !.pc = pc] /\ UNCHANGED <<clock, bars, ck>>
    BY <1>0, <1>4 DEF Decide
  <2>2. Complete(b) /\ Regular(b) /\ (Eligible(b) => Whole(b)) /\ new \in Verdicts
    <3>1. wk.ck.latest \in Nat \cup {None}
      BY <1>1 DEF Workers, Checkpoints
    <3>2. Complete(b) /\ Regular(b)
      BY <1>2, <3>1, RawFacts DEF GapInv
    <3>3. Eligible(b) => Whole(b)
      BY <1>2, EligibleIsWhole DEF GapInv
    <3> QED
      BY <3>2, <3>3 DEF Verdicts
  <2>3. DecisionsOK'
    <3>1. ASSUME NEW c \in DOMAIN decisions
          PROVE  /\ decisions[c] \in Verdicts /\ Complete(c)' /\ Regular(c)
                 /\ (decisions[c].status # "CANCELLED" => Whole(c)')
      BY <2>1 DEF GapInv, DecisionsOK, Complete, Whole
    <3>2. Complete(b)' /\ (Eligible(b) => Whole(b)')
      BY <2>1, <2>2 DEF Complete, Whole
    <3>3. new.status # "CANCELLED" => Eligible(b)
      OBVIOUS
    <3> HIDE DEF new, pc
    <3>4. \A c \in DOMAIN decisions' : (c \in DOMAIN decisions /\ decisions'[c] = decisions[c]) \/ (c = b /\ decisions'[c] = new)
      BY <1>4, <2>1
    <3>5. ASSUME NEW c \in DOMAIN decisions'
          PROVE  (decisions[c] \in Verdicts /\ Complete(c) /\ Regular(c) /\ (decisions[c].status # "CANCELLED" => Whole(c)))'
      <4>1. CASE c \in DOMAIN decisions /\ decisions'[c] = decisions[c]
        BY <3>1, <4>1 DEF Regular
      <4>2. CASE c = b /\ decisions'[c] = new
        <5>1. Complete(b)' /\ Regular(b)' /\ new \in Verdicts
          BY <2>2, <3>2 DEF Regular
        <5>2. new.status # "CANCELLED" => Whole(b)'
          BY <3>2, <3>3
        <5> QED
          BY <4>2, <5>1, <5>2, Zenon
      <4> QED
        BY <3>4, <4>1, <4>2
    <3> QED
      BY <3>5 DEF DecisionsOK
  <2>4. pc \in Deciding /\ b \in DOMAIN decisions' /\ wk' = [wk EXCEPT !.pc = pc, !.todo = wk.todo]
    <3>1. pc \in Deciding
      BY DEF Deciding
    <3> HIDE DEF pc, new
    <3> QED
      BY <1>1, <2>1, <3>1 DEF Workers
  <2> HIDE DEF pc, new
  <2> QED
    BY <1>0, <1>1, <2>1, <2>3, <2>4, DecidingGoesOn
<1> QED
  BY <1>3, <1>4

(* The broker's side of a decision: it is submitted, cancelled, or stays PENDING. *)
LEMMA DispatchParts ==
  ASSUME GapInv, NEW b \in DOMAIN decisions, decisions[b].status = "PENDING", NEW x, Dispatch(b, x)
  PROVE  /\ DecisionsOK' /\ DOMAIN decisions' = DOMAIN decisions /\ wk' = x /\ UNCHANGED <<clock, bars, ck>>
         /\ \A c \in DOMAIN decisions : decisions'[c].status = "PENDING" => decisions[c].status = "PENDING"
<1>1. wk' = x /\ UNCHANGED <<clock, bars, ck>> /\ wk.ck.rec \in Recoveries
  BY DEF Dispatch, GapInv, StoreOK, Workers, Checkpoints
<1>2. /\ DOMAIN decisions' = DOMAIN decisions
      /\ \A c \in DOMAIN decisions :
           \/ decisions'[c] = decisions[c]
           \/ c = b /\ decisions'[c] \in Verdicts /\ decisions'[c].status # "PENDING"
  <2>1. decisions[b] \in Verdicts
    BY DEF GapInv, DecisionsOK
  <2>2. CASE UNCHANGED decisions
    BY <2>2
  <2>3. CASE decisions' = [decisions EXCEPT ![b].status = "CANCELLED"]
    <3> DEFINE v == [decisions[b] EXCEPT !.status = "CANCELLED"]
    <3>1. v \in Verdicts /\ v.status # "PENDING"
      BY <2>1 DEF Verdicts
    <3>2. decisions' = [decisions EXCEPT ![b] = v]
      BY <2>3
    <3> HIDE DEF v
    <3> QED
      BY <3>1, <3>2
  <2>4. CASE decisions' = [decisions EXCEPT ![b] = [status |-> "SUBMITTED", rec |-> wk.ck.rec]]
    <3> DEFINE v == [status |-> "SUBMITTED", rec |-> wk.ck.rec]
    <3>1. v \in Verdicts /\ v.status # "PENDING"
      BY <1>1 DEF Verdicts
    <3>2. decisions' = [decisions EXCEPT ![b] = v]
      BY <2>4
    <3> HIDE DEF v
    <3> QED
      BY <3>1, <3>2
  <2> QED
    BY <2>2, <2>3, <2>4 DEF Dispatch
<1>3. \A c \in DOMAIN decisions : (Complete(c) => Complete(c)') /\ (Whole(c) => Whole(c)')
  BY <1>1 DEF Complete, Whole
<1>4. DecisionsOK'
  BY <1>2, <1>3 DEF GapInv, DecisionsOK, Regular
<1> QED
  BY <1>1, <1>2, <1>4

(* A decision is handed to the broker. *)
LEMMA DispatchDecisionKeeps == ASSUME GapInv, DispatchDecision PROVE GapInv'
<1> DEFINE b == Min(wk.todo)
<1>1. wk.pc = "dispatch" /\ wk.todo # {} /\ b \in DOMAIN decisions /\ wk \in Workers
  BY DEF DispatchDecision, At, GapInv, TodoOK, StoreOK
<1>2. wk' = [wk EXCEPT !.pc = "saveDecision"] /\ UNCHANGED <<clock, bars, ck>> /\ DecisionsOK' /\ DOMAIN decisions' = DOMAIN decisions
  <2>1. CASE decisions[b].status = "PENDING"
    <3>1. Dispatch(b, [wk EXCEPT !.pc = "saveDecision"])
      BY <2>1 DEF DispatchDecision
    <3> HIDE DEF b
    <3> QED
      BY <1>1, <2>1, <3>1, DispatchParts
  <2>2. CASE decisions[b].status # "PENDING"
    <3>1. Goes([wk EXCEPT !.pc = "saveDecision"])
      BY <2>2 DEF DispatchDecision
    <3> QED
      BY <3>1, DecisionsStay DEF Goes, GapInv
  <2> QED
    BY <2>1, <2>2
<1> HIDE DEF b
<1>3. wk' = [wk EXCEPT !.pc = "saveDecision", !.todo = wk.todo]
  BY <1>1, <1>2 DEF Workers
<1> QED
  BY <1>1, <1>2, <1>3, DecidingGoesOn DEF Deciding, b

(* The decision is behind the worker. *)
LEMMA SaveDecisionKeeps == ASSUME GapInv, SaveDecision PROVE GapInv'
<1>1. wk.todo # {} /\ wk \in Workers
  BY DEF SaveDecision, At, GapInv, TodoOK, StoreOK
<1>2. wk.todo = {Min(wk.todo)}
  BY <1>1, TodoFacts
<1>3. wk' = [wk EXCEPT !.pc = "decide", !.todo = {}] /\ ck' = wk.ck /\ UNCHANGED <<clock, bars, decisions>>
  <2>1. wk' = [wk EXCEPT !.pc = "decide", !.todo = @ \ {Min(@)}] /\ ck' = wk.ck /\ UNCHANGED <<clock, bars, decisions>>
    BY DEF SaveDecision, Saves
  <2>2. wk.todo \ {Min(wk.todo)} = {}
    BY <1>2
  <2> QED
    BY <1>1, <2>1, <2>2 DEF Workers
<1>4. DecisionsOK'
  BY <1>3, DecisionsStay DEF GapInv
<1>5. "decide" \in Deciding /\ {} \in SUBSET wk.todo
  BY DEF Deciding
<1> QED
  BY <1>1, <1>3, <1>4, <1>5, DecidingGoesOn

(* A PENDING intent is taken up by reconcile(). *)
LEMMA ReconcileKeeps == ASSUME GapInv, Reconcile PROVE GapInv'
<1>1. PICK b \in DOMAIN decisions : decisions[b].status = "PENDING" /\ Dispatch(b, wk)
  BY DEF Reconcile
<1>2. DecisionsOK' /\ DOMAIN decisions' = DOMAIN decisions /\ wk' = wk /\ UNCHANGED <<clock, bars, ck>>
  BY <1>1, DispatchParts
<1>3. clock' \in clock..MaxMinute
  BY <1>2, StoreFacts, GapNumbers DEF GapInv, StoreOK
<1> QED
  BY <1>2, <1>3, StillKeeps

----------------------------------------------------------------------------
(* Gaps of the feature horizon.                                             *)

(* The next gap that is repaired is one of those that were found. *)
LEMMA FirstGap ==
  ASSUME NEW S \in SUBSET SUBSET Nat, S # {}, {} \notin S
  PROVE  (CHOOSE g \in S : \A h \in S : Min(g) <= Min(h)) \in S
<1> DEFINE least == {Min(g) : g \in S}
<1>1. \A g \in S : Min(g) \in Nat
  BY MinIsLeast
<1>2. least # {} /\ least \in SUBSET Nat
  BY <1>1
<1>3. Min(least) \in least /\ \A n \in least : Min(least) <= n
  <2> HIDE DEF least
  <2> QED
    BY <1>2, MinIsLeast
<1>4. PICK g \in S : Min(least) = Min(g)
  BY <1>3
<1>5. \A h \in S : Min(h) \in least
  OBVIOUS
<1> HIDE DEF least
<1>6. \A h \in S : Min(g) <= Min(h)
  BY <1>3, <1>4, <1>5
<1> QED
  BY <1>6

(* A gap is found: every bar that is stored lies below the barrier now. *)
LEMMA GapBegins ==
  ASSUME StoreOK, PlaceOK, DecisionsOK, bars' = bars, decisions' = decisions, clock' = clock, ck' = ck \/ ck' = wk.ck,
         wk.pc \in {"gaps", "saveLatest"}, NEW x \in Workers, NEW gap \in SUBSET Nat, wk' = Detected(x, gap),
         gap # {}, gap \subseteq 0..Newest, x.ck.latest = Newest, x.todo = {}, x.left = {}, x.boot = wk.boot,
         x.gaps \subseteq wk.gaps, \A g \in wk.gaps : g # {} /\ g \subseteq 0..Newest, Newest < x.seen, x.seen <= clock
  PROVE  GapInv'
<1>1. /\ wk' \in Workers /\ wk'.boot = x.boot /\ wk'.ck.latest = Newest /\ wk'.seen = x.seen /\ wk'.gaps = x.gaps
      /\ wk'.left = {} /\ wk'.pc = "saveGap" /\ wk'.gap = gap /\ wk'.todo = {} /\ NextBucket(x.seen) <= wk'.ck.barrier
  BY DetectedParts DEF Keeps
<1>2. Newest' = Newest
  BY DEF Newest
<1>3. clock' \in clock..MaxMinute /\ Newest \in Int /\ x.seen \in Int
  BY StoreFacts, GapNumbers DEF StoreOK, Workers, None
<1>4. StoreOK' /\ DecisionsOK'
  BY <1>1, <1>3, StoreStays, DecisionsStay
<1>5. PlaceOK'
  BY <1>1, <1>2, <1>3 DEF PlaceOK, Rests, Deciding
<1>6. GapOK' /\ TodoOK'
  BY <1>1, <1>2 DEF GapOK, TodoOK, NextBucket, BucketOf
<1>7. \A k \in DOMAIN bars' : k <= x.seen
  BY <1>3, StoreFacts
<1>8. HolesOK' /\ FreshOK'
  BY <1>1, <1>3, <1>4, <1>7, AllShielded
<1> QED
  BY <1>4, <1>5, <1>6, <1>8 DEF GapInv

(* The gaps of the horizon are repaired one after the other; nothing is decided at the start. *)
LEMMA NextGapKeeps == ASSUME GapInv, NextGap PROVE GapInv'
<1>1. /\ wk.pc = "gaps" /\ wk \in Workers /\ wk.boot /\ wk.ck.latest = Newest /\ wk.gap = {} /\ wk.left = {} /\ wk.todo = {}
      /\ (\A g \in wk.gaps : g # {} /\ g \subseteq 0..Newest) /\ wk.gaps \in SUBSET SUBSET Nat
      /\ Newest \in Int /\ Newest < clock /\ clock \in Nat
  BY StoreFacts DEF NextGap, At, GapInv, StoreOK, PlaceOK, GapOK, Rests, Deciding, Workers, None
<1>2. CASE wk.gaps = {}
  <2> DEFINE y == Evaluate(wk, None)
  <2>1. wk' = [y EXCEPT !.pc = "ready", !.boot = FALSE] /\ UNCHANGED <<clock, bars, ck, decisions>>
    BY <1>2 DEF NextGap, Goes
  <2>2. DOMAIN bars \subseteq 0..MaxMinute /\ MaxMinute \in Nat
    BY StoreFacts, GapNumbers DEF GapInv
  <2>3. /\ y \in Workers /\ Keeps(wk, y) /\ y.gap = wk.gap /\ y.ck.barrier = wk.ck.barrier
        /\ \/ y.todo = wk.todo
           \/ y.todo = {c \in Trailing(Raw(wk.ck.latest)) : ~wk.boot /\ (None # None => c = None) /\ c >= wk.ck.barrier}
    BY <1>1, <2>2, EvaluateParts
  <2> HIDE DEF y
  <2>4. y.todo = {}
    BY <1>1, <2>3
  <2>5. /\ wk' \in Workers /\ wk'.pc = "ready" /\ ~wk'.boot /\ wk'.ck = y.ck /\ wk'.gap = {} /\ wk'.todo = {}
        /\ wk'.left = {} /\ wk'.gaps = {} /\ wk'.ck.latest = wk.ck.latest
    BY <1>1, <1>2, <2>1, <2>3, <2>4 DEF Workers, PCs, Keeps
  <2>6. Newest' = Newest /\ wk.ck.barrier \in Nat
    BY <1>1, <2>1 DEF Newest, Workers, Checkpoints
  <2>7. PlaceOK' /\ GapOK' /\ TodoOK'
    BY <1>1, <2>5, <2>6 DEF PlaceOK, GapOK, TodoOK, Rests, Deciding
  <2>8. clock' \in clock..MaxMinute /\ DecisionsOK'
    BY <2>1, StoreFacts, GapNumbers, DecisionsStay DEF GapInv, StoreOK
  <2>9. wk.ck.barrier <= wk'.ck.barrier /\ wk'.gaps = wk.gaps /\ wk'.ck.latest = wk.ck.latest
    BY <1>2, <2>3, <2>5, <2>6
  <2> QED
    BY <1>1, <2>1, <2>5, <2>7, <2>8, <2>9, QuietKeeps DEF Deciding
<1>3. CASE wk.gaps # {}
  <2>1. PICK gap : gap = CHOOSE g \in wk.gaps : \A h \in wk.gaps : Min(g) <= Min(h)
    OBVIOUS
  <2>2. gap \in wk.gaps /\ gap \in SUBSET Nat
    BY <1>1, <1>3, <2>1, FirstGap
  <2> DEFINE x == [wk EXCEPT !.gaps = @ \ {gap}, !.seen = clock]
  <2>3. wk' = Detected(x, gap) /\ UNCHANGED <<clock, bars, ck, decisions>>
    BY <1>3, <2>1 DEF NextGap, Goes
  <2>4. /\ x \in Workers /\ x.ck = wk.ck /\ x.todo = {} /\ x.left = {} /\ x.boot = wk.boot /\ x.gaps \subseteq wk.gaps
        /\ x.seen = clock
    BY <1>1 DEF Workers
  <2> HIDE DEF x
  <2>5. x.ck.latest = Newest /\ Newest < x.seen /\ x.seen <= clock /\ gap # {} /\ gap \subseteq 0..Newest
    BY <1>1, <2>2, <2>4
  <2> QED
    BY <1>1, <2>2, <2>3, <2>4, <2>5, GapBegins DEF GapInv
<1> QED
  BY <1>2, <1>3

(* The gaps that the start finds are all there are: a minute before them is before every window to come. *)
LEMMA ScanKeeps == ASSUME GapInv, Scan PROVE GapInv'
<1>1. /\ wk.pc = "scan" /\ wk \in Workers /\ wk.boot /\ wk.ck \in Checkpoints /\ wk.ck.latest <= Newest
      /\ wk.ck.latest \in Nat \cup {None} /\ wk.gap = {} /\ wk.gaps = {} /\ wk.left = {} /\ wk.todo = {}
  BY DEF Scan, At, GapInv, StoreOK, PlaceOK, GapOK, Rests, Deciding, Workers, Checkpoints
<1>2. UNCHANGED <<clock, bars, ck, decisions>> /\ Newest' = Newest
  BY DEF Scan, Goes, Newest
<1>3. clock' \in clock..MaxMinute /\ DecisionsOK'
  BY <1>2, StoreFacts, GapNumbers, DecisionsStay DEF GapInv, StoreOK
<1>4. CASE DOMAIN bars = {}
  <2>1. wk' = [wk EXCEPT !.pc = "ready", !.boot = FALSE]
    BY <1>4 DEF Scan, Goes
  <2>2. /\ wk' \in Workers /\ wk'.pc = "ready" /\ ~wk'.boot /\ wk'.ck = wk.ck /\ wk'.gap = {} /\ wk'.gaps = {}
        /\ wk'.left = {} /\ wk'.todo = {}
    BY <1>1, <2>1 DEF Workers, PCs
  <2>3. wk.ck.latest = Newest
    BY <1>1, <1>4 DEF Newest, None
  <2>4. StoreOK'
    BY <1>1, <1>2, <1>3, <2>2, StoreStays DEF GapInv
  <2>5. PlaceOK' /\ GapOK' /\ TodoOK'
    BY <1>1, <1>2, <2>2, <2>3 DEF PlaceOK, GapOK, TodoOK, Rests, Deciding, None
  <2>6. HolesOK' /\ FreshOK'
    BY <1>2, <1>4 DEF HolesOK, FreshOK
  <2> QED
    BY <1>3, <2>4, <2>5, <2>6 DEF GapInv
<1>5. CASE DOMAIN bars # {}
  <2> DEFINE missing == {m \in RawFrom(Newest)..Newest : Regular(m) /\ m \notin DOMAIN bars}
             run(m) == {k \in missing : \A j \in Min({k, m})..Max({k, m}) : j \in missing}
             c == [wk.ck EXCEPT !.latest = Newest]
  <2>1. Newest \in Nat /\ Newest = Max(DOMAIN bars)
    BY <1>5, StoreFacts DEF GapInv, Newest, None
  <2>2. StartupGaps(Newest) = {run(m) : m \in missing}
    BY DEF StartupGaps
  <2>3. wk' = [wk EXCEPT !.pc = "gaps", !.ck = c, !.gaps = StartupGaps(Newest)]
    <3>1. wk' = [wk EXCEPT !.pc = "gaps", !.ck.latest = Max({@, Newest}), !.gaps = StartupGaps(Newest)]
      BY <1>5, <2>1 DEF Scan, Goes
    <3>2. Max({wk.ck.latest, Newest}) = Newest
      BY <1>1, <2>1, MaxOfTwo DEF None
    <3> QED
      BY <1>1, <3>1, <3>2 DEF Workers
  <2>4. \A m \in missing : m \in run(m)
    <3>1. SUFFICES ASSUME NEW m \in missing PROVE \A j \in Min({m, m})..Max({m, m}) : j \in missing
      OBVIOUS
    <3>2. m \in Nat
      BY GapNumbers DEF Regular
    <3>3. Min({m, m}) = m /\ Max({m, m}) = m
      BY <3>2, MaxOfTwo, MinIsLeast
    <3> QED
      BY <3>2, <3>3
  <2>5. missing \subseteq 0..Newest
    BY <2>1, GapNumbers DEF Regular
  <2>6. \A g \in StartupGaps(Newest) : g # {} /\ g \subseteq 0..Newest
    BY <2>2, <2>4, <2>5
  <2>7. c \in Checkpoints /\ c.latest = Newest /\ c.barrier = wk.ck.barrier
    BY <1>1, <2>1 DEF Checkpoints
  <2>8. StartupGaps(Newest) \in SUBSET SUBSET Nat
    BY <2>6
  <2>9. /\ wk' \in Workers /\ wk'.pc = "gaps" /\ wk'.boot /\ wk'.ck = c /\ wk'.ck.latest = Newest /\ wk'.gap = {}
        /\ wk'.left = {} /\ wk'.todo = {} /\ wk'.gaps = StartupGaps(Newest)
    <3> HIDE DEF c
    <3> QED
      BY <1>1, <2>3, <2>7, <2>8 DEF Workers, PCs
  <2>10. StoreOK'
    BY <1>1, <1>2, <1>3, <2>9, StoreStays DEF GapInv
  <2>11. PlaceOK' /\ GapOK' /\ TodoOK'
    BY <1>2, <2>1, <2>6, <2>9 DEF PlaceOK, GapOK, TodoOK, Rests, Deciding
  <2>12. FreshOK'
    BY <2>9 DEF FreshOK, Deciding
  <2>13. HolesOK'
    <3>1. SUFFICES ASSUME NEW m \in Session \ DOMAIN bars, NEW k \in DOMAIN bars, m < k
                   PROVE  Shielded(m)' \/ m \in UNION wk'.gaps
      BY <1>2 DEF HolesOK
    <3>2. m \in Nat /\ k \in Nat /\ k <= Newest /\ RawFrom(Newest) \in Int /\ BucketOf(m) \in Int /\ BucketOf(m) <= m
      BY <2>1, GapNumbers, StoreFacts, BucketBounds DEF GapInv, RawFrom
    <3>3. CASE m < RawFrom(Newest)
      <4>1. BucketOf(m) < RawFrom(Newest)
        BY <3>2, <3>3
      <4> QED
        BY <2>9, <4>1 DEF Shielded, RawFrom, BucketOf
    <3>4. CASE m >= RawFrom(Newest)
      <4>1. m \in missing
        BY <2>1, <3>1, <3>2, <3>4 DEF Regular
      <4> HIDE DEF run, missing
      <4>2. run(m) \in wk'.gaps /\ m \in run(m)
        BY <2>2, <2>4, <2>9, <4>1
      <4> QED
        BY <4>2
    <3> QED
      BY <3>2, <3>3, <3>4
  <2> QED
    BY <1>3, <2>10, <2>11, <2>12, <2>13 DEF GapInv
<1> QED
  BY <1>4, <1>5

----------------------------------------------------------------------------
(* The bar that came.                                                       *)

(* The checkpoint has the bar: it shows a gap, or its bucket may be decided. *)
LEMMA SaveLatestKeeps == ASSUME GapInv, SaveLatest PROVE GapInv'
<1> DEFINE gap == LiveGap(wk.prior, wk.bar)
<1>1. /\ wk.pc = "saveLatest" /\ wk \in Workers /\ ~wk.boot /\ wk.ck.latest = Newest /\ wk.gap = {} /\ wk.left = {}
      /\ wk.todo = {} /\ wk.gaps = {} /\ wk.bar \in Nat /\ wk.bar \in DOMAIN bars /\ wk.ck.latest < wk.seen /\ wk.seen <= clock
  BY DEF SaveLatest, At, GapInv, StoreOK, PlaceOK, GapOK, Rests, Deciding
<1>2. Newest \in Int /\ wk.bar <= Newest /\ wk.ck.barrier \in Nat
  BY <1>1, StoreFacts DEF GapInv, None, Workers, Checkpoints
<1>3. ck' = wk.ck /\ UNCHANGED <<clock, bars, decisions>>
  BY DEF SaveLatest, Saves
<1>4. CASE gap # {}
  <2>1. wk' = Detected(wk, gap)
    BY <1>4 DEF SaveLatest, Saves
  <2>2. gap \subseteq 0..Newest
    <3>1. SUFFICES ASSUME NEW m \in gap PROVE m \in 0..Newest
      OBVIOUS
    <3>2. m \in Session /\ m < wk.bar
      BY <1>1, <3>1, GapNumbers DEF LiveGap, Regular
    <3> QED
      BY <1>1, <1>2, <3>2, GapNumbers
  <2> HIDE DEF gap
  <2>3. gap \in SUBSET Nat
    BY <1>2, <2>2
  <2> QED
    BY <1>1, <1>3, <1>4, <2>1, <2>2, <2>3, GapBegins DEF GapInv
<1>5. CASE gap = {}
  <2> DEFINE b == BucketOf(wk.bar)
             y == Evaluate(wk, b)
             S == {c \in Trailing(Raw(wk.ck.latest)) : ~wk.boot /\ (b # None => c = b) /\ c >= wk.ck.barrier}
  <2>1. wk' = [y EXCEPT !.pc = "decide"]
    BY <1>5 DEF SaveLatest, Saves
  <2>2. DOMAIN bars \subseteq 0..MaxMinute /\ MaxMinute \in Nat
    BY StoreFacts, GapNumbers DEF GapInv
  <2>3. /\ y \in Workers /\ Keeps(wk, y) /\ y.gap = wk.gap /\ y.ck.barrier = wk.ck.barrier /\ (y.todo = wk.todo \/ y.todo = S)
    BY <1>1, <2>2, EvaluateParts
  <2>4. y.todo \subseteq S
    BY <1>1, <2>3
  <2> HIDE DEF y
  <2>5. /\ wk' \in Workers /\ wk'.pc = "decide" /\ wk'.boot = wk.boot /\ wk'.ck = y.ck /\ wk'.gap = {} /\ wk'.todo = y.todo
        /\ wk'.left = {} /\ wk'.gaps = {} /\ wk'.bar = wk.bar
    BY <1>1, <2>1, <2>3 DEF Workers, PCs, Keeps
  <2>6. wk'.ck.latest = wk.ck.latest /\ wk'.ck.barrier = wk.ck.barrier
    BY <2>3, <2>5 DEF Keeps
  <2>7. Newest' = Newest
    BY <1>3 DEF Newest
  <2>8. PlaceOK' /\ GapOK'
    BY <1>1, <1>2, <2>5, <2>6, <2>7 DEF PlaceOK, GapOK, Rests, Deciding
  <2>9. TodoOK'
    <3>1. b \in Nat /\ b # None
      BY <1>1, BucketNat DEF None
    <3>2. \A c \in S : c = b /\ c \in Trailing(Raw(wk.ck.latest)) /\ c >= wk.ck.barrier
      BY <3>1
    <3> HIDE DEF S, b
    <3>3. \A c \in S : wk.bar \in Nat /\ wk.bar \in DOMAIN bars /\ c = BucketOf(wk.bar)
                       /\ c \in Trailing(Raw(wk.ck.latest)) /\ c >= wk.ck.barrier
      BY <1>1, <3>2 DEF b
    <3>4. wk'.pc \notin {"dispatch", "saveDecision"} /\ wk'.todo \subseteq S /\ wk'.bar = wk.bar
      BY <2>4, <2>5
    <3> QED
      BY <1>3, <2>6, <3>3, <3>4, TodoStays
  <2>10. clock' \in clock..MaxMinute /\ DecisionsOK'
    BY <1>3, StoreFacts, GapNumbers, DecisionsStay DEF GapInv, StoreOK
  <2>11. wk.ck.barrier <= wk'.ck.barrier
    BY <1>2, <2>6
  <2> QED
    BY <1>1, <1>3, <1>5, <2>5, <2>6, <2>8, <2>9, <2>10, <2>11, QuietKeeps
<1> QED
  BY <1>4, <1>5

----------------------------------------------------------------------------
(* A bar is stored.                                                         *)

(* The store after recordMarketBar(). *)
LEMMA StoreGrows ==
  ASSUME StoreOK, NEW t \in Nat, t < clock, NEW v, bars' = Recorded(t, v), clock' = clock, ck' = ck, wk' \in Workers
  PROVE  /\ StoreOK' /\ DOMAIN bars' = DOMAIN bars \cup {t} /\ Newest' = (IF Newest >= t THEN Newest ELSE t)
         /\ (t \in DOMAIN bars => bars' = bars)
<1>1. DOMAIN bars' = DOMAIN bars \cup {t} /\ bars' = [k \in DOMAIN bars' |-> bars'[k]]
  BY DEF Recorded
<1>2. /\ clock \in Nat /\ clock <= MaxMinute /\ MaxMinute \in Nat /\ DOMAIN bars \in SUBSET (0..MaxMinute)
      /\ (\A k \in DOMAIN bars : k \in Nat /\ k < clock /\ k <= Newest)
      /\ Newest \in Nat \cup {None} /\ (Newest = None <=> DOMAIN bars = {}) /\ (Newest # None => Newest \in DOMAIN bars)
  BY StoreFacts, GapNumbers DEF StoreOK
<1>3. DOMAIN bars' \subseteq 0..(clock' - 1) /\ DOMAIN bars' \in SUBSET (0..MaxMinute) /\ DOMAIN bars' # {}
  BY <1>1, <1>2
<1>4. Newest' \in DOMAIN bars' /\ \A k \in DOMAIN bars' : k <= Newest'
  <2>1. Newest' = Max(DOMAIN bars')
    BY <1>3 DEF Newest
  <2> QED
    BY <1>2, <1>3, <2>1, MaxIsGreatest
<1>5. Newest' = (IF Newest >= t THEN Newest ELSE t)
  <2> DEFINE n == Newest'
  <2>1. n \in Nat /\ (n \in DOMAIN bars \/ n = t) /\ t <= n /\ \A k \in DOMAIN bars : k <= n
    BY <1>1, <1>2, <1>4
  <2> HIDE DEF n
  <2>2. n = (IF Newest >= t THEN Newest ELSE t)
    BY <1>2, <2>1 DEF None
  <2> QED
    BY <2>2 DEF n
<1>6. Newest <= Newest'
  BY <1>2, <1>5 DEF None
<1>7. ck' \in Checkpoints /\ ck'.latest <= Newest'
  <2>1. ck.latest \in Int /\ ck.latest <= Newest /\ ck \in Checkpoints
    BY DEF StoreOK, Checkpoints, None
  <2> DEFINE n == Newest'
  <2>2. n \in Int
    BY <1>2, <1>5 DEF None
  <2> QED
    BY <1>2, <1>6, <2>1, <2>2 DEF None
<1>8. StoreOK'
  BY <1>1, <1>3, <1>7 DEF StoreOK
<1>9. t \in DOMAIN bars => bars' = bars
  BY DEF Recorded, StoreOK
<1> QED
  BY <1>1, <1>5, <1>8, <1>9

(* A bar of the gap is stored, below the newest bar and the barrier, or it contradicts the store. *)
LEMMA BackfillKeeps == ASSUME GapInv, Backfill PROVE GapInv'
<1>1. PICK m : m = Min(wk.left)
  OBVIOUS
<1>2. /\ wk.pc = "backfill" /\ wk.left # {} /\ bars' = Recorded(m, "a") /\ UNCHANGED <<clock, ck, decisions>>
      /\ wk' = (IF Clashes(m, "a") THEN Rebuilding(wk) ELSE [wk EXCEPT !.left = wk.left \ {m}])
  BY <1>1 DEF Backfill, At
<1>3. /\ wk \in Workers /\ wk.gap # {} /\ wk.gap \subseteq 0..wk.ck.latest /\ wk.left \subseteq wk.gap /\ wk.todo = {}
      /\ wk.ck.latest = Newest /\ Newest < wk.seen /\ wk.seen <= clock /\ NextBucket(wk.seen) <= wk.ck.barrier
      /\ (wk.boot \/ wk.gaps = {})
  BY <1>2 DEF GapInv, GapOK, PlaceOK, StoreOK
<1>4. wk.left \in SUBSET Nat /\ wk.seen \in Nat /\ wk.ck.barrier \in Nat /\ clock \in Nat /\ Newest \in Int
  BY <1>3, StoreFacts DEF Workers, Checkpoints, GapInv, None
<1>5. m \in Nat /\ m <= Newest /\ m < clock
  <2>1. m \in wk.left
    BY <1>1, <1>2, <1>4, MinIsLeast
  <2>2. m \in 0..Newest
    BY <1>3, <2>1
  <2> QED
    BY <1>3, <1>4, <2>2
<1>6. /\ wk' \in Workers /\ wk'.pc \in {"backfill", "saveRebuilding"} /\ wk'.boot = wk.boot /\ wk'.ck.latest = wk.ck.latest
      /\ wk'.ck.barrier = wk.ck.barrier /\ wk'.seen = wk.seen /\ wk'.gaps = wk.gaps /\ wk'.gap = wk.gap
      /\ wk'.left \subseteq wk.gap /\ wk'.todo = {}
  <2>1. CASE wk' = Rebuilding(wk)
    BY <1>3, <2>1, RebuildingParts DEF Keeps
  <2>2. CASE wk' = [wk EXCEPT !.left = wk.left \ {m}]
    BY <1>2, <1>3, <2>2 DEF Workers
  <2> QED
    BY <1>2, <2>1, <2>2
<1>7. StoreOK' /\ DOMAIN bars' = DOMAIN bars \cup {m} /\ Newest' = (IF Newest >= m THEN Newest ELSE m)
  BY <1>2, <1>4, <1>5, <1>6, StoreGrows DEF GapInv
<1>8. Newest' = Newest
  BY <1>4, <1>5, <1>7
<1>9. DecisionsOK'
  BY <1>2, <1>7, DecisionsStay DEF GapInv
<1>10. PlaceOK'
  BY <1>3, <1>4, <1>6, <1>8 DEF PlaceOK, Rests, Deciding
<1>11. GapOK' /\ TodoOK'
  <2>1. \A g \in wk.gaps : g # {} /\ g \subseteq 0..wk.ck.latest
    BY DEF GapInv, GapOK
  <2> QED
    BY <1>2, <1>3, <1>6, <2>1 DEF GapOK, TodoOK, NextBucket, BucketOf
<1>12. HolesOK' /\ FreshOK'
  <2>1. \A k \in DOMAIN bars' : k <= wk.seen
    <3>1. \A k \in DOMAIN bars : k \in Nat /\ k <= Newest
      BY StoreFacts DEF GapInv
    <3> QED
      BY <1>3, <1>4, <1>5, <1>7, <3>1
  <2> QED
    BY <1>3, <1>4, <1>6, <1>7, <2>1, AllShielded
<1> QED
  BY <1>7, <1>9, <1>10, <1>11, <1>12 DEF GapInv

(* Nothing is stored between an earlier day, or the beginning, and a minute: its bucket is never warm. *)
LEMMA ColdBehind ==
  ASSUME NEW m \in Session, NEW p \in Nat \cup {None}, clock' \in Nat, m < clock', wk'.pc # "record",
         \A j \in Int : p < j /\ j < m => j \notin DOMAIN bars',
         p # None => \E d \in DayStarts : p < d /\ d <= m
  PROVE  Cold(BucketOf(m))'
<1> DEFINE b == BucketOf(m)
<1>1. m \in Nat /\ b \in Nat /\ b <= m /\ m < b + Width /\ Width \in Nat /\ MaxLate \in Nat
  BY GapNumbers, BucketBounds, BucketNat
<1>2. First(b) \in Int /\ First(b) + MaxLate < b
  BY <1>1, WindowIsLong DEF First
<1>3. \A j \in Int : b <= j /\ j <= m => j \in Session
  <2>1. Minutes(b) \subseteq Session
    BY SessionBounds
  <2> QED
    BY <1>1, <2>1 DEF Minutes
<1>4. \E j \in First(b)..(b - 1) : j \notin Session \/ (j \notin DOMAIN bars' /\ clock' > j + 1 + MaxLate)
  <2> HIDE DEF b
  <2> DEFINE f == First(b)
  <2>1. f \in f..(b - 1) /\ f < m
    BY <1>1, <1>2
  <2>2. CASE f > p
    <3>1. f \notin DOMAIN bars' /\ clock' > f + 1 + MaxLate
      <4> HIDE DEF f
      <4>1. f \in Int /\ f + MaxLate < b
        BY <1>2 DEF f
      <4> QED
        BY <1>1, <2>1, <2>2, <4>1 DEF None
    <3> QED
      BY <2>1, <3>1
  <2>3. CASE f <= p /\ p # None
    <3>1. PICK d \in DayStarts : p < d /\ d <= m
      BY <2>3
    <3>2. d \notin Session /\ d \in Nat
      BY SessionBounds
    <3>3. d \in f..(b - 1)
      BY <1>1, <1>2, <1>3, <2>3, <3>1, <3>2 DEF None
    <3> QED
      BY <3>2, <3>3
  <2>4. CASE f <= p /\ p = None
    <3>1. f \notin Session
      BY <1>2, <2>4, GapNumbers DEF None
    <3> QED
      BY <2>1, <3>1
  <2> QED
    BY <1>2, <2>2, <2>3, <2>4 DEF None
<1> QED
  BY <1>4 DEF Cold, Gone, First, BucketOf

(* What is the same, and what grows, when a bar that came is stored. *)
LEMMA BarIsNew ==
  ASSUME GapInv, Record, wk.bar \notin DOMAIN bars
  PROVE  /\ StoreOK' /\ DecisionsOK' /\ DOMAIN bars' = DOMAIN bars \cup {wk.bar} /\ clock' = clock
         /\ wk.pc = "record" /\ wk.bar \in Nat /\ wk.bar < wk.seen /\ wk.seen <= clock /\ clock \in Nat /\ wk.seen \in Nat
         /\ wk.ck.latest = Newest /\ Newest < wk.seen /\ wk.gap = {} /\ wk.gaps = {} /\ wk.left = {} /\ wk.todo = {} /\ ~wk.boot
         /\ wk' \in Workers /\ wk'.pc = "saveLatest" /\ wk'.bar = wk.bar /\ wk'.prior = Newest /\ wk'.seen = wk.seen
         /\ wk'.gap = {} /\ wk'.gaps = {} /\ wk'.left = {} /\ wk'.todo = {} /\ ~wk'.boot
         /\ wk'.ck.latest = (IF Newest >= wk.bar THEN Newest ELSE wk.bar) /\ Newest' = wk'.ck.latest
         /\ wk'.ck.barrier = wk.ck.barrier
<1>1. /\ wk.pc = "record" /\ wk \in Workers /\ bars' = Recorded(wk.bar, wk.val) /\ UNCHANGED <<clock, ck, decisions>>
      /\ wk' = [wk EXCEPT !.pc = "saveLatest", !.prior = wk.ck.latest, !.ck.latest = Max({@, wk.bar})]
  BY DEF Record, At, Clashes, GapInv, StoreOK
<1>2. /\ wk.bar \in Nat /\ wk.bar < wk.seen /\ wk.seen <= clock /\ wk.ck.latest = Newest /\ Newest < wk.seen
      /\ wk.gap = {} /\ wk.gaps = {} /\ wk.left = {} /\ wk.todo = {} /\ ~wk.boot
  BY <1>1 DEF GapInv, PlaceOK, GapOK, Rests, Deciding
<1>3. Newest \in Nat \cup {None} /\ clock \in Nat /\ wk.seen \in Nat /\ wk.ck \in Checkpoints
  BY <1>1, StoreFacts DEF GapInv, Workers
<1> DEFINE top == IF Newest >= wk.bar THEN Newest ELSE wk.bar
           c == [wk.ck EXCEPT !.latest = top]
<1>4. top \in Nat \cup {None} /\ Max({Newest, wk.bar}) = top
  <2>1. Max({Newest, wk.bar}) = top
    BY <1>2, <1>3, MaxOfTwo DEF None
  <2> QED
    BY <1>2, <1>3, <2>1
<1>5. wk' = [wk EXCEPT !.pc = "saveLatest", !.prior = Newest, !.ck = c]
  <2> HIDE DEF top
  <2> QED
    BY <1>1, <1>2, <1>4 DEF Workers
<1>6. c \in Checkpoints /\ c.latest = top /\ c.barrier = wk.ck.barrier
  <2> HIDE DEF top
  <2> QED
    BY <1>3, <1>4 DEF Checkpoints
<1>7. /\ wk' \in Workers /\ wk'.pc = "saveLatest" /\ wk'.bar = wk.bar /\ wk'.prior = Newest /\ wk'.seen = wk.seen
      /\ wk'.gap = {} /\ wk'.gaps = {} /\ wk'.left = {} /\ wk'.todo = {} /\ ~wk'.boot /\ wk'.ck = c
  <2>1. wk \in Workers /\ c \in Checkpoints /\ Newest \in Nat \cup {None} /\ "saveLatest" \in PCs
    BY <1>1, <1>3, <1>6 DEF PCs
  <2> HIDE DEF c
  <2>2. wk' \in Workers
    BY <1>5, <2>1 DEF Workers
  <2> QED
    BY <1>2, <1>5, <2>1, <2>2 DEF Workers
<1>8. StoreOK' /\ DOMAIN bars' = DOMAIN bars \cup {wk.bar} /\ Newest' = top
  <2>1. wk.bar < clock
    BY <1>2, <1>3
  <2> QED
    BY <1>1, <1>2, <1>7, <2>1, StoreGrows DEF GapInv
<1>9. DecisionsOK'
  BY <1>1, <1>8, DecisionsStay DEF GapInv
<1> HIDE DEF c
<1> QED
  BY <1>1, <1>2, <1>3, <1>6, <1>7, <1>8, <1>9

(* What was of no more use before a bar came is of none with it: the bar was not given up. *)
LEMMA ShieldsStay ==
  ASSUME GapInv, Record, wk.bar \notin DOMAIN bars
  PROVE  \A m \in Int : (Gone(m) => Gone(m)') /\ (Shielded(m) => Shielded(m)') /\ (LaterDay(m) => LaterDay(m)')
<1>0. /\ DOMAIN bars' = DOMAIN bars \cup {wk.bar} /\ clock' = clock /\ wk.pc = "record" /\ wk'.pc = "saveLatest"
      /\ wk'.ck.barrier = wk.ck.barrier /\ wk.ck.latest \in Int /\ wk'.ck.latest \in Int /\ wk.ck.latest <= wk'.ck.latest
  <2>1. Newest \in Int /\ wk.bar \in Nat
    BY BarIsNew, StoreFacts DEF GapInv, None
  <2> QED
    BY <2>1, BarIsNew
<1>1. ASSUME NEW m \in Int, Gone(m) PROVE Gone(m)' /\ m # wk.bar
  BY <1>0, <1>1 DEF Gone
<1>2. ASSUME NEW b \in Int, Cold(b) PROVE Cold(b)'
  <2>1. PICK m \in First(b)..(b - 1) : m \notin Session \/ (m \notin DOMAIN bars /\ Gone(m))
    BY <1>2 DEF Cold
  <2>2. First(b) \in Int
    BY GapNumbers DEF First
  <2>3. m \in Int
    BY <2>1, <2>2
  <2>4. m \notin Session \/ (m \notin DOMAIN bars' /\ Gone(m)')
    BY <1>0, <1>1, <2>1, <2>3
  <2> QED
    BY <2>4 DEF Cold, First
<1>3. ASSUME NEW m \in Int, Shielded(m) PROVE Shielded(m)'
  <2>1. BucketOf(m) \in Int /\ RawFrom(wk.ck.latest) \in Int /\ RawFrom(wk'.ck.latest) \in Int
        /\ RawFrom(wk.ck.latest) <= RawFrom(wk'.ck.latest)
    BY <1>0, BucketBounds, GapNumbers DEF RawFrom
  <2>2. CASE BucketOf(m) < wk.ck.barrier
    BY <1>0, <2>2 DEF Shielded, BucketOf
  <2>3. CASE Cold(BucketOf(m))
    <3>1. Cold(BucketOf(m))'
      BY <1>2, <2>1, <2>3 DEF BucketOf
    <3> QED
      BY <3>1 DEF Shielded
  <2>4. CASE BucketOf(m) < RawFrom(wk.ck.latest)
    <3>1. BucketOf(m) < RawFrom(wk'.ck.latest)
      BY <2>1, <2>4
    <3> QED
      BY <3>1 DEF Shielded, BucketOf, RawFrom
  <2> QED
    BY <1>3, <2>2, <2>3, <2>4 DEF Shielded
<1>4. ASSUME NEW m \in Int, LaterDay(m) PROVE LaterDay(m)'
  BY <1>0, <1>4 DEF LaterDay, SameDay
<1> QED
  BY <1>1, <1>3, <1>4

(* A bar that came is stored: what it skips is a gap, and what it does not show to be one is of no more use. *)
LEMMA HolesOfNewBar == ASSUME GapInv, Record, wk.bar \notin DOMAIN bars PROVE HolesOK'
<1> DEFINE t == wk.bar
           p == Newest
<1>1. /\ DOMAIN bars' = DOMAIN bars \cup {t} /\ clock' = clock /\ wk.pc = "record" /\ wk'.pc = "saveLatest" /\ wk'.bar = t
      /\ wk'.prior = p /\ wk.gaps = {} /\ t \in Nat /\ t < clock /\ clock \in Nat
  <2>1. wk.bar < wk.seen /\ wk.seen <= clock /\ wk.seen \in Nat /\ wk.bar \in Nat /\ clock \in Nat
    BY BarIsNew
  <2>2. wk.bar < clock
    BY <2>1
  <2> QED
    BY <2>1, <2>2, BarIsNew
<1>2. /\ p \in Nat \cup {None} /\ p < clock /\ (\A j \in DOMAIN bars : j \in Nat /\ j <= p)
      /\ (p # None => p \in DOMAIN bars)
  BY StoreFacts DEF GapInv
<1> HIDE DEF t, p
<1> SUFFICES ASSUME NEW m \in Session, m \notin DOMAIN bars', NEW k \in DOMAIN bars', m < k, SameDay(m, k)
             PROVE  \/ Shielded(m)' \/ Gone(m)'
                    \/ m \in LiveGap(p, t)
                    \/ k \notin Session /\ LaterDay(m)'
  BY <1>1 DEF HolesOK, SameDay, LiveGap, Regular
<1>3. m \in Nat /\ m \notin DOMAIN bars
  BY <1>1, GapNumbers
<1>4. ASSUME NEW j \in DOMAIN bars, m < j, SameDay(m, j)
      PROVE  Shielded(m)' \/ Gone(m)' \/ (j \notin Session /\ LaterDay(m) /\ LaterDay(m)')
  <2>1. Shielded(m) \/ Gone(m) \/ (j \notin Session /\ LaterDay(m))
    BY <1>1, <1>3, <1>4 DEF GapInv, HolesOK
  <2>2. (Gone(m) => Gone(m)') /\ (Shielded(m) => Shielded(m)') /\ (LaterDay(m) => LaterDay(m)')
    <3>1. wk.bar \notin DOMAIN bars /\ m \in Int
      BY <1>3
    <3> QED
      BY <3>1, ShieldsStay
  <2> QED
    BY <2>1, <2>2
<1>5. CASE k \in DOMAIN bars
  BY <1>4, <1>5
<1>6. ASSUME p # None, m < p, SameDay(m, p) PROVE Shielded(m)' \/ Gone(m)'
  <2>1. ~LaterDay(m)
    <3>1. SUFFICES ASSUME NEW j \in DOMAIN bars, j > m, ~SameDay(m, j) PROVE FALSE
      BY DEF LaterDay
    <3>2. j \in Nat /\ j <= p /\ p \in Nat
      BY <1>2, <1>6
    <3>3. (m + 1)..j \subseteq (m + 1)..p
      BY <1>3, <3>2
    <3> QED
      BY <1>6, <3>1, <3>3 DEF SameDay
  <2>2. p \in DOMAIN bars
    BY <1>2, <1>6
  <2> QED
    BY <1>4, <1>6, <2>1, <2>2
<1>7. CASE k = t /\ t > p
  <2>1. CASE m < p
    <3>1. p # None /\ p \in Nat
      BY <1>2, <1>3, <2>1 DEF None
    <3>2. (m + 1)..p \subseteq (m + 1)..t
      BY <1>1, <1>3, <1>7, <3>1
    <3> QED
      BY <1>6, <1>7, <2>1, <3>1, <3>2 DEF SameDay
  <2>2. CASE m > p /\ p # None /\ SameDay(p, t)
    <3>1. p \in Nat /\ p < m /\ m < t
      BY <1>2, <1>7, <2>2
    <3>2. m \in (p + 1)..(t - 1)
      BY <1>1, <1>3, <3>1
    <3>3. ~(p = None \/ t <= p + 1)
      BY <1>1, <1>3, <2>2, <3>1
    <3>4. SameDay(p, m)
      <4>1. (p + 1)..m \subseteq (p + 1)..t
        BY <1>1, <1>3, <3>1
      <4> QED
        BY <2>2, <4>1 DEF SameDay
    <3>5. SameDay(p, t) /\ Regular(m)
      BY <2>2 DEF Regular
    <3> QED
      BY <3>2, <3>3, <3>4, <3>5 DEF LiveGap
  <2>3. CASE m > p /\ ~(p # None /\ SameDay(p, t))
    <3>1. p # None => \E d \in DayStarts : p < d /\ d <= m
      <4>1. SUFFICES ASSUME p # None PROVE \E d \in DayStarts : p < d /\ d <= m
        OBVIOUS
      <4>2. PICK d \in DayStarts : d \in (p + 1)..t
        BY <2>3, <4>1 DEF SameDay
      <4>3. d \notin (m + 1)..t
        BY <1>7, <4>2 DEF SameDay
      <4>4. p \in Nat /\ d \in Nat
        BY <1>2, <4>1, SessionBounds
      <4> QED
        BY <1>1, <1>3, <4>2, <4>3, <4>4
    <3>2. \A j \in Int : p < j /\ j < m => j \notin DOMAIN bars'
      BY <1>1, <1>2, <1>3, <1>7 DEF None
    <3>3. clock' \in Nat /\ m < clock' /\ wk'.pc # "record"
      BY <1>1, <1>3, <1>7
    <3>4. Cold(BucketOf(m))'
      BY <1>2, <3>1, <3>2, <3>3, ColdBehind
    <3> QED
      BY <3>4 DEF Shielded
  <2>4. m # p
    BY <1>2, <1>3 DEF None
  <2> QED
    BY <1>2, <1>3, <2>1, <2>2, <2>3, <2>4 DEF None
<1>8. CASE k = t /\ ~(t > p)
  <2>1. p \in Nat /\ p # None /\ t <= p /\ m < t /\ p \in DOMAIN bars
    BY <1>1, <1>2, <1>8 DEF None
  <2>2. CASE SameDay(m, p)
    BY <1>3, <1>6, <2>1, <2>2, <1>1
  <2>3. CASE ~SameDay(m, p)
    <3>1. m < p
      BY <1>1, <1>3, <2>1
    <3>2. CASE t \notin Session
      <4>1. LaterDay(m)'
        BY <1>1, <2>1, <2>3, <3>1 DEF LaterDay, SameDay
      <4> QED
        BY <1>8, <3>2, <4>1
    <3>3. CASE t \in Session
      <4>1. PICK d \in DayStarts : d \in (m + 1)..p
        BY <2>3 DEF SameDay
      <4>2. d \in Nat /\ d \notin (m + 1)..t
        BY <1>8, <4>1, SessionBounds DEF SameDay
      <4>3. t < d /\ d <= p
        BY <1>1, <1>3, <2>1, <4>1, <4>2
      <4>4. d - t >= MaxLate
        BY <3>3, <4>3, SessionBounds
      <4>5. clock' > m + 1 + MaxLate
        BY <1>1, <1>2, <1>3, <2>1, <4>2, <4>3, <4>4, GapNumbers
      <4> QED
        BY <1>1, <4>5 DEF Gone
    <3> QED
      BY <3>2, <3>3
  <2> QED
    BY <2>2, <2>3
<1> QED
  BY <1>1, <1>5, <1>7, <1>8

(* A bar that came is stored, is known already, or contradicts the store. *)
LEMMA RecordKeeps == ASSUME GapInv, Record PROVE GapInv'
<1>1. /\ wk.pc = "record" /\ wk \in Workers /\ wk.bar \in Nat /\ UNCHANGED <<clock, ck, decisions>>
      /\ bars' = Recorded(wk.bar, wk.val)
  BY DEF Record, At, GapInv, StoreOK, PlaceOK
<1>2. wk.bar \in DOMAIN bars => bars' = bars
  BY <1>1 DEF Recorded, GapInv, StoreOK
<1>3. clock' \in clock..MaxMinute
  BY <1>1, StoreFacts, GapNumbers DEF GapInv, StoreOK
<1>4. CASE Clashes(wk.bar, wk.val)
  <2>1. wk' = Rebuilding(wk) /\ bars' = bars
    BY <1>2, <1>4 DEF Record, Clashes
  <2>2. /\ wk' \in Workers /\ Keeps(wk, wk') /\ wk'.pc = "saveRebuilding" /\ wk'.gap = wk.gap /\ wk'.todo = wk.todo
        /\ wk'.ck.barrier = wk.ck.barrier
    BY <1>1, <2>1, RebuildingParts
  <2>3. Newest' = Newest /\ wk.ck.barrier \in Nat
    BY <1>1, <2>1 DEF Newest, Workers, Checkpoints
  <2>4. wk.gap = {} /\ wk.todo = {} /\ ~wk.boot /\ wk.gaps = {} /\ wk.ck.latest = Newest /\ wk.left = {}
    BY <1>1 DEF GapInv, PlaceOK, GapOK, Rests, Deciding
  <2>5. Newest \in Int
    BY StoreFacts DEF GapInv, None
  <2>6. PlaceOK' /\ GapOK' /\ TodoOK'
    BY <2>2, <2>3, <2>4, <2>5 DEF Keeps, PlaceOK, GapOK, TodoOK, Rests, Deciding
  <2>7. DecisionsOK'
    BY <1>1, <2>1, DecisionsStay DEF GapInv
  <2>8. wk.ck.barrier <= wk'.ck.barrier
    BY <2>2, <2>3
  <2> QED
    BY <1>1, <1>3, <2>1, <2>2, <2>6, <2>7, <2>8, QuietKeeps DEF Keeps, Deciding
<1>5. CASE ~Clashes(wk.bar, wk.val) /\ wk.bar \in DOMAIN bars
  <2>1. wk' = Resting(wk)
    BY <1>5 DEF Record
  <2> QED
    BY <1>1, <1>2, <1>5, <2>1, WorkEnds
<1>6. CASE wk.bar \notin DOMAIN bars
  <2>1. /\ StoreOK' /\ DecisionsOK' /\ DOMAIN bars' = DOMAIN bars \cup {wk.bar} /\ wk.gaps = {} /\ clock' = clock
        /\ wk'.pc = "saveLatest" /\ wk'.bar = wk.bar /\ wk'.gap = {} /\ wk'.gaps = {} /\ wk'.left = {} /\ wk'.todo = {}
        /\ ~wk'.boot /\ Newest' = wk'.ck.latest /\ wk'.seen = wk.seen /\ wk.seen <= clock /\ wk.bar < wk.seen
    BY <1>6, BarIsNew
  <2>2. wk'.ck.latest < wk.seen /\ wk'.ck.latest \in Int
    <3>1. /\ wk'.ck.latest = (IF Newest >= wk.bar THEN Newest ELSE wk.bar)
          /\ Newest < wk.seen /\ wk.bar < wk.seen
      BY <1>6, BarIsNew
    <3>2. Newest \in Int
      BY StoreFacts DEF GapInv, None
    <3> QED
      BY <1>1, <3>1, <3>2
  <2>3. PlaceOK'
    BY <1>1, <2>1, <2>2 DEF PlaceOK, Rests, Deciding
  <2>4. GapOK' /\ TodoOK'
    BY <2>1 DEF GapOK, TodoOK
  <2>5. HolesOK'
    BY <1>6, HolesOfNewBar
  <2>6. FreshOK'
    <3>1. SUFFICES ASSUME NEW b \in Session, b = wk.bar, NEW k \in DOMAIN bars', k > b, SameDay(b, k)
                   PROVE  Shielded(b)' \/ (k \notin Session /\ LaterDay(b)')
      BY <2>1 DEF FreshOK, SameDay
    <3>2. k \in DOMAIN bars /\ b < k /\ b \in Int
      BY <1>1, <2>1, <3>1
    <3>3. Shielded(b) \/ (k \notin Session /\ LaterDay(b))
      <4>1. ~Gone(b)
        BY <1>1, <3>1 DEF Gone
      <4>2. b \in Session \ DOMAIN bars /\ wk.pc \notin {"down", "scan", "saveLatest"} /\ UNION wk.gaps = {}
        BY <1>1, <1>6, <2>1, <3>1
      <4>3. HolesOK
        BY DEF GapInv
      <4> QED
        BY <3>1, <3>2, <4>1, <4>2, <4>3 DEF HolesOK
    <3>4. (Shielded(b) => Shielded(b)') /\ (LaterDay(b) => LaterDay(b)')
      BY <1>6, <3>2, ShieldsStay
    <3> QED
      BY <3>3, <3>4
  <2> QED
    BY <2>1, <2>3, <2>4, <2>5, <2>6 DEF GapInv
<1> QED
  BY <1>4, <1>5, <1>6

----------------------------------------------------------------------------
(* The theorems.                                                            *)

(* The worker begins with an empty store. *)
LEMMA InitHolds == Init => GapInv
<1> SUFFICES ASSUME Init PROVE GapInv
  OBVIOUS
<1>1. clock = 0 /\ DOMAIN bars = {} /\ bars = [m \in {} |-> "a"] /\ ck = EmptyCheckpoint /\ DOMAIN decisions = {} /\ wk = Down
  BY DEF Init
<1>2. Newest = None
  BY <1>1 DEF Newest
<1>3. StoreOK
  BY <1>1, <1>2, DownParts, GapNumbers DEF StoreOK, None
<1>4. Down.ck.latest = None
  BY DownParts DEF Down
<1>5. PlaceOK /\ GapOK /\ TodoOK /\ HolesOK /\ FreshOK
  BY <1>1, <1>2, <1>4, DownParts DEF PlaceOK, GapOK, TodoOK, HolesOK, FreshOK, Rests, Deciding, None
<1>6. DecisionsOK
  BY <1>1 DEF DecisionsOK
<1> QED
  BY <1>3, <1>5, <1>6 DEF GapInv

(* Every step of the worker, of the broker's answers and of the clock keeps the invariant. *)
LEMMA NextKeeps == GapInv /\ [Next]_vars => GapInv'
<1> SUFFICES ASSUME GapInv, [Next]_vars PROVE GapInv'
  OBVIOUS
<1>1. CASE Scan \/ NextGap
  BY <1>1, ScanKeeps, NextGapKeeps
<1>2. CASE Ready \/ SaveRestored \/ SaveRebuilding \/ DecideDone
  BY <1>2, RestingStepsKeep
<1>3. CASE Record \/ SaveLatest
  BY <1>3, RecordKeeps, SaveLatestKeeps
<1>4. CASE SaveGap \/ SaveRequest \/ Fetch \/ SaveVerifying \/ Restored \/ RecoveryFails
  BY <1>4, RecoveryStepsKeep
<1>5. CASE Backfill \/ BackfillDone
  BY <1>5, BackfillKeeps, BackfillDoneKeeps
<1>6. CASE Decide \/ SaveDecision \/ DispatchDecision \/ Reconcile
  BY <1>6, DecideKeeps, SaveDecisionKeeps, DispatchDecisionKeeps, ReconcileKeeps
<1>7. CASE Start \/ Tick \/ Halt \/ Crash
  BY <1>7, StartKeeps, TickKeeps, EndsKeep
<1>8. ASSUME NEW t \in 0..MaxMinute, BarArrives(t, "a") \/ BarArrives(t, "b") PROVE GapInv'
  BY <1>8, BarArrivesKeeps
<1>9. CASE UNCHANGED vars
  <2>1. /\ wk' = wk /\ bars' = bars /\ ck' = ck /\ clock' \in clock..MaxMinute /\ decisions' = decisions
    BY <1>9, StoreFacts, GapNumbers DEF vars, GapInv, StoreOK
  <2>2. DecisionsOK'
    BY <2>1, DecisionsStay DEF GapInv
  <2> QED
    BY <2>1, <2>2, StillKeeps
<1> QED
  BY <1>1, <1>2, <1>3, <1>4, <1>5, <1>6, <1>7, <1>8, <1>9 DEF Next, Work

(* What was decided, and what may yet be decided, is as the invariant says whenever the worker runs, *)
(* crashes or starts again.                                                                          *)
THEOREM GapInvariance == Spec => []GapInv
<1>1. Init => GapInv
  BY InitHolds
<1>2. GapInv /\ [Next]_vars => GapInv'
  BY NextKeeps
<1> QED
  BY <1>1, <1>2, PTL DEF Spec

(* No decision that may reach the broker bridges a gap: every minute of the observations behind it is stored *)
(* and of one session.                                                                                       *)
THEOREM DecisionsAreWhole == Spec => []RecoveryInv
<1>1. GapInv => RecoveryInv
  <2> SUFFICES ASSUME GapInv PROVE RecoveryInv
    OBVIOUS
  <2>1. TypeOK
    <3>1. /\ clock \in 0..MaxMinute /\ DOMAIN bars \subseteq 0..(clock - 1) /\ ck \in Checkpoints /\ wk.ck \in Checkpoints
          /\ ck.latest <= Newest /\ wk.ck.latest <= Newest
      BY DEF GapInv, StoreOK, PlaceOK, Workers
    <3>2. Newest \in Int /\ Newest < clock /\ clock \in Int
      BY StoreFacts DEF GapInv, None
    <3>3. ASSUME NEW c \in {ck, wk.ck}
          PROVE  c.latest < clock /\ c.cont \in {"HEALTHY", "REBUILDING"} /\ c.rec \in Recoveries /\ c.barrier \in Nat
      <4>1. c \in Checkpoints /\ c.latest <= Newest /\ c.latest \in Int
        BY <3>1 DEF Checkpoints, None
      <4> QED
        BY <3>2, <4>1 DEF Checkpoints
    <3>4. \A b \in DOMAIN decisions : decisions[b].status \in {"PENDING", "CANCELLED", "SUBMITTED"}
      BY DEF GapInv, DecisionsOK, Verdicts
    <3> QED
      BY <3>1, <3>3, <3>4 DEF TypeOK
  <2>2. WindowIsWhole
    BY DEF GapInv, DecisionsOK, Whole, First, Dispatchable, WindowIsWhole
  <2> QED
    BY <2>1, <2>2 DEF RecoveryInv
<1> QED
  BY <1>1, GapInvariance, PTL

(* The bucket of the bar that came is the newest that is complete, if its decision may reach the broker. *)
LEMMA EligibleIsNewest ==
  ASSUME GapInv, wk.todo # {}, Eligible(Min(wk.todo)), NEW c \in {BucketOf(m) : m \in DOMAIN bars}, c > Min(wk.todo),
         Complete(c), Regular(c)
  PROVE  FALSE
<1>1. PICK b : b = Min(wk.todo)
  OBVIOUS
<1> DEFINE t == wk.bar
           raw == Raw(wk.ck.latest)
<1>2. /\ wk.pc \in Deciding /\ wk.gap = {} /\ t \in DOMAIN bars /\ t \in Nat /\ b = BucketOf(t)
      /\ b \in Trailing(raw) /\ b >= wk.ck.barrier
  BY <1>1, TodoFacts
<1>3. wk.ck.latest \in Nat \cup {None} /\ wk.ck.barrier \in Nat /\ MaxMinute \in Nat
  BY GapNumbers DEF GapInv, StoreOK, Workers, Checkpoints
<1>4. raw \in SUBSET (0..MaxMinute) /\ raw \subseteq DOMAIN bars /\ b \in WholeBuckets(raw) /\ b \in Nat /\ b >= RawFrom(wk.ck.latest)
      /\ RawFrom(wk.ck.latest) \in Int
  BY <1>2, <1>3, RawFacts, GapNumbers DEF GapInv, RawFrom, None
<1>5. ~Shielded(t)
  <2>1. Whole(b)
    BY <1>1, <1>2, EligibleIsWhole DEF GapInv
  <2>2. ~Cold(b)
    <3>1. SUFFICES ASSUME NEW m \in First(b)..(b - 1) PROVE m \in Session /\ m \in DOMAIN bars
      BY DEF Cold
    <3>2. m \in First(b)..(b + Width - 1)
      BY <1>4, GapNumbers DEF First
    <3> QED
      BY <2>1, <3>2 DEF Whole, Regular
  <2> QED
    BY <1>2, <1>3, <1>4, <2>2 DEF Shielded
<1>6. c \in Nat /\ BucketOf(c) = c /\ b < c /\ t < c
  <2>1. PICK m \in DOMAIN bars : c = BucketOf(m)
    OBVIOUS
  <2>2. m \in Nat /\ c \in Nat /\ BucketOf(c) = c
    BY <2>1, StoreFacts, BucketNat DEF GapInv
  <2>3. b < c
    BY <1>1
  <2>4. BucketOf(t) + Width <= BucketOf(c) /\ t < BucketOf(t) + Width /\ BucketOf(t) \in Int
    BY <1>2, <2>2, <2>3, BucketStep, BucketBounds
  <2> QED
    BY <1>2, <2>2, <2>3, <2>4, GapNumbers
<1>7. c \in WholeBuckets(raw) /\ c \in DOMAIN bars
  <2>1. \A m \in Minutes(c) : m \in DOMAIN bars /\ m >= RawFrom(wk.ck.latest)
    BY <1>4, <1>6, GapNumbers DEF Complete, Minutes
  <2>2. Minutes(c) \subseteq raw
    BY <2>1 DEF Raw
  <2>3. c \in Minutes(c)
    BY <1>6, GapNumbers DEF Minutes
  <2> QED
    BY <1>6, <2>1, <2>2, <2>3 DEF WholeBuckets
<1> HIDE DEF raw, t
<1>8. \A m \in Int : b <= m /\ m < c + Width => m \in Session
  BY <1>2, <1>3, <1>4, <1>6, <1>7, TrailingIsWhole
<1>9. t \in Session /\ c \in Session
  <2>1. b <= t /\ t < c + Width /\ c < c + Width
    BY <1>2, <1>6, BucketBounds, GapNumbers
  <2> QED
    BY <1>2, <1>4, <1>6, <1>8, <2>1
<1>10. SameDay(t, c)
  <2>1. \A m \in (t + 1)..c : m \in Session
    <3>1. b <= t
      BY <1>2, BucketBounds
    <3> QED
      BY <1>2, <1>4, <1>6, <1>8, <3>1, GapNumbers
  <2> QED
    BY <2>1, SessionBounds DEF SameDay
<1>11. Shielded(t) \/ (c \notin Session /\ LaterDay(t))
  <2>1. wk.bar \in Session /\ c > wk.bar /\ SameDay(wk.bar, c)
    BY <1>6, <1>9, <1>10 DEF t
  <2> QED
    BY <1>2, <1>7, <2>1 DEF GapInv, FreshOK, t
<1> QED
  BY <1>5, <1>9, <1>11

(* A decision that may reach the broker is about the newest bucket that is complete: neither a late bar, nor *)
(* a backfill, nor a restart turns history into an order.                                                    *)
THEOREM HistoryIsNotTraded == Spec => NeverRetroactive
<1> DEFINE Newer(b) == \A c \in {BucketOf(m) : m \in DOMAIN bars} : c > b => ~(Complete(c) /\ Regular(c)) /\ c \notin DOMAIN decisions
           A == \A b \in DOMAIN decisions' \ DOMAIN decisions : decisions'[b].status = "PENDING" => Newer(b)
<1>1. GapInv /\ [Next]_vars => [A]_vars
  <2> SUFFICES ASSUME GapInv, [Next]_vars PROVE A
    OBVIOUS
  <2>1. CASE Decide
    <3> SUFFICES ASSUME NEW b \in DOMAIN decisions' \ DOMAIN decisions, decisions'[b].status = "PENDING" PROVE Newer(b)
      OBVIOUS
    <3>1. wk.todo # {} /\ b = Min(wk.todo) /\ Eligible(Min(wk.todo))
      <4>1. PICK d : d = Min(wk.todo)
        OBVIOUS
      <4>2. wk.todo # {}
        BY <2>1 DEF Decide
      <4>3. d \notin DOMAIN decisions
        BY <2>1, <4>1 DEF Decide, Goes
      <4>4. decisions' = [c \in DOMAIN decisions \cup {d} |->
                            IF c = d THEN [status |-> IF Eligible(d) THEN "PENDING" ELSE "CANCELLED", rec |-> "NONE"] ELSE decisions[c]]
        BY <2>1, <4>1, <4>3 DEF Decide
      <4>5. b = d /\ decisions'[d] = [status |-> IF Eligible(d) THEN "PENDING" ELSE "CANCELLED", rec |-> "NONE"]
        BY <4>4
      <4>6. Eligible(d)
        BY <4>5
      <4> QED
        BY <4>1, <4>2, <4>5, <4>6
    <3>2. \A c \in DOMAIN decisions : Complete(c) /\ Regular(c)
      BY DEF GapInv, DecisionsOK
    <3> QED
      BY <3>1, <3>2, EligibleIsNewest
  <2>2. CASE DispatchDecision
    <3>1. CASE decisions[Min(wk.todo)].status = "PENDING"
      <4>1. Min(wk.todo) \in DOMAIN decisions
        BY <2>2 DEF DispatchDecision, At, GapInv, TodoOK
      <4>2. Dispatch(Min(wk.todo), [wk EXCEPT !.pc = "saveDecision"])
        BY <2>2, <3>1 DEF DispatchDecision
      <4> QED
        BY <3>1, <4>1, <4>2, DispatchParts
    <3>2. CASE decisions[Min(wk.todo)].status # "PENDING"
      BY <2>2, <3>2 DEF DispatchDecision, Goes
    <3> QED
      BY <3>1, <3>2
  <2>3. CASE Reconcile
    BY <2>3, DispatchParts DEF Reconcile
  <2>4. CASE decisions' = decisions
    BY <2>4
  <2>5. \/ Decide \/ DispatchDecision \/ Reconcile \/ decisions' = decisions
    <3>1. CASE Work
      BY <3>1 DEF Work, Scan, NextGap, Ready, Record, SaveLatest, SaveGap, SaveRequest, Fetch, SaveVerifying, Backfill,
        BackfillDone, Restored, SaveRestored, SaveRebuilding, DecideDone, SaveDecision, Goes, Saves
    <3>2. CASE Start \/ RecoveryFails \/ Reconcile \/ Tick \/ Halt \/ Crash
      BY <3>2 DEF Start, RecoveryFails, Tick, Halt, Crash, Goes, Saves
    <3>3. CASE \E t \in 0..MaxMinute : BarArrives(t, "a") \/ (t \in Contested /\ BarArrives(t, "b"))
      BY <3>3 DEF BarArrives, Goes
    <3>4. CASE UNCHANGED vars
      BY <3>4 DEF vars
    <3> QED
      BY <3>1, <3>2, <3>3, <3>4 DEF Next
  <2> QED
    BY <2>1, <2>2, <2>3, <2>4, <2>5
<1>2. Spec => [][A]_vars
  BY <1>1, GapInvariance, PTL DEF Spec
<1> QED
  BY <1>2 DEF NeverRetroactive
=============================================================================
