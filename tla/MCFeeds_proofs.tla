--------------------------- MODULE MCFeeds_proofs ---------------------------
(***************************************************************************)
(* Proofs about the stock transport, the bars and the order updates of its  *)
(* sockets and the pages of its history, and about the tape of the          *)
(* observer.  The inductive invariants are at the end of StockStreams and   *)
(* of Observer.                                                            *)
(***************************************************************************)
EXTENDS MCFeeds, SequenceTheorems, FiniteSetTheorems, WellFoundedInduction, TLAPS

----------------------------------------------------------------------------
(* Sequences.                                                               *)

(* The indices of a sequence with one more element. *)
LEMMA Grown ==
  ASSUME NEW S, NEW s \in Seq(S), NEW x \in S
  PROVE  /\ Append(s, x) \in Seq(S) /\ Len(Append(s, x)) = Len(s) + 1 /\ Len(s) \in Nat
         /\ DOMAIN s = 1..Len(s) /\ DOMAIN Append(s, x) = 1..(Len(s) + 1)
         /\ \A i \in 1..Len(s) : Append(s, x)[i] = s[i] /\ s[i] \in S
         /\ Append(s, x)[Len(s) + 1] = x
  OBVIOUS

(* The indices of a sequence without its first element. *)
LEMMA Shrunk ==
  ASSUME NEW S, NEW s \in Seq(S), s # << >>
  PROVE  /\ Tail(s) \in Seq(S) /\ Len(Tail(s)) = Len(s) - 1 /\ Len(s) \in Nat /\ Len(s) > 0
         /\ DOMAIN s = 1..Len(s) /\ DOMAIN Tail(s) = 1..(Len(s) - 1)
         /\ \A i \in 1..(Len(s) - 1) : Tail(s)[i] = s[i + 1]
         /\ Head(s) = s[1] /\ \A i \in 1..Len(s) : s[i] \in S
  OBVIOUS

(* A frame is decoded in its turn: the first one goes. *)
LEMMA FirstGoes ==
  ASSUME NEW S, NEW s \in Seq(S), 1 \in DOMAIN s
  PROVE  s # << >> /\ Stock!Without(s, 1) = Tail(s)
<1>1. s # << >> /\ Len(s) \in Nat /\ Len(s) >= 1
  OBVIOUS
<1>2. SubSeq(s, 1, 0) = << >>
  OBVIOUS
<1>3. SubSeq(s, 2, Len(s)) \in Seq(S) /\ SubSeq(s, 2, Len(s)) = Tail(s)
  BY <1>1
<1>4. << >> \o Tail(s) = Tail(s)
  BY <1>1
<1> QED
  BY <1>1, <1>2, <1>3, <1>4 DEF Stock!Without

----------------------------------------------------------------------------
(* The bars.                                                                *)

(* Everything keeps its place when nothing moves. *)
LEMMA NothingMoves ==
  ASSUME Stock!BarsAscend, market'.took = market.took, market'.queue = market.queue,
         market'.inbox = market.inbox, market'.sent = market.sent
  PROVE  Stock!BarsAscend'
  BY DEF Stock!BarsAscend, Stock!Ascends

(* A frame arrives: if it is a bar, it is the newest. *)
LEMMA FrameArrives ==
  ASSUME Stock!TypeOK, Stock!BarsAscend, NEW f \in Stock!MarketFrames,
         market'.took = market.took, market'.queue = market.queue,
         market'.inbox = Append(market.inbox, f), market'.sent \in Nat, market'.sent >= market.sent,
         f.is = "bar" => f.n = market.sent + 1 /\ market'.sent = market.sent + 1
  PROVE  Stock!BarsAscend'
<1> DEFINE s == market.inbox
           t == market.took
           q == market.queue
           n == market.sent
<1>1. s \in Seq(Stock!MarketFrames) /\ t \in Seq(Nat) /\ q \in Seq(Nat) /\ n \in Nat
  BY DEF Stock!TypeOK
<1>2. /\ Len(s) \in Nat /\ DOMAIN s = 1..Len(s) /\ DOMAIN Append(s, f) = 1..(Len(s) + 1)
      /\ \A i \in 1..Len(s) : Append(s, f)[i] = s[i] /\ s[i] \in Stock!MarketFrames
      /\ Append(s, f)[Len(s) + 1] = f
  BY <1>1, Grown
<1>3. /\ \A i \in DOMAIN t : t[i] \in Nat /\ t[i] <= n
      /\ \A i \in DOMAIN q : q[i] \in Nat /\ q[i] <= n /\ \A k \in DOMAIN t : t[k] < q[i]
      /\ \A i \in 1..Len(s) : s[i].is = "bar" =>
           /\ s[i].n \in Nat /\ s[i].n <= n
           /\ \A k \in DOMAIN t : t[k] < s[i].n
           /\ \A k \in DOMAIN q : q[k] < s[i].n
           /\ \A k \in 1..(i - 1) : s[k].is = "bar" => s[k].n < s[i].n
  <2>1. /\ \A i \in DOMAIN t : t[i] \in Nat
        /\ \A i \in DOMAIN q : q[i] \in Nat
        /\ \A i \in 1..Len(s) : s[i].n \in Nat
    <3>1. \A i \in 1..Len(s) : s[i] \in Stock!MarketFrames
      BY <1>2
    <3>2. t \in Seq(Nat) /\ q \in Seq(Nat)
      BY <1>1
    <3> HIDE DEF s, t, q
    <3>3. \A i \in 1..Len(s) : s[i].n \in Nat
      BY <3>1 DEF Stock!MarketFrames
    <3>4. \A i \in DOMAIN t : t[i] \in Nat
      BY <3>2
    <3>5. \A i \in DOMAIN q : q[i] \in Nat
      BY <3>2
    <3> QED
      BY <3>3, <3>4, <3>5
  <2> QED
    BY <1>2, <2>1 DEF Stock!BarsAscend
<1>4. Stock!Ascends(t) /\ Stock!Ascends(q)
  BY DEF Stock!BarsAscend
<1> DEFINE a == Append(s, f)
<1>5. a = market'.inbox /\ t = market'.took /\ q = market'.queue
  OBVIOUS
<1>6. ASSUME NEW i \in DOMAIN a, a[i].is = "bar"
      PROVE  /\ a[i].n <= market'.sent
             /\ \A k \in DOMAIN t : t[k] < a[i].n
             /\ \A k \in DOMAIN q : q[k] < a[i].n
             /\ \A k \in 1..(i - 1) : a[k].is = "bar" => a[k].n < a[i].n
  <2> HIDE DEF s, t, q, n
  <2>1. CASE i \in 1..Len(s)
    <3>1. a[i] = s[i] /\ \A k \in 1..(i - 1) : k \in 1..Len(s) /\ a[k] = s[k]
      BY <1>2, <2>1
    <3>2. n <= market'.sent /\ n \in Nat /\ market'.sent \in Nat
      BY <1>1 DEF n
    <3> HIDE DEF a
    <3>3. /\ s[i].n \in Nat /\ s[i].n <= n
          /\ \A k \in DOMAIN t : t[k] < s[i].n
          /\ \A k \in DOMAIN q : q[k] < s[i].n
          /\ \A k \in 1..(i - 1) : s[k].is = "bar" => s[k].n < s[i].n
      BY <1>3, <1>6, <2>1, <3>1
    <3>4. s[i].n <= market'.sent
      BY <3>2, <3>3
    <3> QED
      BY <3>1, <3>3, <3>4
  <2>2. CASE i = Len(s) + 1
    <3>1. a[i] = f /\ \A k \in 1..(i - 1) : k \in 1..Len(s) /\ a[k] = s[k]
      BY <1>2, <2>2
    <3>2. f.n = n + 1 /\ market'.sent = n + 1 /\ n \in Nat
      BY <1>1, <1>6, <3>1 DEF n
    <3> HIDE DEF a
    <3> QED
      BY <1>3, <3>1, <3>2
  <2> QED
    BY <1>2, <2>1, <2>2
<1>7. (\A i \in DOMAIN t : t[i] <= market'.sent) /\ (\A i \in DOMAIN q : q[i] <= market'.sent)
  BY <1>1, <1>3
<1> QED
  BY <1>3, <1>4, <1>5, <1>6, <1>7 DEF Stock!BarsAscend, Stock!Ascends

(* The first frame is decoded: it is dropped, or it was a bar and joins the queue. *)
LEMMA FrameDecoded ==
  ASSUME Stock!TypeOK, Stock!BarsAscend, market.inbox # << >>,
         market'.took = market.took, market'.inbox = Tail(market.inbox), market'.sent = market.sent,
         \/ market'.queue = market.queue
         \/ market.inbox[1].is = "bar" /\ market'.queue = Append(market.queue, market.inbox[1].n)
  PROVE  Stock!BarsAscend'
<1> DEFINE s == market.inbox
           t == market.took
           q == market.queue
           n == market.sent
<1>1. s \in Seq(Stock!MarketFrames) /\ t \in Seq(Nat) /\ q \in Seq(Nat) /\ n \in Nat
  BY DEF Stock!TypeOK
<1>2. /\ Len(s) \in Nat /\ Len(s) > 0 /\ DOMAIN s = 1..Len(s) /\ DOMAIN Tail(s) = 1..(Len(s) - 1)
      /\ \A i \in 1..(Len(s) - 1) : Tail(s)[i] = s[i + 1]
      /\ \A i \in 1..Len(s) : s[i] \in Stock!MarketFrames
  BY <1>1, Shrunk
<1>3. /\ Stock!Ascends(t) /\ Stock!Ascends(q)
      /\ \A i \in DOMAIN t : t[i] \in Nat /\ t[i] <= n
      /\ \A i \in DOMAIN q : q[i] \in Nat /\ q[i] <= n /\ \A k \in DOMAIN t : t[k] < q[i]
      /\ \A i \in 1..Len(s) : s[i].is = "bar" =>
           /\ s[i].n \in Nat /\ s[i].n <= n
           /\ \A k \in DOMAIN t : t[k] < s[i].n
           /\ \A k \in DOMAIN q : q[k] < s[i].n
           /\ \A k \in 1..(i - 1) : s[k].is = "bar" => s[k].n < s[i].n
  <2>1. /\ \A i \in DOMAIN t : t[i] \in Nat
        /\ \A i \in DOMAIN q : q[i] \in Nat
        /\ \A i \in 1..Len(s) : s[i].n \in Nat
    <3>1. \A i \in 1..Len(s) : s[i] \in Stock!MarketFrames
      BY <1>2
    <3>2. t \in Seq(Nat) /\ q \in Seq(Nat)
      BY <1>1
    <3> HIDE DEF s, t, q
    <3>3. \A i \in 1..Len(s) : s[i].n \in Nat
      BY <3>1 DEF Stock!MarketFrames
    <3>4. \A i \in DOMAIN t : t[i] \in Nat
      BY <3>2
    <3>5. \A i \in DOMAIN q : q[i] \in Nat
      BY <3>2
    <3> QED
      BY <3>3, <3>4, <3>5
  <2> QED
    BY <1>2, <2>1 DEF Stock!BarsAscend
<1> DEFINE a == Tail(s)
           p == market'.queue
<1>4. a = market'.inbox /\ t = market'.took /\ n = market'.sent
  OBVIOUS
<1>5. /\ Stock!Ascends(p)
      /\ \A i \in DOMAIN p : p[i] <= n /\ \A k \in DOMAIN t : t[k] < p[i]
      /\ \A i \in DOMAIN p : (\E k \in DOMAIN q : p[i] = q[k]) \/ (s[1].is = "bar" /\ p[i] = s[1].n)
  <2>1. CASE p = q
    BY <1>3, <2>1 DEF Stock!Ascends
  <2>2. CASE s[1].is = "bar" /\ p = Append(q, s[1].n)
    <3>1. s[1].n \in Nat /\ 1 \in 1..Len(s)
      BY <1>2, <1>3, <2>2
    <3>2. /\ Len(q) \in Nat /\ DOMAIN q = 1..Len(q) /\ DOMAIN p = 1..(Len(q) + 1)
          /\ \A i \in 1..Len(q) : p[i] = q[i] /\ q[i] \in Nat
          /\ p[Len(q) + 1] = s[1].n
      <4> DEFINE x == s[1].n
      <4>1. q \in Seq(Nat) /\ x \in Nat /\ p = Append(q, x)
        BY <1>1, <2>2, <3>1
      <4> HIDE DEF q, x, p
      <4>2. /\ Len(q) \in Nat /\ DOMAIN q = 1..Len(q) /\ DOMAIN p = 1..(Len(q) + 1)
            /\ \A i \in 1..Len(q) : p[i] = q[i] /\ q[i] \in Nat
            /\ p[Len(q) + 1] = x
        BY <4>1, Grown
      <4> QED
        BY <4>2 DEF x
    <3> HIDE DEF p, q, s, t, n
    <3> QED
      BY <1>3, <2>2, <3>1, <3>2 DEF Stock!Ascends
  <2> QED
    BY <2>1, <2>2
<1>6. ASSUME NEW i \in DOMAIN a, a[i].is = "bar"
      PROVE  /\ a[i].n <= n
             /\ \A k \in DOMAIN t : t[k] < a[i].n
             /\ \A k \in DOMAIN p : p[k] < a[i].n
             /\ \A k \in 1..(i - 1) : a[k].is = "bar" => a[k].n < a[i].n
  <2>1. /\ i + 1 \in 1..Len(s) /\ a[i] = s[i + 1] /\ 1 \in 1..((i + 1) - 1)
        /\ \A k \in 1..(i - 1) : k + 1 \in 1..((i + 1) - 1) /\ a[k] = s[k + 1]
    BY <1>2
  <2> HIDE DEF a, p, q, s, t, n
  <2> QED
    BY <1>3, <1>5, <1>6, <2>1
<1> QED
  BY <1>3, <1>4, <1>5, <1>6 DEF Stock!BarsAscend

(* The caller takes the oldest of the queue. *)
LEMMA BarTaken ==
  ASSUME Stock!TypeOK, Stock!BarsAscend, market.queue # << >>,
         market'.took = Append(market.took, Head(market.queue)), market'.queue = Tail(market.queue),
         market'.inbox = market.inbox, market'.sent = market.sent
  PROVE  Stock!BarsAscend'
<1> DEFINE s == market.inbox
           t == market.took
           q == market.queue
           n == market.sent
<1>1. s \in Seq(Stock!MarketFrames) /\ t \in Seq(Nat) /\ q \in Seq(Nat) /\ n \in Nat
  BY DEF Stock!TypeOK
<1>2. /\ Len(q) \in Nat /\ Len(q) > 0 /\ DOMAIN q = 1..Len(q) /\ DOMAIN Tail(q) = 1..(Len(q) - 1)
      /\ \A i \in 1..(Len(q) - 1) : Tail(q)[i] = q[i + 1]
      /\ Head(q) = q[1] /\ \A i \in 1..Len(q) : q[i] \in Nat
  BY <1>1, Shrunk
<1>3. Head(q) \in Nat /\ 1 \in DOMAIN q
  BY <1>2
<1>4. /\ Len(t) \in Nat /\ DOMAIN t = 1..Len(t) /\ DOMAIN Append(t, q[1]) = 1..(Len(t) + 1)
      /\ \A i \in 1..Len(t) : Append(t, q[1])[i] = t[i] /\ t[i] \in Nat
      /\ Append(t, q[1])[Len(t) + 1] = q[1]
  <2>1. q[1] \in Nat
    BY <1>2
  <2>2. t \in Seq(Nat)
    BY <1>1
  <2> HIDE DEF t, q
  <2> QED
    BY <2>1, <2>2, Grown
<1>5. /\ Stock!Ascends(t) /\ Stock!Ascends(q)
      /\ \A i \in DOMAIN t : t[i] <= n
      /\ \A i \in DOMAIN q : q[i] <= n /\ \A k \in DOMAIN t : t[k] < q[i]
      /\ \A i \in DOMAIN s : s[i].is = "bar" =>
           /\ s[i].n <= n
           /\ \A k \in DOMAIN t : t[k] < s[i].n
           /\ \A k \in DOMAIN q : q[k] < s[i].n
           /\ \A k \in 1..(i - 1) : s[k].is = "bar" => s[k].n < s[i].n
  BY DEF Stock!BarsAscend
<1> DEFINE u == Append(t, q[1])
           p == Tail(q)
<1>6. s = market'.inbox /\ u = market'.took /\ p = market'.queue /\ n = market'.sent
  BY <1>2
<1> HIDE DEF s, t, q, n, u, p
<1>7. \A i \in DOMAIN p : i + 1 \in DOMAIN q /\ p[i] = q[i + 1] /\ q[1] < p[i] /\ p[i] \in Nat
  BY <1>2, <1>3, <1>5 DEF Stock!Ascends, p
<1>8. Stock!Ascends(p)
  BY <1>2, <1>5, <1>7 DEF Stock!Ascends, p
<1>9. \A i \in DOMAIN u : (i \in DOMAIN t /\ u[i] = t[i]) \/ (i = Len(t) + 1 /\ u[i] = q[1])
  BY <1>4 DEF u
<1>10. Stock!Ascends(u)
  BY <1>3, <1>4, <1>5, <1>9 DEF Stock!Ascends
<1>11. \A i \in DOMAIN u : u[i] <= n /\ (\A k \in DOMAIN p : u[i] < p[k])
                           /\ \A k \in DOMAIN s : s[k].is = "bar" => u[i] < s[k].n
  BY <1>3, <1>5, <1>7, <1>9
<1>12. \A i \in DOMAIN p : p[i] <= n /\ \A k \in DOMAIN s : s[k].is = "bar" => p[i] < s[k].n
  BY <1>5, <1>7
<1> QED
  BY <1>5, <1>6, <1>8, <1>10, <1>11, <1>12 DEF Stock!BarsAscend

\* What a market socket may be.
Markets == [relay : BOOLEAN, phase : Stock!MarketPhases, inbox : Seq(Stock!MarketFrames), sent : Nat,
            queue : Seq(Nat), failure : BOOLEAN, took : Seq(Nat)]

(* The fields of a market socket that is given another phase, and a frame. *)
LEMMA MarketGets ==
  ASSUME NEW m \in Markets, NEW f \in Stock!MarketFrames
  PROVE  /\ Stock!Got(m, f) \in Markets
         /\ Stock!Got(m, f).inbox = Append(m.inbox, f) /\ Stock!Got(m, f).took = m.took
         /\ Stock!Got(m, f).queue = m.queue /\ Stock!Got(m, f).sent = m.sent
<1>1. Append(m.inbox, f) \in Seq(Stock!MarketFrames)
  BY DEF Markets
<1> DEFINE a == Append(m.inbox, f)
<1>2. Stock!Got(m, f) = [m EXCEPT !.inbox = a]
  BY DEF Stock!Got
<1> HIDE DEF a
<1>3. /\ [m EXCEPT !.inbox = a] \in Markets /\ [m EXCEPT !.inbox = a].inbox = a
      /\ [m EXCEPT !.inbox = a].took = m.took /\ [m EXCEPT !.inbox = a].queue = m.queue
      /\ [m EXCEPT !.inbox = a].sent = m.sent
  BY <1>1 DEF Markets, a
<1> QED
  BY <1>2, <1>3 DEF a

(* The servers and the network. *)
LEMMA MarketServed ==
  ASSUME Stock!MarketInv,
         Stock!MarketGreets \/ Stock!MarketBar \/ Stock!MarketTrouble \/ Stock!Iterates \/ Stock!MarketOpens \/ Stock!MarketCloses
  PROVE  Stock!MarketInv'
<1>1. market \in Markets /\ Stock!BarsAscend /\ Stock!TypeOK
  BY DEF Stock!MarketInv, Stock!TypeOK, Markets
<1>2. market' \in Markets /\ reader' \in {"new", "runs", "asleep", "given", "thrown", "left"} /\ trade' = trade => Stock!TypeOK'
  BY <1>1 DEF Stock!TypeOK, Markets
<1>3. reader \in {"new", "runs", "asleep", "given", "thrown", "left"}
  BY <1>1 DEF Stock!TypeOK
<1>4. ASSUME NEW p \in Stock!MarketPhases, NEW is \in {"connected", "authenticated", "trouble"},
             market' = Stock!Got([market EXCEPT !.phase = p], [is |-> is, n |-> 0]), UNCHANGED <<reader, trade>>
      PROVE  Stock!MarketInv'
  <2> DEFINE m == [market EXCEPT !.phase = p]
             f == [is |-> is, n |-> 0]
  <2>1. m \in Markets /\ m.inbox = market.inbox /\ m.took = market.took /\ m.queue = market.queue /\ m.sent = market.sent
    BY <1>1 DEF Markets
  <2>2. f \in Stock!MarketFrames /\ f.is # "bar"
    BY DEF Stock!MarketFrames
  <2>3. market.sent \in Nat
    BY <1>1 DEF Markets
  <2> HIDE DEF m, f
  <2>4. market' = Stock!Got(m, f)
    BY <1>4 DEF m, f
  <2>5. /\ market' \in Markets /\ market'.inbox = Append(market.inbox, f) /\ market'.took = market.took
        /\ market'.queue = market.queue /\ market'.sent = market.sent
    BY <2>1, <2>2, <2>4, MarketGets
  <2>6. Stock!BarsAscend'
    BY <1>1, <2>2, <2>3, <2>5, FrameArrives
  <2> QED
    BY <1>2, <1>3, <1>4, <2>5, <2>6 DEF Stock!MarketInv
<1>5. ASSUME Stock!MarketGreets PROVE Stock!MarketInv'
  <2>1. "greeted" \in Stock!MarketPhases /\ "authed" \in Stock!MarketPhases
    BY DEF Stock!MarketPhases
  <2> QED
    BY <1>4, <1>5, <2>1 DEF Stock!MarketGreets
<1>6. ASSUME Stock!MarketTrouble PROVE Stock!MarketInv'
  <2>1. market.phase \in Stock!MarketPhases /\ market = [market EXCEPT !.phase = market.phase]
    BY <1>1 DEF Markets
  <2> QED
    BY <1>4, <1>6, <2>1 DEF Stock!MarketTrouble
<1>7. ASSUME Stock!MarketBar PROVE Stock!MarketInv'
  <2> DEFINE m == [market EXCEPT !.sent = @ + 1]
             f == [is |-> "bar", n |-> market.sent + 1]
  <2>1. /\ m \in Markets /\ m.inbox = market.inbox /\ m.took = market.took /\ m.queue = market.queue
        /\ m.sent = market.sent + 1 /\ market.sent \in Nat
    <3> DEFINE k == market.sent + 1
    <3>1. market.sent \in Nat /\ k \in Nat /\ m = [market EXCEPT !.sent = k]
      BY <1>1 DEF Markets
    <3> HIDE DEF k, m
    <3>2. m \in Markets /\ m.inbox = market.inbox /\ m.took = market.took /\ m.queue = market.queue /\ m.sent = k
      BY <1>1, <3>1 DEF Markets
    <3> QED
      BY <3>1, <3>2 DEF k
  <2>2. f \in Stock!MarketFrames /\ f.n = market.sent + 1
    BY <2>1 DEF Stock!MarketFrames
  <2> HIDE DEF m, f
  <2>3. market' = Stock!Got(m, f) /\ UNCHANGED <<reader, trade>>
    BY <1>7 DEF m, f, Stock!MarketBar
  <2>4. /\ market' \in Markets /\ market'.inbox = Append(market.inbox, f) /\ market'.took = market.took
        /\ market'.queue = market.queue /\ market'.sent = market.sent + 1
    BY <2>1, <2>2, <2>3, MarketGets
  <2>5. Stock!BarsAscend'
    BY <1>1, <2>1, <2>2, <2>4, FrameArrives
  <2> QED
    BY <1>2, <1>3, <2>3, <2>4, <2>5 DEF Stock!MarketInv
<1>8. ASSUME Stock!Iterates \/ Stock!MarketOpens \/ Stock!MarketCloses PROVE Stock!MarketInv'
  <2>1. /\ market' \in Markets /\ market'.inbox = market.inbox /\ market'.took = market.took
        /\ market'.queue = market.queue /\ market'.sent = market.sent
    BY <1>1, <1>8 DEF Markets, Stock!Iterates, Stock!MarketOpens, Stock!MarketCloses, Stock!MarketPhases, Stock!Closed
  <2>2. reader' \in {"new", "runs", "asleep", "given", "thrown", "left"} /\ trade' = trade
    BY <1>3, <1>8 DEF Stock!Iterates, Stock!MarketOpens, Stock!MarketCloses, Stock!Signal
  <2> QED
    BY <1>1, <1>2, <2>1, <2>2, NothingMoves DEF Stock!MarketInv
<1> QED
  BY <1>5, <1>6, <1>7, <1>8

(* The listener and the generator. *)
LEMMA MarketRead ==
  ASSUME Stock!MarketInv, Stock!MarketDecoded \/ Stock!Reads \/ Stock!AsksAgain \/ Stock!Leaves
  PROVE  Stock!MarketInv'
<1>1. market \in Markets /\ Stock!BarsAscend /\ Stock!TypeOK
  BY DEF Stock!MarketInv, Stock!TypeOK, Markets
<1>2. market' \in Markets /\ reader' \in {"new", "runs", "asleep", "given", "thrown", "left"} /\ trade' = trade => Stock!TypeOK'
  BY <1>1 DEF Stock!TypeOK, Markets
<1>3. reader \in {"new", "runs", "asleep", "given", "thrown", "left"}
  BY <1>1 DEF Stock!TypeOK
<1>4. ASSUME Stock!MarketDecoded PROVE Stock!MarketInv'
  <2>1. market.inbox \in Seq(Stock!MarketFrames) /\ market.queue \in Seq(Nat)
    BY <1>1 DEF Markets
  <2>2. PICK elapsed \in BOOLEAN :
          /\ 1 \in DOMAIN market.inbox
          /\ market' = [Stock!Understood(market, market.inbox[1], elapsed) EXCEPT !.inbox = Stock!Without(market.inbox, 1)]
          /\ reader' = Stock!Signal /\ trade' = trade
    BY <1>4, <2>1 DEF Stock!MarketDecoded, Stock!Chain
  <2> DEFINE f == market.inbox[1]
             m == Stock!Understood(market, f, elapsed)
             rest == Tail(market.inbox)
  <2>3. market.inbox # << >> /\ Stock!Without(market.inbox, 1) = rest
    BY <2>1, <2>2, FirstGoes
  <2>4. rest \in Seq(Stock!MarketFrames) /\ f \in Stock!MarketFrames
    BY <2>1, <2>2, <2>3, Shrunk, ElementOfSeq
  <2>5. f.n \in Nat /\ Append(market.queue, f.n) \in Seq(Nat)
    BY <2>1, <2>4 DEF Stock!MarketFrames
  <2>6. /\ m \in Markets /\ m.took = market.took /\ m.sent = market.sent
        /\ m.queue = market.queue \/ (f.is = "bar" /\ m.queue = Append(market.queue, f.n))
    <3> DEFINE a == Append(market.queue, f.n)
    <3> HIDE DEF f, a
    <3>1. a \in Seq(Nat)
      BY <2>5 DEF a
    <3> USE <1>1, <3>1 DEF Markets, Stock!Understood, Stock!Step, Stock!MarketPhases
    <3>2. CASE f.is = "bar" /\ elapsed
      <4>1. m = [market EXCEPT !.queue = a]
        BY <3>2 DEF a
      <4> QED
        BY <3>2, <4>1 DEF a
    <3>3. CASE f.is = "bar" /\ ~elapsed
      BY <3>3
    <3>4. CASE f.is = "connected"
      BY <3>4
    <3>5. CASE f.is = "authenticated"
      BY <3>5
    <3>6. CASE f.is \notin {"bar", "connected", "authenticated"}
      <4>1. m = [market EXCEPT !.failure = TRUE]
        BY <3>6
      <4> QED
        BY <4>1
    <3> QED
      BY <3>2, <3>3, <3>4, <3>5, <3>6
  <2> HIDE DEF f, m, rest
  <2>7. market' = [m EXCEPT !.inbox = rest]
    BY <2>2, <2>3 DEF m, f
  <2>8. /\ market' \in Markets /\ market'.inbox = rest /\ market'.took = market.took /\ market'.sent = market.sent
        /\ market'.queue = m.queue
    BY <2>4, <2>6, <2>7 DEF Markets
  <2>9. Stock!BarsAscend'
    BY <1>1, <2>3, <2>6, <2>8, FrameDecoded DEF f, rest
  <2>10. reader' \in {"new", "runs", "asleep", "given", "thrown", "left"}
    BY <1>3, <2>2 DEF Stock!Signal
  <2> QED
    BY <1>2, <2>2, <2>8, <2>9, <2>10 DEF Stock!MarketInv
<1>5. ASSUME market.queue # << >>, reader' = "given", trade' = trade,
             market' = [market EXCEPT !.queue = Tail(@), !.took = Append(@, Head(market.queue))]
      PROVE  Stock!MarketInv'
  <2> DEFINE p == Tail(market.queue)
             u == Append(market.took, Head(market.queue))
  <2>1. market.queue \in Seq(Nat) /\ market.took \in Seq(Nat)
    BY <1>1 DEF Markets
  <2>2. Head(market.queue) \in Nat
    BY <1>5, <2>1, HeadTailProperties
  <2>3. p \in Seq(Nat) /\ u \in Seq(Nat)
    BY <1>5, <2>1, <2>2
  <2>4. market' = [market EXCEPT !.queue = p, !.took = u]
    BY <1>1, <1>5 DEF Markets
  <2>5. /\ market' \in Markets /\ market'.inbox = market.inbox /\ market'.took = u
        /\ market'.sent = market.sent /\ market'.queue = p
    <3> HIDE DEF p, u
    <3> QED
      BY <1>1, <2>3, <2>4 DEF Markets
  <2>6. Stock!BarsAscend'
    BY <1>1, <1>5, <2>5, BarTaken
  <2> QED
    BY <1>2, <1>5, <2>5, <2>6 DEF Stock!MarketInv
<1>6. ASSUME market' = market \/ market' = [market EXCEPT !.phase = Stock!Closed], trade' = trade,
             reader' \in {"new", "runs", "asleep", "given", "thrown", "left"}
      PROVE  Stock!MarketInv'
  <2>1. /\ market' \in Markets /\ market'.inbox = market.inbox /\ market'.took = market.took
        /\ market'.queue = market.queue /\ market'.sent = market.sent
    BY <1>1, <1>6 DEF Markets, Stock!MarketPhases
  <2> QED
    BY <1>1, <1>2, <1>6, <2>1, NothingMoves DEF Stock!MarketInv
<1>7. ASSUME Stock!Reads \/ Stock!AsksAgain \/ Stock!Leaves PROVE Stock!MarketInv'
  BY <1>5, <1>6, <1>7 DEF Stock!Reads, Stock!AsksAgain, Stock!Leaves
<1> QED
  BY <1>4, <1>7

(* The bars keep their order on every step of the market socket. *)
LEMMA MarketStep == Stock!MarketInv /\ Stock!MarketNext => Stock!MarketInv'
  BY MarketServed, MarketRead DEF Stock!MarketNext

----------------------------------------------------------------------------
(* The order updates.                                                       *)

(* A frame arrives: if it is an update, it is the newest; if it acknowledges, the subscription is granted. *)
LEMMA UpdateArrives ==
  ASSUME Stock!TradeInv, NEW f \in Stock!TradeFrames,
         trade'.inbox = Append(trade.inbox, f), trade'.seen = trade.seen, trade'.failed = trade.failed,
         trade'.ready = trade.ready, trade.subscribed => trade'.subscribed,
         f.is = "listening" => trade'.subscribed,
         \/ f.is = "update" /\ f.n = trade.sent + 1 /\ trade'.sent = trade.sent + 1
         \/ f.is # "update" /\ f.n = 0 /\ trade'.sent = trade.sent
  PROVE  Stock!TradeFramesAreTrue' /\ Stock!NoSilentLoss' /\ Stock!ReadyIsSubscribed'
<1> DEFINE s == trade.inbox
           a == Append(s, f)
           n == trade.sent
           k == trade'.sent
<1>1. s \in Seq(Stock!TradeFrames) /\ trade.seen \in Seq(Nat) /\ n \in Nat
  BY DEF Stock!TradeInv, Stock!TypeOK
<1>2. /\ Len(s) \in Nat /\ DOMAIN s = 1..Len(s) /\ DOMAIN a = 1..(Len(s) + 1)
      /\ \A i \in 1..Len(s) : a[i] = s[i] /\ s[i] \in Stock!TradeFrames
      /\ a[Len(s) + 1] = f
  BY <1>1, Grown
<1>3. \A i \in DOMAIN s : (s[i].n > 0 <=> s[i].is = "update") /\ (s[i].is = "listening" => trade.subscribed)
  BY DEF Stock!TradeInv, Stock!TradeFramesAreTrue
<1>4. k \in Nat /\ k >= n /\ f.n \in Nat /\ (f.n > 0 <=> f.is = "update") /\ (f.n > 0 => f.n = n + 1 /\ k = n + 1) /\ (f.n = 0 => k = n)
  BY <1>1
<1>5. \A i \in DOMAIN a : (i \in DOMAIN s /\ a[i] = s[i]) \/ (i = Len(s) + 1 /\ a[i] = f)
  BY <1>2
<1>6. \A i \in DOMAIN s : s[i].n \in Nat /\ i \in DOMAIN a /\ i \in Nat
  <2>1. \A i \in DOMAIN s : s[i] \in Stock!TradeFrames /\ i \in DOMAIN a /\ i \in Nat
    BY <1>2
  <2> HIDE DEF s, a
  <2> QED
    BY <2>1 DEF Stock!TradeFrames
<1>7. a = trade'.inbox /\ Len(trade.seen) \in Nat /\ DOMAIN trade.seen = 1..Len(trade.seen)
  BY <1>1
<1>8. Stock!TradeFramesAreTrue'
  <2> HIDE DEF s, a, n, k
  <2> QED
    BY <1>3, <1>4, <1>5, <1>7 DEF Stock!TradeFramesAreTrue
<1>9. ASSUME ~trade.failed PROVE Stock!NoSilentLoss'
  <2>1. /\ \A i \in DOMAIN trade.seen : trade.seen[i] = i /\ i <= n
        /\ \A i \in DOMAIN s : s[i].n > 0 =>
             Len(trade.seen) < s[i].n /\ s[i].n <= n /\ \A j \in 1..(i - 1) : s[j].n < s[i].n
        /\ \A m \in 1..n : m \in DOMAIN trade.seen \/ \E i \in DOMAIN s : s[i].n = m
    BY <1>9 DEF Stock!TradeInv, Stock!NoSilentLoss, Stock!PassedOn, Stock!InTurn, Stock!Waits
  <2> HIDE DEF s, a, n, k
  <2>2. Len(trade.seen) <= n
    <3>1. CASE Len(trade.seen) = 0
      BY <1>1, <3>1
    <3>2. CASE Len(trade.seen) # 0
      <4>1. Len(trade.seen) \in DOMAIN trade.seen
        BY <1>7, <3>2
      <4> QED
        BY <2>1, <4>1
    <3> QED
      BY <3>1, <3>2
  <2>3. \A i \in DOMAIN s : s[i].n <= n
    BY <1>1, <1>6, <2>1
  <2>4. Len(s) + 1 \in DOMAIN a
    BY <1>2
  <2>5. ASSUME NEW i \in DOMAIN a, a[i].n > 0
        PROVE  Len(trade.seen) < a[i].n /\ a[i].n <= k /\ \A j \in 1..(i - 1) : a[j].n < a[i].n
    <3>1. \A j \in 1..(i - 1) : j \in DOMAIN s /\ a[j] = s[j]
      BY <1>2, <1>5
    <3>2. CASE i \in DOMAIN s /\ a[i] = s[i]
      BY <1>1, <1>4, <1>6, <2>1, <2>5, <3>1, <3>2
    <3>3. CASE i = Len(s) + 1 /\ a[i] = f
      <4>1. f.n = n + 1 /\ k = n + 1
        BY <1>4, <2>5, <3>3
      <4>2. \A j \in 1..(i - 1) : a[j].n < a[i].n
        <5> TAKE j \in 1..(i - 1)
        <5>1. a[j].n \in Nat /\ a[j].n <= n
          BY <1>6, <2>3, <3>1
        <5> QED
          BY <1>1, <3>3, <4>1, <5>1
      <4>3. Len(trade.seen) < a[i].n
        BY <1>1, <1>7, <2>2, <3>3, <4>1
      <4> QED
        BY <1>1, <3>3, <4>1, <4>2, <4>3
    <3> QED
      BY <1>5, <3>2, <3>3
  <2>6. ASSUME NEW m \in 1..k PROVE m \in DOMAIN trade.seen \/ \E i \in DOMAIN a : a[i].n = m
    <3>1. CASE m \in 1..n
      <4>1. m \in DOMAIN trade.seen \/ \E i \in DOMAIN s : s[i].n = m
        BY <2>1, <3>1
      <4> QED
        BY <1>2, <1>6, <4>1
    <3>2. CASE m \notin 1..n
      <4>1. m = n + 1 /\ f.n = m
        BY <1>1, <1>4, <3>2
      <4> QED
        BY <1>2, <2>4, <4>1
    <3> QED
      BY <3>1, <3>2
  <2>7. \A i \in DOMAIN trade.seen : trade.seen[i] = i /\ i <= k
    BY <1>1, <1>4, <1>7, <2>1
  <2> QED
    BY <1>7, <2>5, <2>6, <2>7 DEF k, Stock!NoSilentLoss, Stock!PassedOn, Stock!InTurn, Stock!Waits
<1>10. trade.failed => Stock!NoSilentLoss'
  BY DEF Stock!NoSilentLoss
<1>11. Stock!ReadyIsSubscribed'
  BY DEF Stock!TradeInv, Stock!ReadyIsSubscribed
<1> QED
  BY <1>8, <1>9, <1>10, <1>11

(* The first frame is decoded: an update that is passed on is the next one, or onError is called. *)
LEMMA UpdateDecoded ==
  ASSUME Stock!TradeInv, trade.inbox # << >>,
         trade'.inbox = Tail(trade.inbox), trade'.sent = trade.sent, trade'.subscribed = trade.subscribed,
         trade.failed => trade'.failed,
         trade'.ready => trade.ready \/ trade.inbox[1].is = "listening",
         \/ trade'.failed
         \/ trade.inbox[1].n = 0 /\ trade'.seen = trade.seen
         \/ trade.inbox[1].n > 0 /\ trade'.seen = Append(trade.seen, trade.inbox[1].n)
  PROVE  Stock!TradeFramesAreTrue' /\ Stock!NoSilentLoss' /\ Stock!ReadyIsSubscribed'
<1> DEFINE s == trade.inbox
           a == Tail(s)
           n == trade.sent
           e == trade.seen
           d == trade'.seen
<1>1. s \in Seq(Stock!TradeFrames) /\ e \in Seq(Nat) /\ n \in Nat
  BY DEF Stock!TradeInv, Stock!TypeOK
<1>2. /\ Len(s) \in Nat /\ Len(s) > 0 /\ DOMAIN s = 1..Len(s) /\ DOMAIN a = 1..(Len(s) - 1)
      /\ \A i \in 1..(Len(s) - 1) : a[i] = s[i + 1]
      /\ \A i \in 1..Len(s) : s[i] \in Stock!TradeFrames
  BY <1>1, Shrunk
<1>3. \A i \in DOMAIN s : (s[i].n > 0 <=> s[i].is = "update") /\ (s[i].is = "listening" => trade.subscribed)
  BY DEF Stock!TradeInv, Stock!TradeFramesAreTrue
<1>4. a = trade'.inbox /\ d = trade'.seen /\ n = trade'.sent
  OBVIOUS
<1>5. \A i \in DOMAIN s : s[i].n \in Nat
  <2>1. \A i \in DOMAIN s : s[i] \in Stock!TradeFrames
    BY <1>2
  <2> HIDE DEF s
  <2> QED
    BY <2>1 DEF Stock!TradeFrames
<1>6. /\ 1 \in DOMAIN s
      /\ \A i \in DOMAIN a : i \in Nat /\ i > 0 /\ i + 1 \in DOMAIN s /\ a[i] = s[i + 1] /\ \A j \in 1..(i - 1) : j + 1 \in 1..i /\ a[j] = s[j + 1]
  BY <1>2
<1>7. Stock!TradeFramesAreTrue'
  <2> HIDE DEF s, a
  <2> QED
    BY <1>3, <1>4, <1>6 DEF Stock!TradeFramesAreTrue
<1>8. ASSUME ~trade'.failed PROVE Stock!NoSilentLoss'
  <2>1. /\ \A i \in DOMAIN e : e[i] = i /\ i <= n
        /\ \A i \in DOMAIN s : s[i].n > 0 =>
             Len(e) < s[i].n /\ s[i].n <= n /\ \A j \in 1..(i - 1) : s[j].n < s[i].n
        /\ \A m \in 1..n : m \in DOMAIN e \/ \E i \in DOMAIN s : s[i].n = m
    BY <1>8 DEF Stock!TradeInv, Stock!NoSilentLoss, Stock!PassedOn, Stock!InTurn, Stock!Waits
  <2>2. Len(e) \in Nat /\ DOMAIN e = 1..Len(e)
    BY <1>1
  <2>3. \/ s[1].n = 0 /\ d = e
        \/ s[1].n > 0 /\ d = Append(e, s[1].n)
    BY <1>8
  <2>4. \A i \in DOMAIN a : a[i].n > 0 => s[1].n < a[i].n
    <3> HIDE DEF s, a, n, e
    <3>1. \A i \in DOMAIN a : i + 1 \in DOMAIN s /\ 1 \in 1..((i + 1) - 1) /\ a[i] = s[i + 1]
      BY <1>6
    <3> QED
      BY <2>1, <3>1
  <2>5. \A i \in DOMAIN a : a[i].n > 0 => a[i].n <= n /\ \A j \in 1..(i - 1) : a[j].n < a[i].n
    <3> HIDE DEF s, a, n, e
    <3> SUFFICES ASSUME NEW i \in DOMAIN a, a[i].n > 0 PROVE a[i].n <= n /\ \A j \in 1..(i - 1) : a[j].n < a[i].n
      OBVIOUS
    <3>1. i + 1 \in DOMAIN s /\ a[i] = s[i + 1] /\ \A j \in 1..(i - 1) : j + 1 \in 1..((i + 1) - 1) /\ a[j] = s[j + 1]
      BY <1>6
    <3>2. s[i + 1].n <= n /\ \A j \in 1..((i + 1) - 1) : s[j].n < s[i + 1].n
      BY <2>1, <3>1
    <3> QED
      BY <3>1, <3>2
  <2>6. /\ Len(d) \in Nat /\ DOMAIN d = 1..Len(d) /\ (\A i \in DOMAIN d : d[i] = i /\ i <= n)
        /\ \A i \in DOMAIN a : a[i].n > 0 => Len(d) < a[i].n
        /\ \A m \in 1..n : m \in DOMAIN d \/ \E i \in DOMAIN a : a[i].n = m
    <3>1. ASSUME NEW m \in 1..n, m \notin DOMAIN e, m # s[1].n PROVE \E i \in DOMAIN a : a[i].n = m
      <4>1. PICK i \in DOMAIN s : s[i].n = m
        BY <2>1, <3>1
      <4> HIDE DEF s, a, n, e, d
      <4>2. i # 1 /\ i - 1 \in DOMAIN a /\ a[i - 1] = s[i]
        BY <1>2, <3>1, <4>1
      <4> QED
        BY <4>1, <4>2
    <3>2. CASE s[1].n = 0 /\ d = e
      <4>1. \A i \in DOMAIN a : a[i].n > 0 => Len(e) < a[i].n
        <5> HIDE DEF s, a, n, e
        <5> QED
          BY <1>6, <2>1
      <4>2. \A m \in 1..n : m # s[1].n
        BY <1>1, <3>2
      <4> HIDE DEF s, a, n, e, d
      <4> QED
        BY <2>1, <2>2, <3>1, <3>2, <4>1, <4>2
    <3>3. CASE s[1].n > 0 /\ d = Append(e, s[1].n)
      <4> HIDE DEF s, a, n, e, d
      <4>1. s[1].n \in Nat /\ Len(e) < s[1].n /\ s[1].n <= n
        BY <1>5, <1>6, <2>1, <3>3
      <4>2. s[1].n = Len(e) + 1
        <5>1. SUFFICES ASSUME s[1].n # Len(e) + 1 PROVE FALSE
          OBVIOUS
        <5>2. Len(e) + 1 \in 1..n /\ Len(e) + 1 \notin DOMAIN e
          BY <1>1, <2>2, <4>1
        <5>3. PICK i \in DOMAIN a : a[i].n = Len(e) + 1
          BY <3>1, <5>1, <5>2
        <5>4. s[1].n < Len(e) + 1
          BY <2>2, <2>4, <5>3
        <5> QED
          BY <2>2, <4>1, <5>4
      <4>3. /\ Len(d) = Len(e) + 1 /\ DOMAIN d = 1..(Len(e) + 1)
            /\ (\A i \in 1..Len(e) : d[i] = e[i]) /\ d[Len(e) + 1] = s[1].n
        <5> DEFINE x == s[1].n
        <5>1. e \in Seq(Nat) /\ x \in Nat /\ d = Append(e, x)
          BY <1>1, <3>3, <4>1
        <5> HIDE DEF x
        <5>2. /\ Len(d) = Len(e) + 1 /\ DOMAIN d = 1..(Len(e) + 1)
              /\ (\A i \in 1..Len(e) : d[i] = e[i]) /\ d[Len(e) + 1] = x
          BY <5>1, Grown
        <5> QED
          BY <5>2 DEF x
      <4>4. Len(d) \in Nat /\ DOMAIN d = 1..Len(d) /\ Len(d) = s[1].n
        BY <2>2, <4>2, <4>3
      <4>5. \A i \in DOMAIN d : d[i] = i /\ i <= n
        BY <1>1, <2>1, <2>2, <4>1, <4>2, <4>3
      <4>6. \A m \in 1..n : m \in DOMAIN d \/ \E i \in DOMAIN a : a[i].n = m
        <5>1. ASSUME NEW m \in 1..n, m \notin DOMAIN d PROVE m \notin DOMAIN e /\ m # s[1].n
          BY <1>1, <2>2, <4>2, <4>3, <5>1
        <5> QED
          BY <3>1, <5>1
      <4> QED
        BY <2>4, <4>4, <4>5, <4>6
    <3> QED
      BY <2>3, <3>2, <3>3
  <2> HIDE DEF s, a, n, e
  <2> QED
    BY <1>4, <2>5, <2>6 DEF d, Stock!NoSilentLoss, Stock!PassedOn, Stock!InTurn, Stock!Waits
<1>9. trade'.failed => Stock!NoSilentLoss'
  BY DEF Stock!NoSilentLoss
<1>10. Stock!ReadyIsSubscribed'
  BY <1>3, <1>6 DEF Stock!TradeInv, Stock!ReadyIsSubscribed
<1> QED
  BY <1>7, <1>8, <1>9, <1>10

\* What an order socket may be.
Trades == [phase : Stock!TradePhases, inbox : Seq(Stock!TradeFrames), sent : Nat, subscribed : BOOLEAN, authorized : BOOLEAN,
           listenSent : BOOLEAN, ready : BOOLEAN, failed : BOOLEAN, seen : Seq(Nat)]

(* The fields of an order socket that is given a frame. *)
LEMMA TradeGets ==
  ASSUME NEW t \in Trades, NEW f \in Stock!TradeFrames
  PROVE  /\ Stock!Got(t, f) \in Trades /\ Stock!Got(t, f).inbox = Append(t.inbox, f)
         /\ Stock!Got(t, f).seen = t.seen /\ Stock!Got(t, f).failed = t.failed /\ Stock!Got(t, f).ready = t.ready
         /\ Stock!Got(t, f).sent = t.sent /\ Stock!Got(t, f).subscribed = t.subscribed
<1>1. Append(t.inbox, f) \in Seq(Stock!TradeFrames)
  BY DEF Trades
<1> DEFINE a == Append(t.inbox, f)
<1>2. Stock!Got(t, f) = [t EXCEPT !.inbox = a]
  BY DEF Stock!Got
<1> HIDE DEF a
<1>3. /\ [t EXCEPT !.inbox = a] \in Trades /\ [t EXCEPT !.inbox = a].inbox = a
      /\ [t EXCEPT !.inbox = a].seen = t.seen /\ [t EXCEPT !.inbox = a].failed = t.failed
      /\ [t EXCEPT !.inbox = a].ready = t.ready /\ [t EXCEPT !.inbox = a].sent = t.sent
      /\ [t EXCEPT !.inbox = a].subscribed = t.subscribed
  BY <1>1 DEF Trades, a
<1> QED
  BY <1>2, <1>3 DEF a

(* What the server says. *)
LEMMA TradeServed ==
  ASSUME Stock!TradeInv, Stock!TradeAuthorizes \/ Stock!TradeAcknowledges \/ Stock!TradeReports \/ Stock!TradeGarbles
  PROVE  Stock!TradeInv'
<1>1. trade \in Trades /\ Stock!TypeOK
  BY DEF Stock!TradeInv, Stock!TypeOK, Trades
<1>2. ASSUME NEW t \in Trades, NEW f \in Stock!TradeFrames, Stock!TradeSays(f, t),
             t.inbox = trade.inbox, t.seen = trade.seen, t.failed = trade.failed, t.ready = trade.ready,
             trade.subscribed => t.subscribed, f.is = "listening" => t.subscribed,
             \/ f.is = "update" /\ f.n = trade.sent + 1 /\ t.sent = trade.sent + 1
             \/ f.is # "update" /\ f.n = 0 /\ t.sent = trade.sent
      PROVE  Stock!TradeInv'
  <2>1. trade' = Stock!Got(t, f) /\ UNCHANGED <<market, reader>>
    BY <1>2 DEF Stock!TradeSays
  <2>2. /\ trade' \in Trades /\ trade'.inbox = Append(trade.inbox, f) /\ trade'.seen = trade.seen
        /\ trade'.failed = trade.failed /\ trade'.ready = trade.ready /\ trade'.sent = t.sent
        /\ trade'.subscribed = t.subscribed
    BY <1>2, <2>1, TradeGets
  <2>3. Stock!TradeFramesAreTrue' /\ Stock!NoSilentLoss' /\ Stock!ReadyIsSubscribed'
    BY <1>2, <2>2, UpdateArrives
  <2>4. Stock!TypeOK'
    BY <1>1, <2>1, <2>2 DEF Stock!TypeOK, Trades
  <2> QED
    BY <2>3, <2>4 DEF Stock!TradeInv
<1>3. ASSUME Stock!TradeAuthorizes PROVE Stock!TradeInv'
  <2>1. PICK is \in {"authorized", "unauthorized"} : Stock!TradeSays([is |-> is, n |-> 0], [trade EXCEPT !.phase = is])
    BY <1>3 DEF Stock!TradeAuthorizes
  <2> DEFINE t == [trade EXCEPT !.phase = is]
             f == [is |-> is, n |-> 0]
  <2>2. /\ t \in Trades /\ t.inbox = trade.inbox /\ t.seen = trade.seen /\ t.failed = trade.failed
        /\ t.ready = trade.ready /\ t.subscribed = trade.subscribed /\ t.sent = trade.sent
    BY <1>1 DEF Trades, Stock!TradePhases
  <2>3. f \in Stock!TradeFrames /\ f.is \notin {"update", "listening"} /\ f.n = 0
    BY DEF Stock!TradeFrames
  <2>4. Stock!TradeSays(f, t)
    BY <2>1
  <2> HIDE DEF t, f
  <2> QED
    BY <1>2, <2>2, <2>3, <2>4
<1>4. ASSUME Stock!TradeAcknowledges PROVE Stock!TradeInv'
  <2>1. PICK granted \in BOOLEAN :
          Stock!TradeSays([is |-> IF granted THEN "listening" ELSE "refused", n |-> 0],
                          [trade EXCEPT !.phase = "answered", !.subscribed = @ \/ granted])
    BY <1>4 DEF Stock!TradeAcknowledges
  <2> DEFINE t == [trade EXCEPT !.phase = "answered", !.subscribed = @ \/ granted]
             u == [trade EXCEPT !.phase = "answered", !.subscribed = trade.subscribed \/ granted]
             f == [is |-> IF granted THEN "listening" ELSE "refused", n |-> 0]
  <2>2. t = u
    BY <1>1 DEF Trades
  <2>3. /\ u \in Trades /\ u.inbox = trade.inbox /\ u.seen = trade.seen /\ u.failed = trade.failed
        /\ u.ready = trade.ready /\ (u.subscribed <=> trade.subscribed \/ granted) /\ u.sent = trade.sent
    BY <1>1 DEF Trades, Stock!TradePhases
  <2>4. f \in Stock!TradeFrames /\ f.is # "update" /\ f.n = 0 /\ (f.is = "listening" => granted)
    BY DEF Stock!TradeFrames
  <2>5. Stock!TradeSays(f, t)
    BY <2>1
  <2> HIDE DEF t, u, f
  <2> QED
    BY <1>2, <2>2, <2>3, <2>4, <2>5
<1>5. ASSUME Stock!TradeReports PROVE Stock!TradeInv'
  <2> DEFINE k == trade.sent + 1
             t == [trade EXCEPT !.sent = @ + 1]
             f == [is |-> "update", n |-> trade.sent + 1]
  <2>1. trade.sent \in Nat /\ k \in Nat /\ t = [trade EXCEPT !.sent = k] /\ f = [is |-> "update", n |-> k]
    BY <1>1 DEF Trades
  <2>2. Stock!TradeSays(f, t) /\ k = trade.sent + 1
    BY <1>5 DEF Stock!TradeReports
  <2> HIDE DEF k, t, f
  <2>3. /\ t \in Trades /\ t.inbox = trade.inbox /\ t.seen = trade.seen /\ t.failed = trade.failed
        /\ t.ready = trade.ready /\ t.subscribed = trade.subscribed /\ t.sent = k
    BY <1>1, <2>1 DEF Trades
  <2>4. f \in Stock!TradeFrames /\ f.is = "update" /\ f.n = k
    BY <2>1 DEF Stock!TradeFrames
  <2> QED
    BY <1>2, <2>2, <2>3, <2>4
<1>6. ASSUME Stock!TradeGarbles PROVE Stock!TradeInv'
  <2> DEFINE f == [is |-> "garbled", n |-> 0]
  <2>1. f \in Stock!TradeFrames /\ f.is \notin {"update", "listening"} /\ f.n = 0
    BY DEF Stock!TradeFrames
  <2>2. Stock!TradeSays(f, trade)
    BY <1>6 DEF Stock!TradeGarbles
  <2> HIDE DEF f
  <2> QED
    BY <1>1, <1>2, <2>1, <2>2
<1> QED
  BY <1>3, <1>4, <1>5, <1>6

(* The listeners, and a subscription that goes live. *)
LEMMA TradeHandled ==
  ASSUME Stock!TradeInv, Stock!TradeSubscribes \/ Stock!TradeOpens \/ Stock!TradeCloses \/ Stock!TradeDecoded
  PROVE  Stock!TradeInv'
<1>1. trade \in Trades /\ Stock!TypeOK
  BY DEF Stock!TradeInv, Stock!TypeOK, Trades
<1>2. trade' \in Trades /\ UNCHANGED <<market, reader>> => Stock!TypeOK'
  BY <1>1 DEF Stock!TypeOK, Trades
<1>3. ASSUME Stock!TradeSubscribes \/ Stock!TradeOpens \/ Stock!TradeCloses PROVE Stock!TradeInv'
  <2>1. /\ trade' \in Trades /\ trade'.inbox = trade.inbox /\ trade'.seen = trade.seen /\ trade'.sent = trade.sent
        /\ trade'.ready = trade.ready /\ (trade.subscribed => trade'.subscribed) /\ (trade.failed => trade'.failed)
        /\ UNCHANGED <<market, reader>>
    BY <1>1, <1>3 DEF Trades, Stock!TradePhases, Stock!TradeSubscribes, Stock!TradeOpens, Stock!TradeCloses, Stock!Closed
  <2>2. Stock!TradeFramesAreTrue' /\ Stock!ReadyIsSubscribed'
    BY <2>1 DEF Stock!TradeInv, Stock!TradeFramesAreTrue, Stock!ReadyIsSubscribed
  <2>3. Stock!NoSilentLoss'
    BY <2>1 DEF Stock!TradeInv, Stock!NoSilentLoss, Stock!PassedOn, Stock!InTurn, Stock!Waits
  <2> QED
    BY <1>2, <2>1, <2>2, <2>3 DEF Stock!TradeInv
<1>4. ASSUME Stock!TradeDecoded PROVE Stock!TradeInv'
  <2>1. trade.inbox \in Seq(Stock!TradeFrames) /\ trade.seen \in Seq(Nat)
    BY <1>1 DEF Trades
  <2>2. /\ 1 \in DOMAIN trade.inbox /\ UNCHANGED <<market, reader>>
        /\ trade' = [Stock!Handled(trade, trade.inbox[1]) EXCEPT !.inbox = Stock!Without(trade.inbox, 1)]
    BY <1>4, <2>1 DEF Stock!TradeDecoded, Stock!Chain
  <2> DEFINE f == trade.inbox[1]
             t == Stock!Handled(trade, f)
             rest == Tail(trade.inbox)
             a == Append(trade.seen, f.n)
  <2>3. trade.inbox # << >> /\ Stock!Without(trade.inbox, 1) = rest
    BY <2>1, <2>2, FirstGoes
  <2>4. rest \in Seq(Stock!TradeFrames) /\ f \in Stock!TradeFrames
    BY <2>1, <2>2, <2>3, Shrunk, ElementOfSeq
  <2>5. f.n \in Nat
    BY <2>4 DEF Stock!TradeFrames
  <2>6. a \in Seq(Nat)
    BY <2>1, <2>5
  <2>7. f.n > 0 <=> f.is = "update"
    BY <2>2 DEF Stock!TradeInv, Stock!TradeFramesAreTrue
  <2>8. /\ t \in Trades /\ t.sent = trade.sent /\ t.subscribed = trade.subscribed /\ (trade.failed => t.failed)
        /\ (t.ready => trade.ready \/ f.is = "listening")
        /\ \/ t.failed
           \/ f.n = 0 /\ t.seen = trade.seen
           \/ f.n > 0 /\ t.seen = a
    <3> HIDE DEF f
    <3> USE <1>1 DEF Trades, Stock!TradePhases
    <3>1. CASE f.is = "authorized"
      <4> DEFINE u == [trade EXCEPT !.authorized = TRUE, !.listenSent = TRUE]
      <4>1. t = Stock!Step(u, "authorized", "listen")
        BY <3>1 DEF Stock!Handled
      <4>2. /\ u \in Trades /\ u.sent = trade.sent /\ u.subscribed = trade.subscribed /\ u.failed = trade.failed
            /\ u.ready = trade.ready /\ u.seen = trade.seen
        OBVIOUS
      <4> HIDE DEF u, t
      <4>3. /\ t \in Trades /\ t.sent = trade.sent /\ t.subscribed = trade.subscribed /\ t.failed = trade.failed
            /\ t.ready = trade.ready /\ t.seen = trade.seen
        BY <4>1, <4>2 DEF Stock!Step
      <4> QED
        BY <2>5, <2>7, <3>1, <4>3
    <3>2. CASE f.is \in {"listening", "refused"}
      <4>1. (t = [trade EXCEPT !.ready = TRUE] /\ f.is = "listening") \/ t = [trade EXCEPT !.failed = TRUE]
        BY <3>2 DEF Stock!Handled, Stock!Acknowledges
      <4>2. f.n = 0
        BY <2>5, <2>7, <3>2
      <4> HIDE DEF t
      <4> QED
        BY <4>1, <4>2
    <3>3. CASE f.is = "update"
      <4>1. t = [trade EXCEPT !.seen = a] \/ t = [trade EXCEPT !.failed = TRUE]
        BY <3>3 DEF Stock!Handled, Stock!TooEarly
      <4> HIDE DEF t, a
      <4> QED
        BY <2>6, <2>7, <3>3, <4>1
    <3>4. CASE f.is \notin {"authorized", "listening", "refused", "update"}
      <4>1. t = [trade EXCEPT !.failed = TRUE]
        BY <3>4 DEF Stock!Handled
      <4> HIDE DEF t
      <4> QED
        BY <4>1
    <3> QED
      BY <3>1, <3>2, <3>3, <3>4
  <2> HIDE DEF t, rest
  <2>9. trade' = [t EXCEPT !.inbox = rest]
    BY <2>2, <2>3 DEF t
  <2>10. /\ trade' \in Trades /\ trade'.inbox = rest /\ trade'.seen = t.seen /\ trade'.sent = t.sent
         /\ trade'.ready = t.ready /\ trade'.subscribed = t.subscribed /\ trade'.failed = t.failed
    BY <2>4, <2>8, <2>9 DEF Trades
  <2>11. Stock!TradeFramesAreTrue' /\ Stock!NoSilentLoss' /\ Stock!ReadyIsSubscribed'
    BY <2>3, <2>8, <2>10, UpdateDecoded DEF rest
  <2> QED
    BY <1>2, <2>2, <2>10, <2>11 DEF Stock!TradeInv
<1> QED
  BY <1>3, <1>4

(* No update is lost in silence by any step of the order socket. *)
LEMMA TradeStep == Stock!TradeInv /\ Stock!TradeNext => Stock!TradeInv'
  BY TradeServed, TradeHandled DEF Stock!TradeNext

----------------------------------------------------------------------------
(* The pages of the history.                                                *)

(* A set of numbers has a least element. *)
LEMMA HasLeast == ASSUME NEW S \in SUBSET Nat, S # {} PROVE \E m \in S : \A k \in S : m <= k
<1>1. PICK m \in S : \A k \in S : ~(<<k, m>> \in OpToRel(<, Nat))
  BY NatLessThanWellFounded, WFMin
<1>2. ASSUME NEW k \in S PROVE m <= k
  <2>1. m \in Nat /\ k \in Nat
    OBVIOUS
  <2>2. k < m => <<k, m>> \in OpToRel(<, Nat)
    BY <2>1 DEF OpToRel
  <2>3. ~(k < m)
    BY <1>1, <2>2, Zenon
  <2> QED
    BY <2>1, <2>3
<1> QED
  BY <1>2

(* There is one way to put n of n consecutive numbers in order. *)
LEMMA OneOrder ==
  ASSUME NEW a \in Nat, NEW n \in Nat, NEW s \in [1..n -> a..(a + n - 1)],
         \A i, j \in 1..n : i < j => s[i] < s[j]
  PROVE  \A i \in 1..n : s[i] = a + i - 1
<1>1. \A i \in 1..n : s[i] \in Nat /\ a <= s[i] /\ s[i] <= a + n - 1
  OBVIOUS
<1>2. ASSUME NEW x \in 1..n, s[x] < a + x - 1 PROVE FALSE
  <2> DEFINE U == {i \in 1..n : s[i] < a + i - 1}
  <2>1. U \in SUBSET Nat /\ U # {}
    BY <1>2
  <2>2. PICK m \in U : \A k \in U : m <= k
    BY <2>1, HasLeast
  <2>3. m \in 1..n /\ s[m] < a + m - 1
    OBVIOUS
  <2>4. m # 1
    BY <1>1, <2>3
  <2>5. m - 1 \in 1..n /\ m - 1 \notin U
    BY <2>2, <2>3, <2>4
  <2>6. s[m - 1] >= a + (m - 1) - 1
    BY <1>1, <2>5
  <2>7. s[m - 1] < s[m]
    BY <2>3, <2>5
  <2> QED
    BY <1>1, <2>3, <2>5, <2>6, <2>7
<1>3. ASSUME NEW x \in 1..n, s[x] > a + x - 1 PROVE FALSE
  <2> DEFINE U == {k \in 0..(n - 1) : s[n - k] > a + (n - k) - 1}
  <2>1. n - x \in U /\ U \in SUBSET Nat
    <3>1. n - x \in 0..(n - 1) /\ n - (n - x) = x
      OBVIOUS
    <3> QED
      BY <1>3, <3>1
  <2>2. PICK m \in U : \A k \in U : m <= k
    BY <2>1, HasLeast
  <2>3. m \in 0..(n - 1) /\ n - m \in 1..n /\ s[n - m] > a + (n - m) - 1
    OBVIOUS
  <2>4. m # 0
    BY <1>1, <2>3
  <2>5. m - 1 \in 0..(n - 1) /\ m - 1 \notin U
    <3>1. m - 1 \in 0..(n - 1) /\ ~(m <= m - 1)
      BY <2>3, <2>4
    <3> HIDE DEF U
    <3> QED
      BY <2>2, <3>1
  <2> DEFINE y == n - (m - 1)
  <2>6. y \in 1..n /\ n - m < y /\ y = (n - m) + 1
    BY <2>3, <2>4
  <2>7. ~(s[y] > a + y - 1)
    BY <2>5
  <2>8. s[n - m] < s[y]
    BY <2>3, <2>6
  <2> HIDE DEF y, U
  <2> QED
    BY <1>1, <2>3, <2>6, <2>7, <2>8
<1> QED
  <2>1. ASSUME NEW i \in 1..n PROVE s[i] = a + i - 1
    <3>1. s[i] \in Nat /\ ~(s[i] < a + i - 1) /\ ~(s[i] > a + i - 1)
      BY <1>1, <1>2, <1>3
    <3> QED
      BY <3>1
  <2> QED
    BY <2>1

(* The size of a set is the same wherever it is taken. *)
LEMMA SameSize == ASSUME NEW S PROVE History!Cardinality(S) = Cardinality(S)
  BY DEF History!Cardinality, Cardinality

(* The same, for any of them. *)
LEMMA AnyInOrder ==
  ASSUME NEW a \in Nat, NEW n \in Nat
  PROVE  \A s \in [1..n -> a..(a + n - 1)] :
           (\A i, j \in 1..n : i < j => s[i] < s[j]) => \A i \in 1..n : s[i] = a + i - 1
<1>1. ASSUME NEW s \in [1..n -> a..(a + n - 1)], \A i, j \in 1..n : i < j => s[i] < s[j]
      PROVE  \A i \in 1..n : s[i] = a + i - 1
  BY <1>1, OneOrder, Zenon
<1> QED
  BY <1>1

(* What passes the checks of an answer and is sorted is the window, minute by minute. *)
LEMMA SortedIsWhole ==
  ASSUME NEW a \in Nat, NEW b \in Nat, a < b, asked.start = a, asked.end = b,
         NEW n \in Nat, NEW rows \in [1..n -> History!Row],
         \A i \in DOMAIN rows : History!Strict(rows[i]), ~History!Doubled(rows), History!Complete(rows)
  PROVE  /\ Len(History!InOrder(rows)) = b - a
         /\ \A i \in DOMAIN History!InOrder(rows) : History!InOrder(rows)[i] = a + i - 1
<1> DEFINE T == {rows[i].t : i \in DOMAIN rows}
<1>1. DOMAIN rows = 1..n /\ Len(rows) = n /\ rows \in Seq(History!Row)
  OBVIOUS
<1>2. \A i \in 1..n : rows[i].t \in Nat /\ a <= rows[i].t /\ rows[i].t < b
  <2>1. \A i \in 1..n : rows[i] \in History!Row
    OBVIOUS
  <2>2. \A i \in 1..n : rows[i].t \in Nat
    BY <2>1, StampsAreNumbers DEF History!Row
  <2> QED
    BY <1>1, <2>2 DEF History!Strict
<1>3. T = a..(b - 1)
  <2>1. T \subseteq a..(b - 1)
    BY <1>1, <1>2
  <2>2. a..(b - 1) \subseteq T
    BY <1>1 DEF History!Complete
  <2> QED
    BY <2>1, <2>2
<1>4. Cardinality(T) = n
  <2>1. History!Cardinality(T) = Len(rows)
    BY Zenon DEF History!Doubled
  <2> HIDE DEF T
  <2> QED
    BY <1>1, <2>1, SameSize
<1>5. n = b - a
  <2>1. Cardinality(a..(b - 1)) = IF a > b - 1 THEN 0 ELSE (b - 1) - a + 1
    BY FS_Interval
  <2> HIDE DEF T
  <2> QED
    BY <1>3, <1>4, <2>1
<1>6. a..(b - 1) = a..(a + n - 1)
  BY <1>5
<1> DEFINE Sorted(s) == s \in [1..n -> a..(a + n - 1)] /\ \A i, j \in 1..n : i < j => s[i] < s[j]
           even == [i \in 1..n |-> a + i - 1]
<1>7. Sorted(even)
  BY <1>5
<1>8. History!InOrder(rows) = CHOOSE s \in [1..n -> a..(a + n - 1)] : \A i, j \in DOMAIN s : i < j => s[i] < s[j]
  BY <1>1, <1>3, <1>6 DEF History!InOrder
<1> DEFINE v == History!InOrder(rows)
<1>9. v \in [1..n -> a..(a + n - 1)] /\ \A i, j \in DOMAIN v : i < j => v[i] < v[j]
  <2>1. even \in [1..n -> a..(a + n - 1)] /\ \A i, j \in DOMAIN even : i < j => even[i] < even[j]
    BY <1>7
  <2> HIDE DEF even
  <2> QED
    BY <1>8, <2>1
<1> HIDE DEF v
<1>10. DOMAIN v = 1..n /\ Len(v) = n
  BY <1>9
<1>11. \A i \in 1..n : v[i] = a + i - 1
  <2>1. v \in [1..n -> a..(a + n - 1)] /\ \A i, j \in 1..n : i < j => v[i] < v[j]
    BY <1>9, <1>10
  <2>2. \A s \in [1..n -> a..(a + n - 1)] :
           (\A i, j \in 1..n : i < j => s[i] < s[j]) => \A i \in 1..n : s[i] = a + i - 1
    BY AnyInOrder
  <2> QED
    BY <2>1, <2>2
<1> QED
  BY <1>5, <1>10, <1>11 DEF v

\* A request is of two of the minutes; what it was answered is a whole page or no page.
HistoryInv ==
  /\ asked \in [start : Stamps, end : Stamps]
  /\ History!PageIsWhole

(* A page is whole when it is made. *)
LEMMA HistoryStep == HistoryInv /\ History!Next => HistoryInv'
<1> SUFFICES ASSUME HistoryInv, History!Next PROVE HistoryInv'
  OBVIOUS
<1>1. asked' = asked /\ asked.start \in Nat /\ asked.end \in Nat
  BY StampsAreNumbers DEF HistoryInv, History!Next, History!Rejected, History!FetchFails, History!Answered, History!Fetched
<1>2. ASSUME NEW kind, kind # "page", result' = History!Error(kind) PROVE History!PageIsWhole'
  BY <1>2 DEF History!PageIsWhole, History!Error
<1>3. ASSUME History!Rejected PROVE History!PageIsWhole'
  BY <1>2, <1>3 DEF History!Rejected
<1>4. ASSUME History!FetchFails PROVE History!PageIsWhole'
  BY <1>2, <1>4 DEF History!FetchFails
<1>5. ASSUME History!Answered PROVE History!PageIsWhole'
  <2>1. PICK rows \in UNION {[1..n -> History!Row] : n \in 0..MaxRows} :
          result' = IF (\E i \in DOMAIN rows : ~History!Strict(rows[i])) \/ History!Doubled(rows) \/ ~History!Complete(rows)
                    THEN History!Error("PROTOCOL_FAILURE") ELSE History!Page(History!InOrder(rows))
    BY <1>5 DEF History!Answered
  <2>2. asked.start < asked.end
    BY <1>5 DEF History!Answered, History!Fetched
  <2>3. PICK n \in Nat : rows \in [1..n -> History!Row]
    OBVIOUS
  <2>4. CASE (\E i \in DOMAIN rows : ~History!Strict(rows[i])) \/ History!Doubled(rows) \/ ~History!Complete(rows)
    BY <1>2, <2>1, <2>4
  <2>5. CASE ~((\E i \in DOMAIN rows : ~History!Strict(rows[i])) \/ History!Doubled(rows) \/ ~History!Complete(rows))
    <3>1. result' = History!Page(History!InOrder(rows))
      BY <2>1, <2>5
    <3>2. /\ Len(History!InOrder(rows)) = asked.end - asked.start
          /\ \A i \in DOMAIN History!InOrder(rows) : History!InOrder(rows)[i] = asked.start + i - 1
      BY <1>1, <2>2, <2>3, <2>5, SortedIsWhole
    <3>3. result'.bars = History!InOrder(rows)
      BY <3>1 DEF History!Page
    <3> QED
      BY <1>1, <3>2, <3>3 DEF History!PageIsWhole
  <2> QED
    BY <2>4, <2>5
<1> QED
  BY <1>1, <1>3, <1>4, <1>5 DEF HistoryInv, History!Next

----------------------------------------------------------------------------
(* The tape of the observer.                                                *)

Grade(r) == Watch!Rank[r.status]

(* A row is its number and how far it got. *)
LEMMA Grades ==
  ASSUME NEW r \in Watch!Rows
  PROVE  /\ r.id \in Nat /\ r.id > 0 /\ Grade(r) \in 0..3 /\ (Grade(r) = 0 <=> r.status = "WRITTEN")
         /\ \A s \in Watch!Rows : s.id = r.id /\ Grade(s) = Grade(r) => s = r
<1>1. DOMAIN Watch!Rank = {"WRITTEN", "PENDING", "SUBMISSION_ATTEMPTED", "FILLED"}
  BY DEF Watch!Rank
<1>2. Watch!Rank["WRITTEN"] = 0 /\ Watch!Rank["PENDING"] = 1 /\ Watch!Rank["SUBMISSION_ATTEMPTED"] = 2 /\ Watch!Rank["FILLED"] = 3
  BY DEF Watch!Rank
<1>3. \A x \in Watch!Rows :
        /\ x.id \in Nat \ {0} /\ x.status \in {"WRITTEN", "PENDING", "SUBMISSION_ATTEMPTED", "FILLED"}
        /\ x = [id |-> x.id, status |-> x.status]
  BY <1>1 DEF Watch!Rows
<1>4. \A x, y \in {"WRITTEN", "PENDING", "SUBMISSION_ATTEMPTED", "FILLED"} : Watch!Rank[x] = Watch!Rank[y] => x = y
  BY <1>2
<1>5. \A s \in Watch!Rows : s.id = r.id /\ Grade(s) = Grade(r) => s = r
  BY <1>3, <1>4 DEF Grade
<1>6. Grade(r) \in 0..3 /\ (Grade(r) = 0 <=> r.status = "WRITTEN")
  BY <1>2, <1>3 DEF Grade
<1> QED
  BY <1>3, <1>5, <1>6

\* The rows of one kind: only intents have a status.
OfKind(plain, r) == r.status = "WRITTEN" <=> plain

(* A memory that is full has something in it that cannot be in one window with the oldest. *)
LEMMA MemoryIsLong ==
  ASSUME NEW q \in Seq(Watch!Rows), NEW width \in Nat \ {0}, Watch!InOrder(q, width), Limit \in Nat, Len(q) = Limit + 1,
         NEW plain \in BOOLEAN, \A j \in DOMAIN q : OfKind(plain, q[j]),
         Limit > (IF plain THEN 2 * (width - 1) ELSE 3 * (2 * (width - 1))),
         \A j \in DOMAIN q : q[j].id < q[1].id + width,
         \A j \in DOMAIN q : j # 1 => q[j].id # q[1].id
  PROVE  FALSE
<1> DEFINE h == q[1].id
           place(j) == q[j].id - (h - width + 1) - (IF q[j].id > h THEN 1 ELSE 0)
           code(j) == IF plain THEN place(j) ELSE 3 * place(j) + (Grade(q[j]) - 1)
           size == IF plain THEN 2 * (width - 1) ELSE 3 * (2 * (width - 1))
<1>1. DOMAIN q = 1..(Limit + 1) /\ Limit + 1 \in Nat
  OBVIOUS
<1>2. \A j \in 1..(Limit + 1) : q[j] \in Watch!Rows
  BY <1>1
<1>3. \A j \in 1..(Limit + 1) : q[j].id \in Nat /\ Grade(q[j]) \in 0..3 /\ (Grade(q[j]) = 0 <=> plain)
  BY <1>1, <1>2, Grades DEF OfKind
<1>4. h \in Nat /\ width \in Nat /\ width >= 1
  BY <1>3
<1> HIDE DEF h
<1>5. ASSUME NEW j \in 2..(Limit + 1) PROVE place(j) \in 0..(2 * (width - 1) - 1) /\ code(j) \in 0..(size - 1)
  <2>1. j \in 1..(Limit + 1) /\ j # 1 /\ 1 \in 1..(Limit + 1) /\ 1 < j
    OBVIOUS
  <2>2. q[j].id + width > h
    BY <1>1, <2>1 DEF Watch!InOrder, h
  <2>3. q[j].id < h + width /\ q[j].id # h
    BY <1>1, <2>1 DEF h
  <2>4. q[j].id \in Nat
    BY <1>3, <2>1
  <2>5. place(j) \in 0..(2 * (width - 1) - 1)
    <3> DEFINE v == q[j].id
    <3>1. place(j) = v - (h - width + 1) - (IF v > h THEN 1 ELSE 0)
      OBVIOUS
    <3>2. v \in Nat /\ v + width > h /\ v < h + width /\ v # h
      BY <2>2, <2>3, <2>4
    <3> HIDE DEF v, place
    <3>3. h \in Int /\ width \in Int
      BY <1>4
    <3>4. CASE v > h
      BY <3>1, <3>2, <3>3, <3>4
    <3>5. CASE ~(v > h)
      BY <3>1, <3>2, <3>3, <3>5
    <3> QED
      BY <3>4, <3>5
  <2> HIDE DEF place
  <2>6. CASE plain
    BY <2>5, <2>6
  <2>7. CASE ~plain
    <3>1. Grade(q[j]) \in 1..3
      BY <1>3, <2>1, <2>7
    <3> QED
      BY <1>4, <2>5, <2>7, <3>1
  <2> QED
    BY <2>5, <2>6, <2>7
<1>6. ASSUME NEW i \in 2..(Limit + 1), NEW j \in 2..(Limit + 1), i < j, code(i) = code(j) PROVE FALSE
  <2>1. i \in DOMAIN q /\ j \in DOMAIN q /\ i \in 1..(Limit + 1) /\ j \in 1..(Limit + 1) /\ i # 1 /\ j # 1
    BY <1>1
  <2>2. place(i) \in Int /\ place(j) \in Int
    BY <1>5
  <2>3. place(i) = place(j) /\ (~plain => Grade(q[i]) = Grade(q[j]))
    <3> HIDE DEF place
    <3>1. CASE plain
      BY <1>6, <3>1
    <3>2. CASE ~plain
      <4>1. Grade(q[i]) \in 1..3 /\ Grade(q[j]) \in 1..3
        BY <1>3, <2>1, <3>2
      <4>2. 3 * place(i) + (Grade(q[i]) - 1) = 3 * place(j) + (Grade(q[j]) - 1)
        BY <1>6, <3>2
      <4> QED
        BY <2>2, <4>1, <4>2
    <3> QED
      BY <3>1, <3>2
  <2>4. q[i].id \in Nat /\ q[j].id \in Nat /\ q[i].id # h /\ q[j].id # h
    BY <1>1, <1>3, <2>1 DEF h
  <2>5. q[i].id = q[j].id
    <3> DEFINE a == q[i].id
               b == q[j].id
    <3>1. a - (h - width + 1) - (IF a > h THEN 1 ELSE 0) = b - (h - width + 1) - (IF b > h THEN 1 ELSE 0)
      BY <2>3
    <3>2. a \in Nat /\ b \in Nat /\ a # h /\ b # h
      BY <2>4
    <3> HIDE DEF a, b
    <3>3. a = b
      BY <1>4, <3>1, <3>2
    <3> QED
      BY <3>3 DEF a, b
  <2>6. Grade(q[i]) < Grade(q[j])
    BY <1>6, <2>1, <2>5 DEF Watch!InOrder, Grade
  <2>7. Grade(q[i]) \in 0..3 /\ Grade(q[j]) \in 0..3 /\ (plain => Grade(q[i]) = 0 /\ Grade(q[j]) = 0)
    BY <1>3, <2>1
  <2> QED
    BY <2>3, <2>6, <2>7
<1> DEFINE S == 2..(Limit + 1)
           T == 0..(size - 1)
           f == [j \in S |-> code(j)]
<1>7. f \in [S -> T]
  <2> HIDE DEF code, size
  <2> QED
    BY <1>5
<1>8. IsFiniteSet(S) /\ Cardinality(S) = Limit
  <2>1. IsFiniteSet(S) /\ Cardinality(S) = IF 2 > Limit + 1 THEN 0 ELSE (Limit + 1) - 2 + 1
    BY <1>1, FS_Interval
  <2> QED
    BY <2>1
<1>9. size \in Int /\ size >= 0 /\ size < Limit
  BY <1>4
<1>10. IsFiniteSet(T) /\ Cardinality(T) = size
  <2> HIDE DEF size
  <2> DEFINE top == size - 1
  <2>1. 0 \in Int /\ top \in Int
    BY <1>9
  <2>2. T = 0..top
    OBVIOUS
  <2> HIDE DEF top, T
  <2>3. IsFiniteSet(0..top) /\ Cardinality(0..top) = IF 0 > top THEN 0 ELSE top - 0 + 1
    BY <2>1, FS_Interval
  <2> QED
    BY <1>9, <2>2, <2>3 DEF top
<1>11. PICK x, y \in S : x # y /\ f[x] = f[y]
  <2> HIDE DEF S, T, f, size
  <2> QED
    BY <1>7, <1>8, <1>9, <1>10, FS_PigeonHole
<1>12. code(x) = code(y) /\ x \in Int /\ y \in Int
  <2> HIDE DEF code
  <2> QED
    BY <1>11
<1> HIDE DEF code
<1>13. x < y \/ y < x
  BY <1>11, <1>12
<1> QED
  BY <1>6, <1>11, <1>12, <1>13

(* What is in a sequence. *)
LEMMA InRange == ASSUME NEW s, NEW x PROVE x \in Watch!Range(s) <=> \E i \in DOMAIN s : s[i] = x
  BY DEF Watch!Range

(* The rows of a snapshot are numbered downwards. *)
LEMMA WindowIs ==
  ASSUME NEW s \in Seq(Watch!Rows), NEW width \in Nat \ {0}, Watch!IsWindow(s, width), NEW i \in DOMAIN s
  PROVE  /\ s[1] \in Watch!Rows /\ s[i] \in Watch!Rows /\ s[1].id \in Nat /\ s[i].id \in Nat
         /\ s[i].id = s[1].id + 1 - i /\ s[i].id <= s[1].id /\ s[i].id + width > s[1].id
<1>1. s # << >> /\ Len(s) \in Nat /\ DOMAIN s = 1..Len(s) /\ i \in 1..Len(s) /\ 1 \in DOMAIN s
  OBVIOUS
<1>2. s[1] \in Watch!Rows /\ s[i] \in Watch!Rows
  BY <1>1
<1>3. s[1].id \in Nat /\ s[i].id \in Nat
  BY <1>2, Grades
<1>4. s[i].id = s[1].id + 1 - i
  BY DEF Watch!IsWindow
<1>5. Len(s) = IF s[1].id < width THEN s[1].id ELSE width
  BY <1>1 DEF Watch!IsWindow
<1>6. Len(s) <= width
  BY <1>1, <1>3, <1>5
<1> QED
  BY <1>1, <1>2, <1>3, <1>4, <1>6

(* The newest row of a window is above its other rows, and every row that is not below the window is in it. *)
LEMMA WindowHas ==
  ASSUME NEW s \in Seq(Watch!Rows), NEW width \in Nat \ {0}, Watch!IsWindow(s, width), s # << >>,
         NEW n \in Nat, n > 0, n <= s[1].id, n + width > s[1].id
  PROVE  \E j \in DOMAIN s : s[j].id = n
<1>1. Len(s) \in Nat /\ DOMAIN s = 1..Len(s) /\ 1 \in DOMAIN s
  OBVIOUS
<1>2. s[1].id \in Nat
  BY <1>1, WindowIs
<1> DEFINE j == s[1].id + 1 - n
<1>3. Len(s) = IF s[1].id < width THEN s[1].id ELSE width
  BY DEF Watch!IsWindow
<1>4. j \in 1..Len(s)
  BY <1>2, <1>3
<1>5. s[j].id = s[1].id + 1 - j
  BY <1>1, <1>4 DEF Watch!IsWindow
<1> QED
  BY <1>1, <1>2, <1>4, <1>5

(* A memory that gets one more key stays in order. *)
LEMMA OrderGrows ==
  ASSUME NEW q \in Seq(Watch!Rows), NEW width \in Nat, Watch!InOrder(q, width), NEW x \in Watch!Rows,
         \A i \in DOMAIN q : x.id + width > q[i].id /\ (x.id = q[i].id => Grade(q[i]) < Grade(x))
  PROVE  Watch!InOrder(Append(q, x), width)
<1> DEFINE r == Append(q, x)
<1>1. /\ Len(q) \in Nat /\ DOMAIN q = 1..Len(q) /\ DOMAIN r = 1..(Len(q) + 1) /\ r[Len(q) + 1] = x
      /\ \A i \in 1..Len(q) : r[i] = q[i]
  OBVIOUS
<1> HIDE DEF r
<1> SUFFICES ASSUME NEW i \in DOMAIN r, NEW j \in DOMAIN r, i < j
             PROVE  /\ r[j].id + width > r[i].id
                    /\ r[j].id = r[i].id => Grade(r[i]) < Grade(r[j])
  BY DEF Watch!InOrder, Grade, r
<1>2. i \in 1..Len(q)
  BY <1>1
<1>3. CASE j = Len(q) + 1
  BY <1>1, <1>2, <1>3
<1>4. CASE j # Len(q) + 1
  <2>1. j \in 1..Len(q)
    BY <1>1, <1>4
  <2>2. r[i] = q[i] /\ r[j] = q[j]
    BY <1>1, <1>2, <2>1
  <2> QED
    BY <1>1, <1>2, <2>1, <2>2 DEF Watch!InOrder, Grade
<1> QED
  BY <1>3, <1>4

(* A memory that loses its oldest key stays in order. *)
LEMMA OrderShrinks ==
  ASSUME NEW q \in Seq(Watch!Rows), NEW width \in Nat, Watch!InOrder(q, width), q # << >>
  PROVE  Watch!InOrder(Tail(q), width)
<1> DEFINE r == Tail(q)
<1>1. /\ Len(q) \in Nat /\ DOMAIN q = 1..Len(q) /\ DOMAIN r = 1..(Len(q) - 1) /\ \A i \in 1..(Len(q) - 1) : r[i] = q[i + 1]
  BY Shrunk
<1> HIDE DEF r
<1> SUFFICES ASSUME NEW i \in DOMAIN r, NEW j \in DOMAIN r, i < j
             PROVE  /\ r[j].id + width > r[i].id
                    /\ r[j].id = r[i].id => Grade(r[i]) < Grade(r[j])
  BY DEF Watch!InOrder, Grade, r
<1>2. i + 1 \in DOMAIN q /\ j + 1 \in DOMAIN q /\ i + 1 < j + 1 /\ r[i] = q[i + 1] /\ r[j] = q[j + 1]
  BY <1>1
<1> QED
  BY <1>2 DEF Watch!InOrder, Grade

\* A memory and the rows of a snapshot that is no older than what it remembers.
Facing(plain, q, s, width) ==
  /\ plain \in BOOLEAN /\ q \in Seq(Watch!Rows) /\ s \in Seq(Watch!Rows) /\ width \in Nat \ {0} /\ Limit \in Nat
  /\ Limit > IF plain THEN 2 * (width - 1) ELSE 3 * (2 * (width - 1))
  /\ Len(q) <= Limit /\ Watch!InOrder(q, width) /\ Watch!IsWindow(s, width)
  /\ \A i \in DOMAIN q : OfKind(plain, q[i])
  /\ \A j \in DOMAIN s : OfKind(plain, s[j])
  /\ \A i \in DOMAIN q :
       /\ s # << >> /\ q[i].id <= s[1].id
       /\ \A j \in DOMAIN s : q[i].id = s[j].id => Grade(q[i]) <= Grade(s[j])

\* What add() has made of the first rows of the snapshot.
Noting(kind, acc, n, q, s, width) ==
  /\ acc \in [queue : Seq(Watch!Rows), new : SUBSET (Watch!Kinds \X Watch!Rows)]
  /\ Len(acc.queue) <= Limit /\ Watch!InOrder(acc.queue, width)
  /\ \A x \in Watch!Range(acc.queue) : x \in Watch!Range(q) \/ \E i \in 1..n : s[i] = x
  /\ \A x \in Watch!Range(q) : x \in Watch!Range(s) => x \in Watch!Range(acc.queue)
  /\ \A i \in 1..n : s[i] \in Watch!Range(acc.queue)
  /\ acc.new = {<<kind, s[i]>> : i \in {k \in 1..n : s[k] \notin Watch!Range(q)}}

\* A row that is of the snapshot, or of an earlier one.
NotNewer(plain, x, s) ==
  /\ x \in Watch!Rows /\ OfKind(plain, x) /\ x.id \in Nat /\ x.id <= s[1].id /\ s[1].id \in Nat
  /\ \A j \in DOMAIN s : x.id = s[j].id => Grade(x) <= Grade(s[j])

(* Whatever is in memory meanwhile is of the snapshot or is not newer than it. *)
LEMMA NotedAre ==
  ASSUME NEW kind, NEW plain, NEW q, NEW s, NEW width, Facing(plain, q, s, width),
         NEW n \in 0..Len(s), NEW acc, Noting(kind, acc, n, q, s, width), s # << >>, NEW x \in Watch!Range(acc.queue)
  PROVE  NotNewer(plain, x, s)
<1>1. Len(s) \in Nat /\ DOMAIN s = 1..Len(s) /\ 1 \in DOMAIN s /\ q \in Seq(Watch!Rows) /\ s \in Seq(Watch!Rows)
  BY DEF Facing
<1>2. s[1].id \in Nat /\ \A i \in DOMAIN s : s[i] \in Watch!Rows /\ s[i].id \in Nat /\ s[i].id <= s[1].id /\ s[i].id = s[1].id + 1 - i
  BY <1>1, WindowIs DEF Facing
<1>3. CASE x \in Watch!Range(q)
  <2>1. PICK i \in DOMAIN q : q[i] = x
    BY <1>3, InRange
  <2>2. x \in Watch!Rows
    BY <1>1, <2>1
  <2> QED
    BY <1>2, <2>1, <2>2, Grades DEF Facing, NotNewer
<1>4. CASE \E i \in 1..n : s[i] = x
  <2>1. PICK i \in 1..n : s[i] = x
    BY <1>4
  <2>2. i \in DOMAIN s
    BY <1>1
  <2>3. ASSUME NEW j \in DOMAIN s, s[i].id = s[j].id PROVE i = j
    <3> DEFINE top == s[1].id
               a == s[i].id
               b == s[j].id
    <3>1. i \in Int /\ j \in Int
      BY <1>1
    <3>2. top \in Int
      BY <1>2
    <3>3. a = top + 1 - i
      BY <1>2, <2>2
    <3>4. b = top + 1 - j
      BY <1>2
    <3>5. a = b
      BY <2>3
    <3> HIDE DEF top, a, b
    <3> QED
      BY <3>1, <3>2, <3>3, <3>4, <3>5
  <2>4. x \in Watch!Rows /\ Grade(x) \in 0..3
    BY <1>2, <2>1, <2>2, Grades
  <2>5. \A j \in DOMAIN s : x.id = s[j].id => Grade(x) <= Grade(s[j])
    BY <2>1, <2>3, <2>4
  <2>6. OfKind(plain, x)
    BY <2>1, <2>2 DEF Facing
  <2> QED
    BY <1>2, <2>1, <2>2, <2>4, <2>5, <2>6 DEF NotNewer
<1> QED
  BY <1>3, <1>4 DEF Noting

(* The key that goes from a memory that is too long is in no row of the snapshot. *)
LEMMA OldestIsPast ==
  ASSUME NEW plain, NEW q, NEW s, NEW width, Facing(plain, q, s, width), s # << >>,
         NEW r \in Seq(Watch!Rows), Watch!InOrder(r, width), Len(r) = Limit + 1,
         \A i \in DOMAIN r :
           /\ OfKind(plain, r[i]) /\ r[i].id <= s[1].id
           /\ \A j \in DOMAIN s : r[i].id = s[j].id => Grade(r[i]) <= Grade(s[j])
  PROVE  r[1] \notin Watch!Range(s)
<1> SUFFICES ASSUME r[1] \in Watch!Range(s) PROVE FALSE
  OBVIOUS
<1>1. PICK j \in DOMAIN s : s[j] = r[1]
  BY InRange
<1>2. s[j].id \in Nat /\ s[1].id \in Nat /\ s[j].id + width > s[1].id
  BY WindowIs DEF Facing
<1>3. width \in Nat \ {0} /\ plain \in BOOLEAN /\ Limit \in Nat
  BY DEF Facing
<1>4. DOMAIN r = 1..(Limit + 1) /\ 1 \in DOMAIN r /\ \A i \in DOMAIN r : r[i] \in Watch!Rows
  BY <1>3
<1>5. \A i \in DOMAIN r : r[i].id \in Nat /\ Grade(r[i]) \in 0..3
  BY <1>4, Grades
<1>6. \A i \in DOMAIN r : r[i].id < r[1].id + width
  <2>1. ASSUME NEW i \in DOMAIN r PROVE r[i].id < r[1].id + width
    <3>1. r[i].id <= s[1].id /\ r[i].id \in Nat /\ s[1].id < r[1].id + width /\ r[1].id \in Nat
      BY <1>1, <1>2, <1>4, <1>5
    <3> QED
      BY <1>2, <1>3, <3>1
  <2> QED
    BY <2>1
<1>7. \A i \in DOMAIN r : i # 1 => r[i].id # r[1].id
  <2> SUFFICES ASSUME NEW i \in DOMAIN r, i # 1, r[i].id = r[1].id PROVE FALSE
    OBVIOUS
  <2>1. 1 < i
    BY <1>3, <1>4
  <2>2. Grade(r[1]) < Grade(r[i])
    BY <1>4, <2>1 DEF Watch!InOrder, Grade
  <2>3. Grade(r[i]) <= Grade(r[1])
    BY <1>1
  <2> QED
    BY <1>4, <1>5, <2>2, <2>3
<1>8. Limit > (IF plain THEN 2 * (width - 1) ELSE 3 * (2 * (width - 1)))
  BY DEF Facing
<1> QED
  BY <1>3, <1>6, <1>7, <1>8, MemoryIsLong

(* One row goes through add(). *)
LEMMA AddKeeps ==
  ASSUME NEW kind \in Watch!Kinds, NEW plain, NEW q, NEW s, NEW width, Facing(plain, q, s, width),
         NEW n \in 1..Len(s), NEW acc, Noting(kind, acc, n - 1, q, s, width)
  PROVE  Noting(kind, Watch!Add(kind, acc, s[n]), n, q, s, width)
<1> DEFINE x == s[n]
<1>1. /\ Len(s) \in Nat /\ DOMAIN s = 1..Len(s) /\ n \in DOMAIN s /\ s # << >> /\ n \in Int /\ n - 1 \in 0..Len(s)
      /\ s \in Seq(Watch!Rows) /\ width \in Nat \ {0} /\ Limit \in Nat /\ q \in Seq(Watch!Rows)
  BY DEF Facing
<1>2. /\ x \in Watch!Rows /\ s[1].id \in Nat /\ x.id \in Nat /\ x.id <= s[1].id /\ x.id + width > s[1].id
      /\ \A i \in DOMAIN s : s[i] = x => i = n
  <2>1. \A i \in DOMAIN s : s[i].id = s[1].id + 1 - i /\ s[1].id \in Nat
    BY <1>1, WindowIs DEF Facing
  <2>2. ASSUME NEW i \in DOMAIN s, s[i] = x PROVE i = n
    <3> DEFINE top == s[1].id
    <3>1. s[i].id = top + 1 - i /\ s[n].id = top + 1 - n /\ top \in Int /\ i \in Int
      BY <1>1, <2>1
    <3>2. top + 1 - i = top + 1 - n
      BY <2>2, <3>1
    <3> HIDE DEF top
    <3> QED
      BY <1>1, <3>1, <3>2
  <2> QED
    BY <1>1, <2>2, WindowIs DEF Facing
<1>3. \A i \in DOMAIN s : s[i].id = s[1].id + 1 - i
  BY <1>1, WindowIs DEF Facing
<1>4. /\ acc \in [queue : Seq(Watch!Rows), new : SUBSET (Watch!Kinds \X Watch!Rows)]
      /\ Len(acc.queue) <= Limit /\ Watch!InOrder(acc.queue, width)
      /\ \A y \in Watch!Range(acc.queue) : y \in Watch!Range(q) \/ \E i \in 1..(n - 1) : s[i] = y
      /\ \A y \in Watch!Range(q) : y \in Watch!Range(s) => y \in Watch!Range(acc.queue)
      /\ \A i \in 1..(n - 1) : s[i] \in Watch!Range(acc.queue)
      /\ acc.new = {<<kind, s[i]>> : i \in {k \in 1..(n - 1) : s[k] \notin Watch!Range(q)}}
  BY DEF Noting
<1>5. x \in Watch!Range(s)
  BY <1>1, InRange
<1>6. 1..n = 1..(n - 1) \cup {n} /\ n \notin 1..(n - 1) /\ 1..(n - 1) \subseteq DOMAIN s
  BY <1>1
<1> HIDE DEF x
<1>7. CASE x \in Watch!Range(acc.queue)
  <2>1. Watch!Add(kind, acc, x) = acc
    BY <1>7 DEF Watch!Add, Watch!Key
  <2>2. x \in Watch!Range(q)
    BY <1>2, <1>4, <1>6, <1>7
  <2>3. {k \in 1..n : s[k] \notin Watch!Range(q)} = {k \in 1..(n - 1) : s[k] \notin Watch!Range(q)}
    BY <1>6, <2>2 DEF x
  <2>4. \A i \in 1..n : s[i] \in Watch!Range(acc.queue)
    BY <1>4, <1>6, <1>7 DEF x
  <2>5. \A y \in Watch!Range(acc.queue) : y \in Watch!Range(q) \/ \E i \in 1..n : s[i] = y
    BY <1>4, <1>6
  <2>6. Noting(kind, acc, n, q, s, width)
    BY <1>4, <2>3, <2>4, <2>5 DEF Noting
  <2> QED
    BY <2>1, <2>6 DEF x
<1>8. CASE x \notin Watch!Range(acc.queue)
  <2> DEFINE r == Append(acc.queue, x)
             t == Watch!Kept(r)
             news == acc.new \cup {<<kind, x>>}
             next == [queue |-> t, new |-> news]
  <2>1. Watch!Add(kind, acc, x) = next
    BY <1>8 DEF Watch!Add, Watch!Key
  <2>2. acc.queue \in Seq(Watch!Rows) /\ acc.new \in SUBSET (Watch!Kinds \X Watch!Rows)
    BY <1>4
  <2>3. /\ r \in Seq(Watch!Rows) /\ Len(r) = Len(acc.queue) + 1 /\ Len(acc.queue) \in Nat /\ DOMAIN acc.queue = 1..Len(acc.queue)
        /\ DOMAIN r = 1..(Len(acc.queue) + 1) /\ r[Len(acc.queue) + 1] = x
        /\ \A i \in 1..Len(acc.queue) : r[i] = acc.queue[i] /\ acc.queue[i] \in Watch!Rows
    BY <1>2, <2>2, Grown
  <2>4. \A y : y \in Watch!Range(r) <=> y \in Watch!Range(acc.queue) \/ y = x
    <3> HIDE DEF r
    <3> QED
      BY <2>3, InRange
  <2>5. ASSUME NEW y \in Watch!Range(acc.queue)
        PROVE  /\ y \in Watch!Rows /\ OfKind(plain, y) /\ y.id \in Nat /\ y.id <= s[1].id
               /\ \A j \in DOMAIN s : y.id = s[j].id => Grade(y) <= Grade(s[j])
    <3> DEFINE m == n - 1
    <3>1. m \in 0..Len(s) /\ Noting(kind, acc, m, q, s, width)
      BY <1>1
    <3>2. s # << >> /\ y \in Watch!Range(acc.queue)
      BY <1>1, <2>5
    <3> HIDE DEF m
    <3>3. NotNewer(plain, y, s)
      BY <3>1, <3>2, NotedAre
    <3> QED
      BY <3>3 DEF NotNewer
  <2>6. Watch!InOrder(r, width)
    <3>1. ASSUME NEW i \in DOMAIN acc.queue
          PROVE  x.id + width > acc.queue[i].id /\ (x.id = acc.queue[i].id => Grade(acc.queue[i]) < Grade(x))
      <4> DEFINE y == acc.queue[i]
      <4>1. y \in Watch!Range(acc.queue) /\ y # x
        BY <1>8, <3>1, InRange
      <4> HIDE DEF y
      <4>2. y \in Watch!Rows /\ y.id \in Nat /\ y.id <= s[1].id
        BY <2>5, <4>1
      <4>3. x.id + width > y.id
        BY <1>1, <1>2, <4>2
      <4>4. x.id = y.id => Grade(y) <= Grade(x)
        BY <1>1, <2>5, <4>1 DEF x
      <4>5. Grade(y) \in 0..3 /\ Grade(x) \in 0..3 /\ (x.id = y.id => Grade(y) # Grade(x))
        BY <1>2, <4>1, <4>2, Grades
      <4>6. x.id = y.id => Grade(y) < Grade(x)
        BY <4>4, <4>5
      <4> QED
        BY <4>3, <4>6 DEF y
    <3> QED
      BY <1>1, <1>2, <1>4, <2>2, <3>1, OrderGrows
  <2>7. \A i \in DOMAIN s : s[i] = x \/ s[i] # x
    OBVIOUS
  <2>8. /\ t \in Seq(Watch!Rows) /\ Len(t) <= Limit /\ Watch!InOrder(t, width)
        /\ \A y \in Watch!Range(t) : y \in Watch!Range(r)
        /\ \A y \in Watch!Range(r) : y \in Watch!Range(t) \/ y \notin Watch!Range(s)
    <3> HIDE DEF r
    <3>1. CASE ~(Len(r) > Limit)
      <4>1. t = r
        BY <3>1 DEF Watch!Kept
      <4> QED
        BY <1>1, <2>3, <2>6, <3>1, <4>1
    <3>2. CASE Len(r) > Limit
      <4>1. t = Tail(r) /\ Len(r) = Limit + 1 /\ r # << >>
        BY <1>1, <1>4, <2>3, <3>2 DEF Watch!Kept
      <4>2. /\ t \in Seq(Watch!Rows) /\ Len(t) = Limit /\ DOMAIN r = 1..(Limit + 1) /\ DOMAIN t = 1..Limit
            /\ \A i \in 1..Limit : t[i] = r[i + 1]
        BY <1>1, <2>3, <4>1, Shrunk
      <4>3. \A i \in DOMAIN r : r[i] \in Watch!Range(r)
        BY InRange
      <4>4. OfKind(plain, x) /\ \A j \in DOMAIN s : x.id = s[j].id => Grade(x) <= Grade(s[j])
        <5>1. OfKind(plain, x)
          BY <1>1 DEF Facing, x
        <5>2. ASSUME NEW j \in DOMAIN s, x.id = s[j].id PROVE Grade(x) <= Grade(s[j])
          <6> DEFINE top == s[1].id
          <6>1. s[j].id = top + 1 - j /\ s[n].id = top + 1 - n
            BY <1>1, <1>3
          <6>4. top \in Int /\ j \in Int
            BY <1>1, <1>2
          <6>2. top + 1 - j = top + 1 - n
            BY <5>2, <6>1 DEF x
          <6> HIDE DEF top
          <6>3. j = n
            BY <1>1, <6>2, <6>4
          <6>5. Grade(x) \in 0..3
            BY <1>2, Grades
          <6> QED
            BY <6>3, <6>5 DEF x
        <5> QED
          BY <5>1, <5>2
      <4>5. \A i \in DOMAIN r :
              /\ OfKind(plain, r[i]) /\ r[i].id <= s[1].id
              /\ \A j \in DOMAIN s : r[i].id = s[j].id => Grade(r[i]) <= Grade(s[j])
        BY <1>2, <2>4, <2>5, <4>3, <4>4
      <4>6. r[1] \notin Watch!Range(s)
        BY <1>1, <2>3, <2>6, <4>1, <4>5, OldestIsPast
      <4>7. Watch!InOrder(t, width)
        BY <1>1, <2>3, <2>6, <4>1, OrderShrinks
      <4>8. \A y \in Watch!Range(t) : y \in Watch!Range(r)
        <5> HIDE DEF t
        <5> SUFFICES ASSUME NEW y \in Watch!Range(t) PROVE y \in Watch!Range(r)
          OBVIOUS
        <5>1. PICK i \in DOMAIN t : t[i] = y
          BY InRange
        <5>2. i + 1 \in DOMAIN r /\ r[i + 1] = y
          BY <1>1, <4>2, <5>1
        <5> QED
          BY <4>3, <5>2
      <4>9. ASSUME NEW y \in Watch!Range(r) PROVE y \in Watch!Range(t) \/ y \notin Watch!Range(s)
        <5> HIDE DEF t
        <5>1. PICK i \in DOMAIN r : r[i] = y
          BY InRange
        <5>2. CASE i = 1
          BY <4>6, <5>1, <5>2
        <5>3. CASE i # 1
          <6>1. i - 1 \in DOMAIN t /\ t[i - 1] = y
            BY <1>1, <4>2, <5>1, <5>3
          <6> QED
            BY <6>1, InRange
        <5> QED
          BY <5>2, <5>3
      <4> QED
        BY <1>1, <4>2, <4>7, <4>8, <4>9
    <3> QED
      BY <3>1, <3>2
  <2>9. x \notin Watch!Range(q)
    BY <1>4, <1>5, <1>8
  <2>10. news = {<<kind, s[i]>> : i \in {k \in 1..n : s[k] \notin Watch!Range(q)}}
    <3> DEFINE old == {k \in 1..(n - 1) : s[k] \notin Watch!Range(q)}
               all == {k \in 1..n : s[k] \notin Watch!Range(q)}
    <3>1. all = old \cup {n}
      BY <1>6, <2>9 DEF x
    <3>2. acc.new = {<<kind, s[i]>> : i \in old}
      BY <1>4
    <3> HIDE DEF old, all
    <3>3. {<<kind, s[i]>> : i \in old \cup {n}} = {<<kind, s[i]>> : i \in old} \cup {<<kind, s[n]>>}
      BY Zenon
    <3> QED
      BY <3>1, <3>2, <3>3 DEF all, x
  <2>11. \A y \in Watch!Range(t) : y \in Watch!Range(q) \/ \E i \in 1..n : s[i] = y
    <3> HIDE DEF t, r
    <3> QED
      BY <1>4, <1>6, <2>4, <2>8 DEF x
  <2>12. \A y \in Watch!Range(q) : y \in Watch!Range(s) => y \in Watch!Range(t)
    <3> HIDE DEF t, r
    <3> QED
      BY <1>4, <2>4, <2>8
  <2>13. \A i \in 1..n : s[i] \in Watch!Range(t)
    <3> HIDE DEF t, r
    <3>1. \A i \in 1..n : s[i] \in Watch!Range(r) /\ s[i] \in Watch!Range(s)
      BY <1>1, <1>4, <1>6, <2>4, InRange DEF x
    <3> QED
      BY <2>8, <3>1
  <2>14. news \in SUBSET (Watch!Kinds \X Watch!Rows)
    BY <1>2, <2>2
  <2> HIDE DEF t, news
  <2>15. next \in [queue : Seq(Watch!Rows), new : SUBSET (Watch!Kinds \X Watch!Rows)] /\ next.queue = t /\ next.new = news
    BY <2>8, <2>14
  <2> HIDE DEF next
  <2>16. Noting(kind, next, n, q, s, width)
    BY <2>8, <2>10, <2>11, <2>12, <2>13, <2>15 DEF Noting
  <2> QED
    BY <2>1, <2>16 DEF x
<1> QED
  BY <1>7, <1>8

(* What holds of zero, and of the next number with each one, holds of all up to the last. *)
LEMMA Climb ==
  ASSUME NEW n \in Nat, NEW S, 0 \in S, \A i \in 1..n : i - 1 \in S => i \in S
  PROVE  \A i \in 0..n : i \in S
<1> SUFFICES ASSUME NEW x \in 0..n, x \notin S PROVE FALSE
  OBVIOUS
<1> DEFINE U == {k \in 0..n : k \notin S}
<1>1. x \in U /\ U \in SUBSET Nat
  OBVIOUS
<1>2. PICK m \in U : \A k \in U : m <= k
  BY <1>1, HasLeast
<1>3. m \in 0..n /\ m \notin S /\ m # 0
  OBVIOUS
<1>4. m - 1 \in 0..n /\ m \in 1..n /\ ~(m <= m - 1)
  BY <1>3
<1>5. m - 1 \notin U
  <2> HIDE DEF U
  <2> QED
    BY <1>2, <1>4
<1> QED
  BY <1>3, <1>4, <1>5

\* f starts with b and goes on as g says, each value from the one before it.
Unfolds(f, n, b, g) == f[0] = b /\ \A i \in 1..n : f[i] = g[i][f[i - 1]]

(* A recursion along an interval, each value from the one before it, has a solution. *)
LEMMA Recursion ==
  ASSUME NEW n \in Nat, NEW V, NEW b \in V
  PROVE  \A g \in [1..n -> [V -> V]] : \E f \in [0..n -> V] : Unfolds(f, n, b, g)
<1> SUFFICES ASSUME NEW g \in [1..n -> [V -> V]]
             PROVE  \E f \in [0..n -> V] : f[0] = b /\ \A i \in 1..n : f[i] = g[i][f[i - 1]]
  BY DEF Unfolds
<1> DEFINE Upto(k, f) == f \in [0..k -> V] /\ f[0] = b /\ \A i \in 1..k : f[i] = g[i][f[i - 1]]
           S == {k \in 0..n : \E f : Upto(k, f)}
<1>1. 0 \in S
  <2>1. Upto(0, [i \in 0..0 |-> b])
    OBVIOUS
  <2> HIDE DEF Upto
  <2> QED
    BY <2>1
<1>2. ASSUME NEW k \in 1..n, k - 1 \in S PROVE k \in S
  <2>1. PICK f : Upto(k - 1, f)
    BY <1>2
  <2>2. k - 1 \in 0..(k - 1) /\ f[k - 1] \in V /\ g[k] \in [V -> V]
    BY <2>1
  <2> DEFINE v == g[k][f[k - 1]]
             h == [i \in 0..k |-> IF i = k THEN v ELSE f[i]]
  <2>3. v \in V
    BY <2>2
  <2>4. \A i \in 0..k : i # k => i \in 0..(k - 1)
    OBVIOUS
  <2>5. h \in [0..k -> V]
    <3> HIDE DEF v
    <3> QED
      BY <2>1, <2>3, <2>4
  <2>6. 0 \in 0..k /\ 0 # k
    OBVIOUS
  <2>7. h[0] = b
    BY <2>1, <2>6
  <2>8. ASSUME NEW i \in 1..k PROVE h[i] = g[i][h[i - 1]]
    <3>1. i \in 0..k /\ i - 1 \in 0..k /\ i - 1 # k
      OBVIOUS
    <3>2. h[i - 1] = f[i - 1]
      BY <3>1
    <3>3. CASE i = k
      BY <3>1, <3>2, <3>3
    <3>4. CASE i # k
      <4>1. i \in 1..(k - 1) /\ h[i] = f[i]
        BY <3>1, <3>4
      <4> HIDE DEF h
      <4> QED
        BY <2>1, <3>2, <4>1
    <3> QED
      BY <3>3, <3>4
  <2>9. Upto(k, h)
    <3> HIDE DEF h
    <3> QED
      BY <2>5, <2>7, <2>8
  <2> HIDE DEF Upto
  <2>10. k \in 0..n
    OBVIOUS
  <2> QED
    BY <2>9, <2>10
<1>3. n \in S
  <2> HIDE DEF S
  <2>1. \A i \in 0..n : i \in S
    BY <1>1, <1>2, Climb
  <2> QED
    BY <2>1
<1> QED
  BY <1>3

(* The rows of a snapshot go through add() one after the other. *)
LEMMA NotedSays ==
  ASSUME NEW kind \in Watch!Kinds, NEW plain, NEW width, NEW s, Facing(plain, seen[kind], s, width)
  PROVE  Noting(kind, Watch!Noted(kind, s), Len(s), seen[kind], s, width)
<1> DEFINE n == Len(s)
           q == seen[kind]
           start == [queue |-> q, new |-> {}]
           V == [queue : Seq(Watch!Rows), new : SUBSET (Watch!Kinds \X Watch!Rows)]
           Rep(f) == f = [j \in 0..n |-> IF j = 0 THEN start ELSE Watch!Add(kind, f[j - 1], s[j])]
           rep == CHOOSE f : Rep(f)
           g == [j \in 1..n |-> [v \in V |-> Watch!Add(kind, v, s[j])]]
<1>1. s \in Seq(Watch!Rows) /\ n \in Nat /\ DOMAIN s = 1..n /\ q \in Seq(Watch!Rows)
  BY DEF Facing
<1>2. start \in V
  BY <1>1
<1>3. Watch!Noted(kind, s) = rep[n]
  BY Zenon DEF Watch!Noted
<1>4. g \in [1..n -> [V -> V]]
  <2>1. ASSUME NEW j \in 1..n, NEW v \in V PROVE Watch!Add(kind, v, s[j]) \in V
    <3> DEFINE x == s[j]
    <3>1. x \in Watch!Rows
      BY <1>1
    <3> HIDE DEF x
    <3> DEFINE r == Append(v.queue, x)
               t == Watch!Kept(r)
               news == v.new \cup {<<kind, x>>}
    <3>2. r \in Seq(Watch!Rows) /\ r # << >>
      <4> DEFINE p == v.queue
      <4>1. p \in Seq(Watch!Rows)
        BY <2>1
      <4> HIDE DEF p
      <4>2. Append(p, x) \in Seq(Watch!Rows) /\ Len(Append(p, x)) = Len(p) + 1 /\ Len(p) \in Nat
        BY <3>1, <4>1, Grown
      <4>3. \A z \in Seq(Watch!Rows) : Len(z) > 0 => z # << >>
        OBVIOUS
      <4>4. Append(p, x) # << >>
        BY <4>2, <4>3
      <4> QED
        BY <4>2, <4>4 DEF p
    <3>3. news \in SUBSET (Watch!Kinds \X Watch!Rows)
      BY <3>1
    <3> HIDE DEF r, news
    <3>4. t \in Seq(Watch!Rows)
      BY <3>2 DEF Watch!Kept
    <3> HIDE DEF t
    <3>5. [queue |-> t, new |-> news] \in V
      BY <3>3, <3>4
    <3>6. Watch!Add(kind, v, x) \in {v, [queue |-> t, new |-> news]}
      BY DEF Watch!Add, Watch!Key, r, t, news
    <3> QED
      BY <3>5, <3>6 DEF x
  <2> QED
    BY <2>1
<1> HIDE DEF start, V, n
<1>5. \A j \in 1..n : j - 1 \in 0..n /\ j # 0 /\ j \in 0..n
  BY <1>1
<1>6. PICK f \in [0..n -> V] : f[0] = start /\ \A j \in 1..n : f[j] = g[j][f[j - 1]]
  <2> HIDE DEF g
  <2>1. PICK f \in [0..n -> V] : Unfolds(f, n, start, g)
    BY <1>1, <1>2, <1>4, Recursion
  <2> QED
    BY <2>1 DEF Unfolds
<1>7. \A j \in 1..n : f[j] = Watch!Add(kind, f[j - 1], s[j])
  <2> TAKE j \in 1..n
  <2>1. f[j - 1] \in V
    BY <1>5, <1>6
  <2>2. g[j][f[j - 1]] = Watch!Add(kind, f[j - 1], s[j])
    BY <2>1
  <2> HIDE DEF g
  <2> QED
    BY <1>6, <2>1, <2>2
<1>8. Rep(f)
  <2>1. \A j \in 0..n : j = 0 \/ j \in 1..n
    BY <1>1
  <2> QED
    BY <1>6, <1>7, <2>1
<1>9. Rep(rep)
  <2> HIDE DEF Rep
  <2> QED
    BY <1>8
<1> HIDE DEF rep
<1>10. rep[0] = start /\ \A j \in 1..n : rep[j] = Watch!Add(kind, rep[j - 1], s[j])
  <2>1. rep = [j \in 0..n |-> IF j = 0 THEN start ELSE Watch!Add(kind, rep[j - 1], s[j])]
    BY <1>9
  <2>2. 0 \in 0..n
    BY <1>1
  <2> QED
    BY <1>5, <2>1, <2>2
<1> DEFINE S == {j \in 0..n : Noting(kind, rep[j], j, q, s, width)}
<1>11. 0 \in S
  <2>1. Noting(kind, start, 0, q, s, width)
    <3>1. start \in V /\ start.queue = q /\ start.new = {}
      BY <1>2 DEF start
    <3>2. 1..0 = {}
      OBVIOUS
    <3> QED
      BY <3>1, <3>2 DEF Noting, Facing, V
  <2> QED
    BY <1>1, <1>10, <2>1
<1>12. ASSUME NEW j \in 1..n, j - 1 \in S PROVE j \in S
  <2>1. Noting(kind, rep[j - 1], j - 1, q, s, width)
    BY <1>12
  <2>2. Noting(kind, Watch!Add(kind, rep[j - 1], s[j]), j, q, s, width)
    BY <2>1, AddKeeps DEF n
  <2> QED
    BY <1>5, <1>10, <2>2
<1>13. n \in S
  <2> HIDE DEF S
  <2>1. \A j \in 0..n : j \in S
    BY <1>1, <1>11, <1>12, Climb
  <2> QED
    BY <1>1, <2>1
<1> QED
  BY <1>3, <1>13 DEF n

tape == <<newest, decisions, orders, updates, recovery>>
notes == <<script, seen, first, told, again>>

(* The detector remembers enough of every kind. *)
LEMMA Widths ==
  ASSUME NEW kind \in Watch!Kinds
  PROVE  /\ Watch!Width(kind) \in Nat \ {0} /\ Limit \in Nat
         /\ Limit > IF kind # "intent" THEN 2 * (Watch!Width(kind) - 1) ELSE 3 * (2 * (Watch!Width(kind) - 1))
<1>1. /\ DecisionRows \in Nat \ {0} /\ TapeRows \in Nat \ {0} /\ Limit \in Nat
      /\ Limit > 2 * (TapeRows - 1) /\ Limit > 3 * (2 * (DecisionRows - 1))
  BY MemoryIsEnough
<1>2. CASE kind \in {"decision", "intent"}
  <2>1. Watch!Width(kind) = DecisionRows
    BY <1>2 DEF Watch!Width
  <2> QED
    BY <1>1, <2>1
<1>3. CASE kind \in {"broker", "trade-update"}
  <2>1. Watch!Width(kind) = TapeRows /\ kind # "intent"
    BY <1>3 DEF Watch!Width
  <2> QED
    BY <1>1, <2>1
<1>4. CASE kind \in {"bar", "recovery"}
  <2>1. Watch!Width(kind) = 1 /\ kind # "intent"
    BY <1>4 DEF Watch!Width
  <2> QED
    BY <1>1, <2>1
<1> QED
  BY <1>2, <1>3, <1>4 DEF Watch!Kinds

(* A decision has a status. *)
LEMMA DecisionIs ==
  ASSUME NEW d \in Watch!Decisions
  PROVE  d.status \in DOMAIN Watch!Rank /\ d.status # "WRITTEN" /\ Watch!Rank[d.status] \in 0..3
<1>1. d.status \in DOMAIN Watch!Rank \ {"WRITTEN"}
  BY DEF Watch!Decisions
<1>2. \A r \in DOMAIN Watch!Rank : Watch!Rank[r] \in 0..3
  BY DEF Watch!Rank
<1> QED
  BY <1>1, <1>2

(* The rows that are stored. *)
LEMMA Sizes ==
  ASSUME Watch!TypeOK, NEW kind \in Watch!Kinds
  PROVE  /\ Watch!Size(kind) \in Nat
         /\ \A i \in 1..Watch!Size(kind) :
              /\ Watch!Row(kind, i) \in Watch!Rows /\ Watch!Row(kind, i).id = i
              /\ (Watch!Row(kind, i).status # "WRITTEN" <=> kind = "intent")
<1>1. newest \in Nat /\ orders \in Nat /\ updates \in Nat /\ recovery \in Nat
      /\ decisions \in Seq(Watch!Decisions)
  BY DEF Watch!TypeOK
<1>2. Len(decisions) \in Nat /\ DOMAIN decisions = 1..Len(decisions)
  BY <1>1
<1>3. Watch!Size(kind) \in {newest, Len(decisions), orders, updates, recovery} /\ (kind = "intent" => Watch!Size(kind) = Len(decisions))
  BY DEF Watch!Size, Watch!Kinds
<1>4. Watch!Size(kind) \in Nat
  BY <1>1, <1>2, <1>3
<1>5. ASSUME NEW i \in 1..Watch!Size(kind)
      PROVE  /\ Watch!Row(kind, i) \in Watch!Rows /\ Watch!Row(kind, i).id = i
             /\ (Watch!Row(kind, i).status # "WRITTEN" <=> kind = "intent")
  <2>1. i \in Nat \ {0}
    BY <1>4
  <2>2. "WRITTEN" \in DOMAIN Watch!Rank
    BY DEF Watch!Rank
  <2>3. CASE kind = "intent"
    <3>1. decisions[i] \in Watch!Decisions
      BY <1>1, <1>2, <1>3, <2>3
    <3>3. decisions[i].status \in DOMAIN Watch!Rank /\ decisions[i].status # "WRITTEN"
      BY <3>1, DecisionIs
    <3>2. Watch!Row(kind, i) = [id |-> i, status |-> decisions[i].status]
      BY <2>3 DEF Watch!Row
    <3> QED
      BY <2>1, <2>3, <3>2, <3>3 DEF Watch!Rows
  <2>4. CASE kind # "intent"
    <3>1. Watch!Row(kind, i) = [id |-> i, status |-> "WRITTEN"]
      BY <2>4 DEF Watch!Row
    <3> QED
      BY <2>1, <2>2, <2>4, <3>1 DEF Watch!Rows
  <2> QED
    BY <2>3, <2>4
<1> QED
  BY <1>4, <1>5

\* The rows of a kind are numbered.
Numbered(kind) ==
  /\ Watch!Size(kind) \in Nat
  /\ \A i \in 1..Watch!Size(kind) : Watch!Row(kind, i) \in Watch!Rows /\ Watch!Row(kind, i).id = i

(* They are, in each state of that type, and in the next one. *)
LEMMA AllNumbered ==
  /\ Watch!TypeOK => \A kind \in Watch!Kinds : Numbered(kind)
  /\ Watch!TypeOK' => \A kind \in Watch!Kinds : Numbered(kind)'
<1>1. Watch!TypeOK => \A kind \in Watch!Kinds : Numbered(kind)
  BY Sizes DEF Numbered
<1>2. (Watch!TypeOK => \A kind \in Watch!Kinds : Numbered(kind))'
  BY <1>1, PTL
<1> QED
  BY <1>1, <1>2 DEF Watch!Kinds

\* Rows are added, and a status goes on.
Grows(kind) ==
  /\ Watch!Size(kind) <= Watch!Size(kind)'
  /\ \A i \in 1..Watch!Size(kind) : Grade(Watch!Row(kind, i)) <= Grade(Watch!Row(kind, i)')

(* A status goes on: the rows of the other kinds stay. *)
LEMMA StatusGrows ==
  ASSUME Watch!TypeOK, NEW i \in DOMAIN decisions, NEW status \in DOMAIN Watch!Rank \ {"WRITTEN"},
         Watch!Rank[decisions[i].status] <= Watch!Rank[status], decisions' = [decisions EXCEPT ![i].status = status]
  PROVE  /\ decisions' \in Seq(Watch!Decisions) /\ Len(decisions') = Len(decisions)
         /\ \A k \in 1..Len(decisions) : Watch!Rank[decisions[k].status] <= Watch!Rank[decisions'[k].status]
<1> DEFINE D == Watch!Decisions
           d == decisions
           e == decisions'
<1>1. d \in Seq(D) /\ Len(d) \in Nat /\ DOMAIN d = 1..Len(d) /\ i \in 1..Len(d)
  BY DEF Watch!TypeOK
<1>2. d[i] \in D /\ [d[i] EXCEPT !.status = status] \in D /\ [d[i] EXCEPT !.status = status].status = status
  <2>1. d[i] \in D
    BY <1>1
  <2>2. \A c \in Watch!Decisions : [c EXCEPT !.status = status] \in Watch!Decisions /\ [c EXCEPT !.status = status].status = status
    BY DEF Watch!Decisions
  <2> QED
    BY <2>1, <2>2
<1>3. e = [d EXCEPT ![i] = [d[i] EXCEPT !.status = status]]
  OBVIOUS
<1> DEFINE x == [d[i] EXCEPT !.status = status]
<1>4. \A k \in 1..Len(d) : Watch!Rank[d[k].status] \in 0..3
  <2>1. \A k \in 1..Len(d) : d[k] \in D
    BY <1>1
  <2> QED
    BY <2>1, DecisionIs
<1> HIDE DEF D, d, e, x
<1>5. e = [d EXCEPT ![i] = x] /\ x \in D /\ x.status = status
  BY <1>2, <1>3 DEF x
<1>6. e \in Seq(D) /\ Len(e) = Len(d) /\ \A k \in 1..Len(d) : e[k] = IF k = i THEN x ELSE d[k]
  BY <1>1, <1>5
<1>7. \A k \in 1..Len(d) : Watch!Rank[d[k].status] <= Watch!Rank[e[k].status]
  <2> TAKE k \in 1..Len(d)
  <2>1. CASE k = i
    BY <1>5, <1>6, <2>1 DEF d
  <2>2. CASE k # i
    BY <1>4, <1>6, <2>2
  <2> QED
    BY <2>1, <2>2
<1> QED
  BY <1>6, <1>7 DEF D, d, e

(* What the worker writes is added, or is a status that goes on. *)
LEMMA Writing ==
  ASSUME Watch!TypeOK,
         \/ Watch!BarStored \/ Watch!Decided \/ Watch!Claimed \/ Watch!OrderRecorded \/ Watch!UpdateStored \/ Watch!RecoveryMoves
  PROVE  Watch!TypeOK' /\ UNCHANGED notes /\ \A kind \in Watch!Kinds : Grows(kind)
<1> DEFINE D == Watch!Decisions
<1>1. newest \in Nat /\ orders \in Nat /\ updates \in Nat /\ recovery \in Nat /\ decisions \in Seq(D) /\ Len(decisions) \in Nat
  BY DEF Watch!TypeOK
<1>2. UNCHANGED notes
  BY DEF Watch!BarStored, Watch!Decided, Watch!Claimed, Watch!OrderRecorded, Watch!UpdateStored, Watch!RecoveryMoves, Watch!Writes, notes
<1>3. /\ newest' \in Nat /\ newest <= newest' /\ orders' \in Nat /\ orders <= orders'
      /\ updates' \in Nat /\ updates <= updates' /\ recovery' \in Nat /\ recovery <= recovery'
  BY <1>1 DEF Watch!BarStored, Watch!Decided, Watch!Claimed, Watch!OrderRecorded, Watch!UpdateStored, Watch!RecoveryMoves
<1>4. {"PENDING", "SUBMISSION_ATTEMPTED", "FILLED"} \subseteq DOMAIN Watch!Rank \ {"WRITTEN"}
      /\ Watch!Rank["PENDING"] = 1 /\ Watch!Rank["SUBMISSION_ATTEMPTED"] = 2
      /\ \A r \in DOMAIN Watch!Rank : Watch!Rank[r] \in 0..3
  BY DEF Watch!Rank
<1>5. \A k \in 1..Len(decisions) : Watch!Rank[decisions[k].status] \in 0..3
  <2>1. \A k \in 1..Len(decisions) : decisions[k] \in Watch!Decisions
    BY <1>1
  <2> QED
    BY <2>1, DecisionIs
<1>6. /\ decisions' \in Seq(D) /\ Len(decisions) <= Len(decisions')
      /\ \A k \in 1..Len(decisions) : Watch!Rank[decisions[k].status] <= Watch!Rank[decisions'[k].status]
  <2>1. CASE decisions' = decisions
    BY <1>1, <1>5, <2>1
  <2>2. CASE Watch!Decided
    <3> DEFINE x == [bar |-> newest, status |-> "PENDING"]
    <3>1. x \in D /\ decisions' = Append(decisions, x)
      BY <1>1, <1>4, <2>2 DEF Watch!Decided, Watch!Decisions
    <3> HIDE DEF x, D
    <3>3. /\ decisions' \in Seq(D) /\ Len(decisions') = Len(decisions) + 1
          /\ \A k \in 1..Len(decisions) : decisions'[k] = decisions[k]
      BY <1>1, <3>1, Grown
    <3> QED
      BY <1>1, <1>5, <3>3
  <2>3. CASE Watch!Claimed
    <3>1. PICK i \in DOMAIN decisions :
            decisions[i].status = "PENDING" /\ decisions' = [decisions EXCEPT ![i].status = "SUBMISSION_ATTEMPTED"]
      BY <2>3 DEF Watch!Claimed
    <3>2. /\ decisions' \in Seq(Watch!Decisions) /\ Len(decisions') = Len(decisions)
          /\ \A k \in 1..Len(decisions) : Watch!Rank[decisions[k].status] <= Watch!Rank[decisions'[k].status]
      <4>1. "SUBMISSION_ATTEMPTED" \in DOMAIN Watch!Rank \ {"WRITTEN"}
        BY <1>4
      <4>2. Watch!Rank[decisions[i].status] <= Watch!Rank["SUBMISSION_ATTEMPTED"]
        BY <1>4, <3>1
      <4> QED
        BY <3>1, <4>1, <4>2, StatusGrows
    <3> QED
      BY <1>1, <3>2
  <2>4. CASE Watch!OrderRecorded
    <3>1. PICK i \in DOMAIN decisions, status \in {"SUBMISSION_ATTEMPTED", "FILLED"} :
            /\ Watch!Rank[status] >= Watch!Rank[decisions[i].status]
            /\ decisions' = [decisions EXCEPT ![i].status = status]
      BY <2>4 DEF Watch!OrderRecorded
    <3>2. Watch!Rank[status] \in 0..3 /\ Watch!Rank[decisions[i].status] \in 0..3
      <4>1. decisions[i] \in Watch!Decisions
        BY <1>1
      <4> QED
        BY <1>4, <4>1, DecisionIs
    <3>3. Watch!Rank[decisions[i].status] <= Watch!Rank[status]
      BY <3>1, <3>2
    <3>4. /\ decisions' \in Seq(Watch!Decisions) /\ Len(decisions') = Len(decisions)
          /\ \A k \in 1..Len(decisions) : Watch!Rank[decisions[k].status] <= Watch!Rank[decisions'[k].status]
      BY <1>4, <3>1, <3>3, StatusGrows
    <3> QED
      BY <1>1, <3>4
  <2> QED
    BY <2>1, <2>2, <2>3, <2>4 DEF Watch!BarStored, Watch!UpdateStored, Watch!RecoveryMoves
<1>7. Watch!TypeOK'
  BY <1>2, <1>3, <1>6 DEF Watch!TypeOK, notes
<1>8. ASSUME NEW kind \in Watch!Kinds PROVE Grows(kind)
  <2>1. Watch!Size(kind) <= Watch!Size(kind)'
    <3>1. Len(decisions') \in Nat
      BY <1>6
    <3> QED
      BY <1>1, <1>3, <1>6, <3>1 DEF Watch!Size, Watch!Kinds
  <2>2. ASSUME NEW i \in 1..Watch!Size(kind) PROVE Grade(Watch!Row(kind, i)) <= Grade(Watch!Row(kind, i)')
    <3>1. CASE kind = "intent"
      <4>1. i \in 1..Len(decisions)
        BY <3>1 DEF Watch!Size
      <4> QED
        BY <1>6, <3>1, <4>1 DEF Watch!Row, Grade
    <3>2. CASE kind # "intent"
      <4>1. Watch!Rank["WRITTEN"] = 0
        BY DEF Watch!Rank
      <4> QED
        BY <3>2, <4>1 DEF Watch!Row, Grade
    <3> QED
      BY <3>1, <3>2
  <2> QED
    BY <2>1, <2>2 DEF Grows
<1> QED
  BY <1>2, <1>7, <1>8

(* The rows that a snapshot has shown. *)
LEMMA KnownAre ==
  ASSUME Watch!TypeOK, NEW kind \in Watch!Kinds
  PROVE  /\ Watch!Known(kind) \subseteq Watch!Rows
         /\ \A r : r \in Watch!Known(kind) <=> <<kind, r>> \in first \cup told
<1>1. \A e \in first \cup told : e = <<e[1], e[2]>> /\ e[2] \in Watch!Rows
  BY DEF Watch!TypeOK
<1> QED
  BY <1>1 DEF Watch!Known

(* They are, in each state of that type, and in the next one. *)
LEMMA KnownStill ==
  Watch!TypeOK' => \A kind \in Watch!Kinds : \A r : (r \in Watch!Known(kind))' <=> <<kind, r>> \in first' \cup told'
<1>1. Watch!TypeOK => \A kind \in Watch!Kinds : \A r : r \in Watch!Known(kind) <=> <<kind, r>> \in first \cup told
  BY KnownAre
<1>2. (Watch!TypeOK => \A kind \in Watch!Kinds : \A r : r \in Watch!Known(kind) <=> <<kind, r>> \in first \cup told)'
  BY <1>1, PTL
<1> QED
  BY <1>2 DEF Watch!Kinds

\* What Compares says of the rows of a kind, once the snapshot has them.
Compared(kind, rows) ==
  /\ Watch!IsWindow(rows, Watch!Width(kind)) /\ \A j \in DOMAIN rows : Watch!Stored(kind, rows[j])
  /\ \A r \in Watch!Known(kind) :
       /\ rows # << >> /\ r.id <= rows[1].id
       /\ \A j \in DOMAIN rows : r.id = rows[j].id => Grade(r) <= Grade(rows[j])
       /\ r \in Watch!Range(rows) => r \in Watch!Range(seen[kind])

(* Compares is about the rows that the snapshot has. *)
LEMMA ComparesSays ==
  ASSUME NEW kind
  PROVE  Watch!Compares(kind) <=> (Watch!Answered(kind) => Compared(kind, script.snap[kind]))
  BY Zenon DEF Watch!Compares, Compared, Grade

(* What is stored stays, and what is past stays past. *)
LEMMA StaysStored ==
  ASSUME Watch!TypeOK, Watch!TypeOK', NEW kind \in Watch!Kinds, Grows(kind), NEW r \in Watch!Rows, Watch!Stored(kind, r)
  PROVE  Watch!Stored(kind, r)' /\ (Watch!Past(kind, r) => Watch!Past(kind, r)')
<1> DEFINE n == Watch!Size(kind)
           m == Watch!Size(kind)'
           i == r.id
           g == Grade(r)
           a == Grade(Watch!Row(kind, i))
           b == Grade(Watch!Row(kind, i)')
           width == Watch!Width(kind)
<1>1. n \in Nat /\ m \in Nat /\ n <= m
  BY AllNumbered DEF Grows, Numbered
<1>2. i \in Nat /\ i > 0 /\ g \in 0..3
  BY Grades
<1>3. i <= n /\ (r.status # "WRITTEN" <=> kind = "intent") /\ g <= a
  BY DEF Watch!Stored, Grade
<1>4. a \in 0..3 /\ b \in 0..3 /\ a <= b
  <2>1. i \in 1..n /\ i \in 1..m
    BY <1>1, <1>2, <1>3
  <2>2. Watch!Row(kind, i) \in Watch!Rows /\ Watch!Row(kind, i)' \in Watch!Rows
    BY <2>1, AllNumbered DEF Numbered
  <2>3. a <= b
    BY <2>1 DEF Grows
  <2> QED
    BY <2>2, <2>3, Grades
<1>5. width \in Nat /\ width' = width
  BY Widths DEF Watch!Width
<1>6. Watch!Stored(kind, r)'
  <2>1. i <= m /\ g <= b
    BY <1>1, <1>2, <1>3, <1>4
  <2> QED
    BY <1>3, <2>1 DEF Watch!Stored, Grade
<1>7. ASSUME Watch!Past(kind, r) PROVE Watch!Past(kind, r)'
  <2>1. i + width <= n \/ g < a
    BY <1>7 DEF Watch!Past, Grade
  <2>2. i + width <= m \/ g < b
    <3> HIDE DEF i, n, m, g, a, b, width
    <3> QED
      BY <1>1, <1>2, <1>4, <1>5, <2>1
  <2> QED
    BY <2>2 DEF Watch!Past, Grade, Watch!Width
<1> QED
  BY <1>6, <1>7

(* The worker writes: what was told can still not be shown again. *)
LEMMA WritingKeeps ==
  ASSUME Watch!ObserverInv, Watch!TypeOK', UNCHANGED notes, \A kind \in Watch!Kinds : Grows(kind)
  PROVE  Watch!ObserverInv'
<1>1. script' = script /\ seen' = seen /\ first' = first /\ told' = told /\ again' = again
  BY DEF notes
<1>2. Watch!TypeOK /\ \A kind \in Watch!Kinds : Watch!Remembers(kind) /\ Watch!Compares(kind)
  BY DEF Watch!ObserverInv
<1>3. ASSUME NEW kind \in Watch!Kinds PROVE Watch!Remembers(kind)' /\ Watch!Compares(kind)'
  <2>1. Watch!Known(kind)' = Watch!Known(kind) /\ Watch!Answered(kind)' = Watch!Answered(kind) /\ Watch!Width(kind)' = Watch!Width(kind)
    BY <1>1 DEF Watch!Known, Watch!Answered, Watch!Width
  <2>2. Watch!Known(kind) \subseteq Watch!Rows
    BY <1>2, KnownAre
  <2>3. \A r \in Watch!Rows : Watch!Stored(kind, r) => Watch!Stored(kind, r)' /\ (Watch!Past(kind, r) => Watch!Past(kind, r)')
    BY <1>2, StaysStored
  <2>4. Watch!Remembers(kind)'
    <3>1. \A r \in Watch!Known(kind) : Watch!Stored(kind, r) /\ (r \in Watch!Range(seen[kind]) \/ Watch!Past(kind, r))
      BY <1>2 DEF Watch!Remembers
    <3>2. \A r \in Watch!Known(kind) : Watch!Stored(kind, r)' /\ (r \in Watch!Range(seen[kind]) \/ Watch!Past(kind, r)')
      BY <2>2, <2>3, <3>1
    <3> QED
      BY <1>1, <1>2, <2>1, <3>2 DEF Watch!Remembers
  <2>5. Watch!Compares(kind)'
    <3> SUFFICES ASSUME Watch!Answered(kind) PROVE Compared(kind, script.snap[kind])'
      BY <1>1, <2>1, ComparesSays DEF Watch!Compares, Compared, Grade
    <3>1. Compared(kind, script.snap[kind])
      BY <1>2, ComparesSays
    <3>2. script.snap[kind] \in Seq(Watch!Rows)
      BY <1>2 DEF Watch!TypeOK
    <3>3. \A j \in DOMAIN script.snap[kind] : Watch!Stored(kind, script.snap[kind][j])'
      <4> DEFINE rows == script.snap[kind]
      <4>1. \A j \in DOMAIN rows : rows[j] \in Watch!Rows
        BY <3>2
      <4>2. \A j \in DOMAIN rows : Watch!Stored(kind, rows[j])
        BY <3>1 DEF Compared
      <4> HIDE DEF rows
      <4>3. ASSUME NEW j, j \in DOMAIN rows PROVE Watch!Stored(kind, rows[j])'
        <5>1. PICK r \in Watch!Rows : r = rows[j]
          BY <4>1, <4>3
        <5>2. Watch!Stored(kind, r)'
          BY <2>3, <4>2, <4>3, <5>1
        <5>3. rows' = rows
          BY <1>1 DEF rows
        <5>4. rows'[j] = r
          BY <5>1, <5>3
        <5> QED
          BY <5>2, <5>4 DEF Watch!Stored
      <4> QED
        BY <4>3 DEF rows
    <3> QED
      BY <1>1, <2>1, <3>1, <3>3 DEF Compared
  <2> QED
    BY <2>4, <2>5
<1>4. (script.initialized \/ first \cup told = {})' /\ Watch!ToldOnce' /\ Watch!TapeIsExact'
  <2>1. Watch!Kinds' = Watch!Kinds /\ Watch!Shown(script.snap)' = Watch!Shown(script.snap)
    BY <1>1 DEF Watch!Kinds, Watch!Shown
  <2> QED
    BY <1>1, <2>1 DEF Watch!ObserverInv, Watch!ToldOnce, Watch!TapeIsExact
<1> QED
  BY <1>3, <1>4 DEF Watch!ObserverInv, Watch!Kinds

(* The observer reads: what is stored stays as it is. *)
LEMMA Frozen ==
  ASSUME UNCHANGED tape, NEW kind
  PROVE  /\ Watch!Size(kind)' = Watch!Size(kind) /\ Watch!Width(kind)' = Watch!Width(kind)
         /\ \A i : Watch!Row(kind, i)' = Watch!Row(kind, i)
         /\ \A r : (Watch!Stored(kind, r)' <=> Watch!Stored(kind, r)) /\ (Watch!Past(kind, r)' <=> Watch!Past(kind, r))
  BY DEF tape, Watch!Size, Watch!Width, Watch!Row, Watch!Stored, Watch!Past

(* What is remembered stays so, when nothing but the reader changes. *)
LEMMA RemembersStays ==
  ASSUME UNCHANGED <<tape, seen, first, told>>, NEW kind, Watch!Remembers(kind)
  PROVE  Watch!Remembers(kind)' /\ Watch!Known(kind)' = Watch!Known(kind)
<1>1. Watch!Known(kind)' = Watch!Known(kind)
  BY DEF Watch!Known
<1>2. \A r \in Watch!Known(kind) : Watch!Stored(kind, r)' /\ (r \in Watch!Range(seen[kind]) \/ Watch!Past(kind, r)')
  BY Frozen DEF Watch!Remembers
<1>3. Watch!Width(kind)' = Watch!Width(kind)
  BY Frozen
<1> QED
  BY <1>1, <1>2, <1>3 DEF Watch!Remembers

(* A snapshot begins, or a query fails: nothing has been read. *)
LEMMA BeginsKeeps ==
  ASSUME Watch!ObserverInv, Watch!Begins \/ Watch!Fails
  PROVE  Watch!ObserverInv'
<1>1. UNCHANGED tape /\ seen' = seen /\ first' = first /\ told' = told /\ again' = again
  BY DEF Watch!Begins, Watch!Fails, tape
<1>2. Watch!TypeOK'
  <2>1. Watch!Nothing \in [Watch!Kinds -> Seq(Watch!Rows)] /\ 1 \in 1..(Len(Watch!Queries) + 1)
    BY DEF Watch!Nothing, Watch!Queries
  <2>2. /\ script'.at \in {"waiting", "reading", "failed"} /\ script'.next \in 1..(Len(Watch!Queries) + 1)
        /\ script' \in [at : {"waiting", "reading", "failed"}, next : 1..(Len(Watch!Queries) + 1),
                        snap : [Watch!Kinds -> Seq(Watch!Rows)], initialized : BOOLEAN]
    BY <2>1 DEF Watch!ObserverInv, Watch!TypeOK, Watch!Begins, Watch!Fails
  <2> QED
    BY <1>1, <2>2 DEF Watch!ObserverInv, Watch!TypeOK, Watch!Queries, tape
<1>3. script'.at # "waiting" /\ script'.initialized = script.initialized /\ (script'.at = "failed" \/ script'.next = 1)
  BY DEF Watch!ObserverInv, Watch!TypeOK, Watch!Begins, Watch!Fails
<1>4. ASSUME NEW kind \in Watch!Kinds PROVE Watch!Remembers(kind)' /\ Watch!Compares(kind)'
  <2>1. Watch!Remembers(kind)'
    BY <1>1, RemembersStays DEF Watch!ObserverInv
  <2>2. ~Watch!Answered(kind)'
    <3>1. 1..(1 - 1) = {}
      OBVIOUS
    <3> QED
      BY <1>3, <3>1 DEF Watch!Answered
  <2> QED
    BY <2>1, <2>2 DEF Watch!Compares
<1> QED
  BY <1>1, <1>2, <1>3, <1>4 DEF Watch!ObserverInv, Watch!Kinds, Watch!ToldOnce, Watch!TapeIsExact

(* What a query returns: the newest rows as they are. *)
LEMMA NewestIs ==
  ASSUME Watch!TypeOK, NEW kind \in Watch!Kinds, NEW rows, rows = Watch!Newest(kind)
  PROVE  /\ rows \in Seq(Watch!Rows) /\ Watch!IsWindow(rows, Watch!Width(kind))
         /\ \A j \in DOMAIN rows : Watch!Stored(kind, rows[j]) /\ rows[j] = Watch!Row(kind, rows[j].id)
         /\ rows = << >> => Watch!Size(kind) = 0
         /\ rows # << >> => rows[1].id = Watch!Size(kind)
<1> DEFINE n == Watch!Size(kind)
           width == Watch!Width(kind)
           size == IF n < width THEN n ELSE width
           top == Watch!Row(kind, n + 1 - 1)
<1>1. n \in Nat /\ width \in Nat \ {0}
  BY Sizes, Widths
<1>2. \A i \in 1..n : /\ Watch!Row(kind, i) \in Watch!Rows /\ Watch!Row(kind, i).id = i
                      /\ (Watch!Row(kind, i).status # "WRITTEN" <=> kind = "intent")
  BY Sizes
<1>3. rows = [j \in 1..size |-> Watch!Row(kind, n + 1 - j)]
  BY DEF Watch!Newest
<1> HIDE DEF n, width
<1>4. size \in Nat /\ size <= n /\ size <= width /\ (size = 0 => n = 0)
  BY <1>1
<1>5. \A j \in 1..size : n + 1 - j \in 1..n
  BY <1>1, <1>4
<1> HIDE DEF size
<1>6. \A j \in 1..size : rows[j] = Watch!Row(kind, n + 1 - j) /\ rows[j] \in Watch!Rows /\ rows[j].id = n + 1 - j
  BY <1>2, <1>3, <1>5
<1>7. rows \in Seq(Watch!Rows) /\ Len(rows) = size /\ DOMAIN rows = 1..size
  BY <1>3, <1>4, <1>6
<1>8. rows # << >> => rows[1].id = n
  <2>1. ASSUME rows # << >> PROVE rows[1].id = n
    <3>1. 1 \in 1..size
      BY <1>4, <1>7, <2>1
    <3>2. rows[1].id = n + 1 - 1
      BY <1>6, <3>1
    <3> QED
      BY <1>1, <3>2
  <2> QED
    BY <2>1
<1>9. rows = << >> => n = 0
  BY <1>4, <1>7
<1>10. Watch!IsWindow(rows, width)
  <2>1. ASSUME NEW j \in DOMAIN rows PROVE rows[j].id = rows[1].id + 1 - j
    <3>1. rows # << >>
      BY <1>7, <2>1
    <3> QED
      BY <1>6, <1>7, <1>8, <3>1
  <2>2. rows # << >> => Len(rows) = IF rows[1].id < width THEN rows[1].id ELSE width
    BY <1>7, <1>8 DEF size
  <2> QED
    BY <2>1, <2>2 DEF Watch!IsWindow
<1>11. ASSUME NEW j \in DOMAIN rows PROVE Watch!Stored(kind, rows[j]) /\ rows[j] = Watch!Row(kind, rows[j].id)
  <2> DEFINE x == rows[j]
  <2>1. x \in Watch!Rows /\ x.id \in 1..n /\ x = Watch!Row(kind, x.id)
    BY <1>5, <1>6, <1>7
  <2> HIDE DEF x
  <2>2. x.status # "WRITTEN" <=> kind = "intent"
    BY <1>2, <2>1
  <2>3. Grade(x) \in 0..3
    BY <2>1, Grades
  <2>4. x.id <= n /\ Grade(x) <= Grade(Watch!Row(kind, x.id))
    BY <1>1, <2>1, <2>3
  <2>5. Watch!Stored(kind, x)
    BY <2>2, <2>4 DEF Watch!Stored, Grade, n
  <2> QED
    BY <2>1, <2>5 DEF x
<1> QED
  BY <1>7, <1>8, <1>9, <1>10, <1>11 DEF n, width

(* Of what was told, the rows that a query returns are those that are still remembered. *)
LEMMA NewestCompares ==
  ASSUME Watch!TypeOK, NEW kind \in Watch!Kinds, Watch!Remembers(kind), NEW rows, rows = Watch!Newest(kind)
  PROVE  Compared(kind, rows)
<1> DEFINE n == Watch!Size(kind)
           width == Watch!Width(kind)
<1>1. /\ rows \in Seq(Watch!Rows) /\ Watch!IsWindow(rows, width)
      /\ \A j \in DOMAIN rows : Watch!Stored(kind, rows[j]) /\ rows[j] = Watch!Row(kind, rows[j].id)
      /\ rows = << >> => n = 0
      /\ rows # << >> => rows[1].id = n
  BY NewestIs
<1>2. n \in Nat /\ width \in Nat \ {0}
  BY Sizes, Widths
<1> SUFFICES ASSUME NEW r \in Watch!Known(kind)
             PROVE  /\ rows # << >> /\ r.id <= rows[1].id
                    /\ \A j \in DOMAIN rows : r.id = rows[j].id => Grade(r) <= Grade(rows[j])
                    /\ r \in Watch!Range(rows) => r \in Watch!Range(seen[kind])
  BY <1>1 DEF Compared
<1>3. r \in Watch!Rows /\ r.id \in Nat /\ r.id > 0 /\ Grade(r) \in 0..3
  BY KnownAre, Grades
<1>4. Watch!Stored(kind, r) /\ (r \in Watch!Range(seen[kind]) \/ Watch!Past(kind, r))
  BY DEF Watch!Remembers
<1>5. r.id <= n /\ Grade(r) <= Grade(Watch!Row(kind, r.id))
  BY <1>4 DEF Watch!Stored, Grade
<1>6. rows # << >> /\ rows[1].id = n
  BY <1>1, <1>2, <1>3, <1>5
<1>7. \A j \in DOMAIN rows : r.id = rows[j].id => Grade(r) <= Grade(rows[j])
  BY <1>1, <1>5
<1>8. r \in Watch!Range(rows) => ~Watch!Past(kind, r)
  <2> SUFFICES ASSUME r \in Watch!Range(rows), Watch!Past(kind, r) PROVE FALSE
    OBVIOUS
  <2>1. PICK j \in DOMAIN rows : rows[j] = r
    BY InRange
  <2>2. r = Watch!Row(kind, r.id)
    BY <1>1, <2>1
  <2>3. r.id + width > n
    BY <1>1, <1>2, <1>6, <2>1, WindowIs
  <2>4. r.id + width <= n \/ Grade(r) < Grade(Watch!Row(kind, r.id))
    BY DEF Watch!Past, Grade
  <2>5. ~(r.id + width <= n)
    BY <1>2, <1>3, <2>3
  <2>6. ~(Grade(r) < Grade(Watch!Row(kind, r.id)))
    <3>1. Grade(Watch!Row(kind, r.id)) = Grade(r)
      BY <2>2
    <3> QED
      BY <1>3, <3>1
  <2> QED
    BY <2>4, <2>5, <2>6
<1> QED
  BY <1>4, <1>5, <1>6, <1>7, <1>8

(* A query returns: the rows of its kinds are the newest ones, the others stay. *)
LEMMA ReadsKeeps ==
  ASSUME Watch!ObserverInv, Watch!Reads
  PROVE  Watch!ObserverInv'
<1> DEFINE query == Watch!Queries[script.next]
           snap == [k \in Watch!Kinds |-> IF k \in query THEN Watch!Newest(k) ELSE script.snap[k]]
<1>1. UNCHANGED tape /\ seen' = seen /\ first' = first /\ told' = told /\ again' = again
  BY DEF Watch!Reads, tape
<1>2. Watch!TypeOK /\ script.at = "reading" /\ script.next \in 1..Len(Watch!Queries) /\ Len(Watch!Queries) \in Nat
  <2>1. Len(Watch!Queries) = 5
    BY DEF Watch!Queries
  <2> QED
    BY <2>1 DEF Watch!ObserverInv, Watch!TypeOK, Watch!Reads
<1>3. script.snap \in [Watch!Kinds -> Seq(Watch!Rows)]
  BY <1>2 DEF Watch!TypeOK
<1>4. /\ script'.at = "reading" /\ script'.next = script.next + 1 /\ script'.initialized = script.initialized
      /\ script'.snap = snap
      /\ script' \in [at : {"waiting", "reading", "failed"}, next : 1..(Len(Watch!Queries) + 1),
                      snap : [Watch!Kinds -> Seq(Watch!Rows)], initialized : BOOLEAN]
  <2>1. script' = [script EXCEPT !.next = script.next + 1, !.snap = [k \in Watch!Kinds |-> IF k \in query THEN Watch!Newest(k) ELSE script.snap[k]]]
    BY DEF Watch!Reads
  <2>2. \A k \in Watch!Kinds : Watch!Newest(k) \in Seq(Watch!Rows)
    BY <1>2, NewestIs
  <2>3. snap \in [Watch!Kinds -> Seq(Watch!Rows)]
    <3> HIDE DEF query
    <3> QED
      BY <1>3, <2>2
  <2>4. script \in [at : {"waiting", "reading", "failed"}, next : 1..(Len(Watch!Queries) + 1),
                    snap : [Watch!Kinds -> Seq(Watch!Rows)], initialized : BOOLEAN]
    BY <1>2 DEF Watch!TypeOK
  <2>5. script' = [script EXCEPT !.next = script.next + 1, !.snap = snap]
    BY <2>1
  <2> HIDE DEF snap, query
  <2>6. script.next + 1 \in 1..(Len(Watch!Queries) + 1)
    BY <1>2
  <2> QED
    BY <1>2, <2>3, <2>4, <2>5, <2>6
<1>5. Watch!TypeOK'
  <2>1. Watch!Queries' = Watch!Queries /\ Watch!Kinds' = Watch!Kinds /\ Watch!Rows' = Watch!Rows
    BY DEF Watch!Queries, Watch!Kinds, Watch!Rows, Watch!Rank
  <2> HIDE DEF snap
  <2> QED
    BY <1>1, <1>2, <1>4, <2>1 DEF Watch!TypeOK, tape
<1>6. ASSUME NEW kind \in Watch!Kinds PROVE Watch!Remembers(kind)' /\ Watch!Compares(kind)'
  <2>1. Watch!Remembers(kind) /\ Watch!Compares(kind)
    BY DEF Watch!ObserverInv
  <2>2. Watch!Remembers(kind)' /\ Watch!Known(kind)' = Watch!Known(kind)
    BY <1>1, <2>1, RemembersStays
  <2> DEFINE rows == script'.snap[kind]
  <2>3. rows = IF kind \in query THEN Watch!Newest(kind) ELSE script.snap[kind]
    <3> HIDE DEF query
    <3> QED
      BY <1>4
  <2>4. Watch!Answered(kind)' => kind \in query \/ Watch!Answered(kind)
    <3>1. \A k \in 1..(script'.next - 1) : k \in 1..(script.next - 1) \/ k = script.next
      <4> HIDE DEF query, snap
      <4> QED
        BY <1>2, <1>4
    <3>2. Watch!Queries' = Watch!Queries
      BY DEF Watch!Queries
    <3> QED
      BY <1>2, <3>1, <3>2 DEF Watch!Answered
  <2>5. ASSUME Watch!Answered(kind)' PROVE Compared(kind, rows)
    <3>1. CASE kind \in query
      <4>1. rows = Watch!Newest(kind)
        BY <2>3, <3>1
      <4> HIDE DEF rows
      <4> QED
        BY <1>2, <2>1, <4>1, NewestCompares
    <3>2. CASE kind \notin query
      <4>1. rows = script.snap[kind] /\ Watch!Answered(kind)
        BY <2>3, <2>4, <2>5, <3>2
      <4> HIDE DEF rows
      <4> QED
        BY <2>1, <4>1, ComparesSays
    <3> QED
      BY <3>1, <3>2
  <2>6. ASSUME Compared(kind, rows) PROVE Compared(kind, script.snap[kind])'
    <3>1. \A r : Watch!Stored(kind, r)' <=> Watch!Stored(kind, r)
      BY <1>1, Frozen
    <3>2. Watch!Width(kind)' = Watch!Width(kind)
      BY <1>1, Frozen
    <3>3. Watch!Known(kind)' = Watch!Known(kind) /\ seen' = seen
      BY <1>1, <2>2
    <3>4. (\A j \in DOMAIN script.snap[kind] : Watch!Stored(kind, script.snap[kind][j]))'
      <4> SUFFICES ASSUME NEW j, (j \in DOMAIN script.snap[kind])' PROVE Watch!Stored(kind, script.snap[kind][j])'
        BY Zenon
      <4>1. PICK r : r = script'.snap[kind][j]
        OBVIOUS
      <4>2. Watch!Stored(kind, r)
        BY <2>6, <4>1 DEF Compared
      <4>3. Watch!Stored(kind, r)'
        BY <3>1, <4>2
      <4> QED
        BY <4>1, <4>3 DEF Watch!Stored
    <3> QED
      BY <2>6, <3>2, <3>3, <3>4 DEF Compared
  <2>7. Watch!Compares(kind)' <=> (Watch!Answered(kind)' => Compared(kind, script.snap[kind])')
    BY ComparesSays, PTL
  <2> QED
    BY <2>2, <2>5, <2>6, <2>7
<1>7. (script.initialized \/ first \cup told = {})' /\ Watch!ToldOnce' /\ Watch!TapeIsExact'
  <2> HIDE DEF snap
  <2> QED
    BY <1>1, <1>4 DEF Watch!ObserverInv, Watch!ToldOnce, Watch!TapeIsExact
<1> QED
  BY <1>5, <1>6, <1>7 DEF Watch!ObserverInv, Watch!Kinds

(* A snapshot that is read has the rows of every kind. *)
LEMMA AllAnswered ==
  ASSUME Watch!TypeOK, script.at = "reading", script.next > Len(Watch!Queries), NEW kind \in Watch!Kinds
  PROVE  Watch!Answered(kind)
<1>1. script.next - 1 = 5
  BY DEF Watch!TypeOK, Watch!Queries
<1>2. \E i \in 1..5 : kind \in Watch!Queries[i]
  BY DEF Watch!Kinds, Watch!Queries
<1> QED
  BY <1>1, <1>2 DEF Watch!Answered

(* It is no older than what is remembered. *)
LEMMA SnapshotFaces ==
  ASSUME Watch!TypeOK, NEW kind \in Watch!Kinds, Watch!Remembers(kind), NEW s, s = script.snap[kind], Compared(kind, s)
  PROVE  Facing(kind # "intent", seen[kind], s, Watch!Width(kind))
<1> DEFINE q == seen[kind]
           width == Watch!Width(kind)
           plain == kind # "intent"
<1>1. q \in Seq(Watch!Rows) /\ s \in Seq(Watch!Rows)
  BY DEF Watch!TypeOK
<1>2. /\ width \in Nat \ {0} /\ Limit \in Nat
      /\ Limit > IF plain THEN 2 * (width - 1) ELSE 3 * (2 * (width - 1))
  BY Widths
<1>3. Len(q) <= Limit /\ Watch!InOrder(q, width)
  BY DEF Watch!Remembers
<1>4. Watch!IsWindow(s, width) /\ \A j \in DOMAIN s : Watch!Stored(kind, s[j])
  BY DEF Compared
<1>5. ASSUME NEW i \in DOMAIN q
      PROVE  /\ OfKind(plain, q[i]) /\ s # << >> /\ q[i].id <= s[1].id
             /\ \A j \in DOMAIN s : q[i].id = s[j].id => Grade(q[i]) <= Grade(s[j])
  <2>1. PICK x : x = q[i]
    OBVIOUS
  <2>2. x \in Watch!Range(q)
    BY <2>1, InRange
  <2>3. x \in Watch!Known(kind)
    BY <2>2 DEF Watch!Remembers
  <2>4. Watch!Stored(kind, x)
    BY <2>3 DEF Watch!Remembers
  <2>5. OfKind(plain, x)
    BY <2>4 DEF Watch!Stored, OfKind
  <2>6. s # << >> /\ x.id <= s[1].id /\ \A j \in DOMAIN s : x.id = s[j].id => Grade(x) <= Grade(s[j])
    BY <2>3 DEF Compared
  <2> QED
    BY <2>1, <2>5, <2>6
<1>6. \A j \in DOMAIN s : OfKind(plain, s[j])
  BY <1>4 DEF Watch!Stored, OfKind
<1>7. plain \in BOOLEAN
  OBVIOUS
<1> HIDE DEF q, width, plain
<1>8. Facing(plain, q, s, width)
  BY <1>1, <1>2, <1>3, <1>4, <1>5, <1>6, <1>7 DEF Facing
<1> QED
  BY <1>8 DEF q, width, plain

(* A row that was told and that the snapshot does not show is shown by none. *)
LEMMA UnseenIsPast ==
  ASSUME Watch!TypeOK, NEW kind \in Watch!Kinds, Watch!Remembers(kind), NEW s, s = script.snap[kind], Compared(kind, s),
         NEW r \in Watch!Known(kind), r \notin Watch!Range(s)
  PROVE  Watch!Past(kind, r)
<1> DEFINE n == Watch!Size(kind)
           width == Watch!Width(kind)
           now == Watch!Row(kind, r.id)
<1>1. s \in Seq(Watch!Rows)
  BY DEF Watch!TypeOK
<1>2. n \in Nat /\ width \in Nat \ {0}
  BY Sizes, Widths
<1>3. r \in Watch!Rows /\ r.id \in Nat /\ r.id > 0 /\ Grade(r) \in 0..3
  BY KnownAre, Grades
<1>4. /\ Watch!IsWindow(s, width) /\ s # << >> /\ r.id <= s[1].id
      /\ \A j \in DOMAIN s : r.id = s[j].id => Grade(r) <= Grade(s[j])
      /\ \A j \in DOMAIN s : Watch!Stored(kind, s[j])
  BY DEF Compared
<1>5. 1 \in DOMAIN s
  BY <1>1, <1>4
<1>6. s[1].id \in Nat /\ s[1].id <= n
  <2>1. s[1].id \in Nat
    BY <1>1, <1>2, <1>4, <1>5, WindowIs
  <2>2. Watch!Stored(kind, s[1])
    BY <1>4, <1>5
  <2> QED
    BY <2>1, <2>2 DEF Watch!Stored
<1>7. CASE r.id + width <= s[1].id
  <2>1. r.id + width <= n
    BY <1>2, <1>3, <1>6, <1>7
  <2> QED
    BY <2>1 DEF Watch!Past
<1>8. CASE ~(r.id + width <= s[1].id)
  <2>1. PICK j \in DOMAIN s : s[j].id = r.id
    <3>1. r.id + width > s[1].id
      BY <1>2, <1>3, <1>6, <1>8
    <3> HIDE DEF width
    <3> QED
      BY <1>1, <1>2, <1>3, <1>4, <3>1, WindowHas
  <2>2. s[j] \in Watch!Rows /\ s[j] # r
    BY <1>1, InRange
  <2>3. Grade(r) < Grade(s[j])
    <3>1. Grade(r) <= Grade(s[j]) /\ Grade(s[j]) \in 0..3
      BY <1>4, <2>1, <2>2, Grades
    <3>2. Grade(r) # Grade(s[j])
      BY <1>3, <2>1, <2>2, Grades
    <3> QED
      BY <1>3, <3>1, <3>2
  <2>4. r.id <= n /\ Grade(s[j]) <= Grade(now)
    <3>1. Watch!Stored(kind, s[j])
      BY <1>4
    <3> QED
      BY <2>1, <3>1 DEF Watch!Stored, Grade
  <2>5. Grade(now) \in 0..3 /\ Grade(s[j]) \in 0..3
    <3>1. now \in Watch!Rows
      BY <1>2, <1>3, <2>4, Sizes
    <3> QED
      BY <2>2, <3>1, Grades
  <2>6. Grade(r) < Grade(now)
    BY <1>3, <2>3, <2>4, <2>5
  <2> QED
    BY <2>6 DEF Watch!Past, Grade
<1> QED
  BY <1>7, <1>8

\* What is known after a snapshot.
Learns(kind) == \A r : (r \in Watch!Known(kind))' <=> r \in Watch!Known(kind) \/ r \in Watch!Range(script.snap[kind])

(* The snapshot is noted: what was told and can be shown again is remembered. *)
LEMMA NotedKeeps ==
  ASSUME Watch!TypeOK, UNCHANGED tape, NEW kind \in Watch!Kinds, Watch!Remembers(kind),
         Compared(kind, script.snap[kind]), seen'[kind] = Watch!Noted(kind, script.snap[kind]).queue, Learns(kind)
  PROVE  Watch!Remembers(kind)'
<1> DEFINE s == script.snap[kind]
           q == seen[kind]
           t == seen'[kind]
           width == Watch!Width(kind)
           acc == Watch!Noted(kind, s)
<1>1. s = script.snap[kind] /\ Compared(kind, s) /\ t = acc.queue
  OBVIOUS
<1>2. \A r : (r \in Watch!Known(kind))' <=> r \in Watch!Known(kind) \/ r \in Watch!Range(s)
  BY DEF Learns
<1>3. s \in Seq(Watch!Rows) /\ DOMAIN s = 1..Len(s)
  BY DEF Watch!TypeOK
<1> HIDE DEF s
<1>4. Noting(kind, acc, Len(s), q, s, width)
  BY <1>1, SnapshotFaces, NotedSays
<1> HIDE DEF acc, q, width
<1>5. acc.queue = t
  BY <1>1
<1>6. /\ Len(t) <= Limit /\ Watch!InOrder(t, width)
      /\ \A x \in Watch!Range(t) : x \in Watch!Range(q) \/ \E i \in 1..Len(s) : s[i] = x
      /\ \A x \in Watch!Range(q) : x \in Watch!Range(s) => x \in Watch!Range(t)
      /\ \A i \in 1..Len(s) : s[i] \in Watch!Range(t)
  BY <1>4, <1>5 DEF Noting
<1> HIDE DEF t
<1>7. \A x \in Watch!Range(t) : x \in Watch!Known(kind) \/ x \in Watch!Range(s)
  <2>1. Watch!Range(q) \subseteq Watch!Known(kind)
    BY DEF Watch!Remembers, q
  <2>2. \A x : (\E i \in 1..Len(s) : s[i] = x) => x \in Watch!Range(s)
    BY <1>3, InRange
  <2> QED
    BY <1>6, <2>1, <2>2
<1>8. \A x \in Watch!Range(s) : x \in Watch!Range(t) /\ Watch!Stored(kind, x)
  <2> SUFFICES ASSUME NEW x \in Watch!Range(s) PROVE x \in Watch!Range(t) /\ Watch!Stored(kind, x)
    OBVIOUS
  <2>1. PICK i \in DOMAIN s : s[i] = x
    BY InRange
  <2> QED
    BY <1>3, <1>6, <1>1, <2>1 DEF Compared
<1>9. ASSUME NEW r, r \in Watch!Known(kind) \/ r \in Watch!Range(s)
      PROVE  Watch!Stored(kind, r)' /\ (r \in Watch!Range(t) \/ Watch!Past(kind, r)')
  <2>1. CASE r \in Watch!Range(s)
    BY <1>8, <2>1, Frozen
  <2>2. CASE r \notin Watch!Range(s)
    <3>1. Watch!Stored(kind, r) /\ Watch!Past(kind, r)
      BY <1>9, <1>1, <2>2, UnseenIsPast DEF Watch!Remembers
    <3> QED
      BY <3>1, Frozen
  <2> QED
    BY <2>1, <2>2
<1>10. Watch!Width(kind)' = width
  BY Frozen DEF width
<1>11. (\A r \in Watch!Known(kind) : Watch!Stored(kind, r) /\ (r \in Watch!Range(seen[kind]) \/ Watch!Past(kind, r)))'
  <2> SUFFICES ASSUME NEW r, (r \in Watch!Known(kind))'
               PROVE  (Watch!Stored(kind, r) /\ (r \in Watch!Range(seen[kind]) \/ Watch!Past(kind, r)))'
    BY Zenon
  <2>1. r \in Watch!Known(kind) \/ r \in Watch!Range(s)
    BY <1>2
  <2> QED
    BY <1>9, <2>1 DEF t
<1>12. (Watch!Range(seen[kind]) \subseteq Watch!Known(kind))'
  <2> SUFFICES ASSUME NEW x, x \in Watch!Range(t) PROVE (x \in Watch!Known(kind))'
    BY DEF t
  <2> QED
    BY <1>7, <1>2
<1> QED
  BY <1>6, <1>10, <1>11, <1>12 DEF Watch!Remembers, t

\* The events of the snapshot that was read.
Events == UNION {[j \in Watch!Kinds |-> Watch!Noted(j, script.snap[j])][k].new : k \in Watch!Kinds}

(* What is new in a snapshot is what is in it and is not remembered: nobody was told of it. *)
LEMMA EventsAreNew ==
  ASSUME Watch!TypeOK, \A kind \in Watch!Kinds : Watch!Remembers(kind) /\ Compared(kind, script.snap[kind])
  PROVE  /\ Events \subseteq Watch!Kinds \X Watch!Rows
         /\ \A kind \in Watch!Kinds : \A r :
              <<kind, r>> \in Events <=> r \in Watch!Range(script.snap[kind]) /\ r \notin Watch!Known(kind)
<1> DEFINE s(k) == script.snap[k]
           new(k) == Watch!Noted(k, s(k)).new
<1>1. \A k \in Watch!Kinds : s(k) \in Seq(Watch!Rows) /\ DOMAIN s(k) = 1..Len(s(k))
  BY DEF Watch!TypeOK
<1>2. ASSUME NEW k \in Watch!Kinds
      PROVE  new(k) = {<<k, s(k)[i]>> : i \in {j \in 1..Len(s(k)) : s(k)[j] \notin Watch!Range(seen[k])}}
  <2> DEFINE rows == s(k)
  <2>1. rows = script.snap[k] /\ Compared(k, rows)
    OBVIOUS
  <2> HIDE DEF rows
  <2>2. Noting(k, Watch!Noted(k, rows), Len(rows), seen[k], rows, Watch!Width(k))
    BY <2>1, SnapshotFaces, NotedSays
  <2> DEFINE acc == Watch!Noted(k, rows)
  <2> HIDE DEF acc
  <2>3. acc.new = {<<k, rows[i]>> : i \in {j \in 1..Len(rows) : rows[j] \notin Watch!Range(seen[k])}}
    BY <2>2 DEF Noting, acc
  <2> QED
    BY <2>3 DEF acc, rows
<1>3. Events = UNION {new(k) : k \in Watch!Kinds}
  <2>1. \A k \in Watch!Kinds : [j \in Watch!Kinds |-> Watch!Noted(j, script.snap[j])][k].new = new(k)
    OBVIOUS
  <2> HIDE DEF new
  <2> QED
    BY <2>1 DEF Events
<1>4. ASSUME NEW k \in Watch!Kinds, NEW e PROVE e \in new(k) <=> \E r \in Watch!Range(s(k)) : e = <<k, r>> /\ r \notin Watch!Known(k)
  <2>1. \A r \in Watch!Range(s(k)) : r \notin Watch!Range(seen[k]) <=> r \notin Watch!Known(k)
    BY DEF Compared, Watch!Remembers
  <2>2. e \in new(k) <=> \E i \in 1..Len(s(k)) : s(k)[i] \notin Watch!Range(seen[k]) /\ e = <<k, s(k)[i]>>
    BY <1>2
  <2> DEFINE rows == s(k)
  <2>3. \A r : r \in Watch!Range(rows) <=> \E i \in 1..Len(rows) : rows[i] = r
    BY <1>1, InRange
  <2> HIDE DEF s, new
  <2> QED
    BY <2>1, <2>2, <2>3 DEF rows
<1>5. \A k \in Watch!Kinds : \A r \in Watch!Range(s(k)) : r \in Watch!Rows
  <2> SUFFICES ASSUME NEW k \in Watch!Kinds, NEW r \in Watch!Range(s(k)) PROVE r \in Watch!Rows
    OBVIOUS
  <2>1. PICK i \in DOMAIN s(k) : s(k)[i] = r
    BY InRange
  <2> QED
    BY <1>1, <2>1
<1> HIDE DEF s, new
<1>6. Events \subseteq Watch!Kinds \X Watch!Rows
  BY <1>3, <1>4, <1>5
<1>7. ASSUME NEW kind \in Watch!Kinds, NEW r
      PROVE  <<kind, r>> \in Events <=> r \in Watch!Range(s(kind)) /\ r \notin Watch!Known(kind)
  BY <1>3, <1>4
<1> QED
  BY <1>6, <1>7 DEF s

(* What a snapshot shows. *)
LEMMA ShownIs ==
  ASSUME Watch!TypeOK
  PROVE  /\ Watch!Shown(script.snap) \subseteq Watch!Kinds \X Watch!Rows
         /\ \A kind \in Watch!Kinds : \A r : <<kind, r>> \in Watch!Shown(script.snap) <=> r \in Watch!Range(script.snap[kind])
         /\ \A e \in Watch!Shown(script.snap) : \E kind \in Watch!Kinds : \E r : e = <<kind, r>>
<1> DEFINE s(k) == script.snap[k]
<1>1. \A k \in Watch!Kinds : s(k) \in Seq(Watch!Rows)
  BY DEF Watch!TypeOK
<1>2. \A k \in Watch!Kinds : \A r \in Watch!Range(s(k)) : r \in Watch!Rows
  <2> SUFFICES ASSUME NEW k \in Watch!Kinds, NEW r \in Watch!Range(s(k)) PROVE r \in Watch!Rows
    OBVIOUS
  <2>1. PICK i \in DOMAIN s(k) : s(k)[i] = r
    BY InRange
  <2> QED
    BY <1>1, <2>1
<1>3. Watch!Shown(script.snap) = UNION {{k} \X Watch!Range(s(k)) : k \in Watch!Kinds}
  BY DEF Watch!Shown
<1> HIDE DEF s
<1>4. \A e : e \in Watch!Shown(script.snap) <=> \E k \in Watch!Kinds : \E r \in Watch!Range(s(k)) : e = <<k, r>>
  BY <1>3
<1>5. Watch!Shown(script.snap) \subseteq Watch!Kinds \X Watch!Rows
  BY <1>2, <1>4
<1>6. \A kind \in Watch!Kinds : \A r : <<kind, r>> \in Watch!Shown(script.snap) <=> r \in Watch!Range(s(kind))
  BY <1>4
<1> QED
  BY <1>4, <1>5, <1>6 DEF s

(* The detector notes a snapshot: it tells what is new, once, and nothing of what the first snapshot showed. *)
LEMMA ObservesKeeps ==
  ASSUME Watch!ObserverInv, Watch!Observes
  PROVE  Watch!ObserverInv'
<1> DEFINE noted == [k \in Watch!Kinds |-> Watch!Noted(k, script.snap[k])]
           shown == Watch!Shown(script.snap)
<1>1. UNCHANGED tape
  BY DEF Watch!Observes, tape
<1>2. Watch!TypeOK /\ script.at = "reading" /\ script.next > Len(Watch!Queries)
  BY DEF Watch!ObserverInv, Watch!Observes
<1>3. \A kind \in Watch!Kinds : Watch!Remembers(kind) /\ Compared(kind, script.snap[kind])
  BY <1>2, AllAnswered, ComparesSays DEF Watch!ObserverInv
<1>4. /\ seen' = [k \in Watch!Kinds |-> noted[k].queue]
      /\ IF script.initialized
         THEN told' = told \cup Events /\ again' = again \cup (told \cap Events) /\ first' = first
         ELSE first' = shown /\ told' = told /\ again' = again
      /\ script' = [script EXCEPT !.at = "waiting", !.initialized = TRUE]
  BY Zenon DEF Watch!Observes, Events
<1>5. \A kind \in Watch!Kinds : seen'[kind] = Watch!Noted(kind, script.snap[kind]).queue
  BY <1>4
<1>6. Events \subseteq Watch!Kinds \X Watch!Rows
  BY <1>2, <1>3, EventsAreNew
<1>7. \A kind \in Watch!Kinds : \A r : <<kind, r>> \in Events <=> r \in Watch!Range(script.snap[kind]) /\ r \notin Watch!Known(kind)
  BY <1>2, <1>3, EventsAreNew
<1>8. /\ shown \subseteq Watch!Kinds \X Watch!Rows
      /\ \A kind \in Watch!Kinds : \A r : <<kind, r>> \in shown <=> r \in Watch!Range(script.snap[kind])
  BY <1>2, ShownIs
<1>9. \A kind \in Watch!Kinds : \A r : r \in Watch!Known(kind) <=> <<kind, r>> \in first \cup told
  BY <1>2, KnownAre
<1>10. Events \cap (first \cup told) = {}
  <2> SUFFICES ASSUME NEW e \in Events, e \in first \cup told PROVE FALSE
    OBVIOUS
  <2>1. PICK kind \in Watch!Kinds, r \in Watch!Rows : e = <<kind, r>>
    BY <1>6
  <2> QED
    BY <1>7, <1>9, <2>1
<1>11. script' \in [at : {"waiting", "reading", "failed"}, next : 1..(Len(Watch!Queries) + 1),
                    snap : [Watch!Kinds -> Seq(Watch!Rows)], initialized : BOOLEAN]
       /\ script'.at = "waiting" /\ script'.initialized /\ script'.snap = script.snap
  BY <1>2, <1>4 DEF Watch!TypeOK
<1>12. \A kind \in Watch!Kinds : seen'[kind] \in Seq(Watch!Rows)
  <2> SUFFICES ASSUME NEW kind \in Watch!Kinds PROVE seen'[kind] \in Seq(Watch!Rows)
    OBVIOUS
  <2> DEFINE rows == script.snap[kind]
             acc == Watch!Noted(kind, rows)
  <2>1. rows = script.snap[kind] /\ Compared(kind, rows) /\ Watch!Remembers(kind)
    BY <1>3
  <2>2. seen'[kind] = acc.queue
    BY <1>5
  <2> HIDE DEF rows
  <2>3. Noting(kind, acc, Len(rows), seen[kind], rows, Watch!Width(kind))
    BY <1>2, <2>1, SnapshotFaces, NotedSays
  <2> HIDE DEF acc
  <2> QED
    BY <2>2, <2>3 DEF Noting
<1>13. seen' \in [Watch!Kinds -> Seq(Watch!Rows)]
  <2>1. seen' = [k \in Watch!Kinds |-> seen'[k]]
    BY <1>4
  <2> QED
    BY <1>12, <2>1
<1> HIDE DEF noted, shown
<1>14. first' \subseteq Watch!Kinds \X Watch!Rows /\ told' \subseteq Watch!Kinds \X Watch!Rows
  BY <1>2, <1>4, <1>6, <1>8 DEF Watch!TypeOK
<1>15. Watch!TypeOK'
  <2>1. Watch!Queries' = Watch!Queries /\ Watch!Kinds' = Watch!Kinds /\ Watch!Rows' = Watch!Rows
    BY DEF Watch!Queries, Watch!Kinds, Watch!Rows, Watch!Rank
  <2> QED
    BY <1>1, <1>2, <1>11, <1>13, <1>14, <2>1 DEF Watch!TypeOK, tape
<1>16. \A kind \in Watch!Kinds : \A r : (r \in Watch!Known(kind))' <=> <<kind, r>> \in first' \cup told'
  BY <1>15, KnownStill
<1>17. ~script.initialized => first \cup told = {}
  BY DEF Watch!ObserverInv
<1>18. ASSUME NEW kind \in Watch!Kinds, NEW r
       PROVE  <<kind, r>> \in first' \cup told' <=> r \in Watch!Known(kind) \/ r \in Watch!Range(script.snap[kind])
  <2>1. CASE script.initialized
    <3>1. first' \cup told' = (first \cup told) \cup Events
      BY <1>4, <2>1
    <3> QED
      BY <1>7, <1>9, <3>1
  <2>2. CASE ~script.initialized
    <3>1. first' \cup told' = shown /\ first \cup told = {}
      BY <1>4, <1>17, <2>2
    <3> QED
      BY <1>8, <1>9, <3>1
  <2> QED
    BY <2>1, <2>2
<1>19. ASSUME NEW kind \in Watch!Kinds PROVE Watch!Remembers(kind)' /\ Watch!Compares(kind)'
  <2>1. Learns(kind)
    BY <1>16, <1>18 DEF Learns
  <2>2. Compared(kind, script.snap[kind]) /\ Watch!Remembers(kind) /\ seen'[kind] = Watch!Noted(kind, script.snap[kind]).queue
    BY <1>3, <1>5
  <2>4. Watch!Remembers(kind)'
    BY <1>1, <1>2, <2>1, <2>2, NotedKeeps
  <2>5. ~Watch!Answered(kind)'
    BY <1>11 DEF Watch!Answered
  <2> QED
    BY <2>4, <2>5 DEF Watch!Compares
<1>20. Watch!ToldOnce'
  <2>1. again = {}
    BY DEF Watch!ObserverInv, Watch!ToldOnce
  <2>2. told \cap Events = {}
    BY <1>10
  <2> QED
    BY <1>4, <2>1, <2>2 DEF Watch!ToldOnce
<1>21. told' \cap first' = {}
  <2>1. told \cap first = {}
    BY DEF Watch!ObserverInv, Watch!TapeIsExact
  <2>2. ~script.initialized => told = {}
    BY <1>17
  <2> QED
    BY <1>4, <1>10, <2>1, <2>2
<1>22. Watch!Shown(script'.snap) \subseteq told' \cup first'
  <2>1. Watch!Shown(script'.snap) = shown
    BY <1>11 DEF shown
  <2> SUFFICES ASSUME NEW e \in shown PROVE e \in told' \cup first'
    BY <2>1
  <2>2. PICK kind \in Watch!Kinds, r \in Watch!Rows : e = <<kind, r>>
    BY <1>8
  <2> QED
    BY <1>8, <1>18, <2>2
<1>23. Watch!TapeIsExact'
  <2>1. Watch!Shown(script.snap)' = Watch!Shown(script'.snap)
    BY DEF Watch!Shown
  <2> QED
    BY <1>21, <1>22, <2>1 DEF Watch!TapeIsExact
<1> QED
  BY <1>11, <1>15, <1>19, <1>20, <1>23 DEF Watch!ObserverInv, Watch!Kinds

(* A step of the worker, or of its observer. *)
LEMMA ObserverStep ==
  ASSUME Watch!ObserverInv, Watch!Next
  PROVE  Watch!ObserverInv'
<1>1. CASE \/ Watch!BarStored \/ Watch!Decided \/ Watch!Claimed \/ Watch!OrderRecorded \/ Watch!UpdateStored \/ Watch!RecoveryMoves
  <2>1. Watch!TypeOK' /\ UNCHANGED notes /\ \A kind \in Watch!Kinds : Grows(kind)
    BY <1>1, Writing DEF Watch!ObserverInv
  <2> QED
    BY <2>1, WritingKeeps
<1>2. CASE Watch!Begins \/ Watch!Fails
  BY <1>2, BeginsKeeps
<1>3. CASE Watch!Reads
  BY <1>3, ReadsKeeps
<1>4. CASE Watch!Observes
  BY <1>4, ObservesKeeps
<1> QED
  BY <1>1, <1>2, <1>3, <1>4 DEF Watch!Next

(* At first nothing was told, and nothing is remembered. *)
LEMMA ObserverStarts ==
  ASSUME Watch!Init
  PROVE  Watch!ObserverInv
<1>1. /\ newest = 0 /\ decisions = << >> /\ orders = 0 /\ updates = 0 /\ recovery = 0
      /\ script = [at |-> "waiting", next |-> 1, snap |-> Watch!Nothing, initialized |-> FALSE]
      /\ seen = Watch!Nothing /\ first = {} /\ told = {} /\ again = {}
  BY DEF Watch!Init
<1>2. Watch!Nothing \in [Watch!Kinds -> Seq(Watch!Rows)] /\ \A kind \in Watch!Kinds : Watch!Nothing[kind] = << >>
  BY DEF Watch!Nothing
<1>3. Watch!TypeOK
  <2>1. 1 \in 1..(Len(Watch!Queries) + 1)
    BY DEF Watch!Queries
  <2>2. << >> \in Seq(Watch!Decisions)
    OBVIOUS
  <2> QED
    BY <1>1, <1>2, <2>1, <2>2 DEF Watch!TypeOK
<1>4. ASSUME NEW kind \in Watch!Kinds PROVE Watch!Remembers(kind) /\ Watch!Compares(kind) /\ Watch!Range(script.snap[kind]) = {}
  <2>1. seen[kind] = << >> /\ script.snap[kind] = << >>
    BY <1>1, <1>2
  <2>2. Watch!Known(kind) = {}
    BY <1>1 DEF Watch!Known
  <2>3. Watch!Range(<< >>) = {} /\ DOMAIN << >> = {} /\ Len(<< >>) = 0
    BY DEF Watch!Range
  <2>4. Limit \in Nat
    BY MemoryIsEnough
  <2>5. Watch!Remembers(kind)
    BY <2>1, <2>2, <2>3, <2>4 DEF Watch!Remembers, Watch!InOrder
  <2>6. Watch!Compares(kind)
    BY <1>1 DEF Watch!Compares, Watch!Answered
  <2> QED
    BY <2>1, <2>3, <2>5, <2>6
<1>5. Watch!ToldOnce /\ Watch!TapeIsExact
  <2>1. Watch!Shown(script.snap) = {}
    <3> SUFFICES ASSUME NEW e \in Watch!Shown(script.snap) PROVE FALSE
      OBVIOUS
    <3>1. PICK kind \in Watch!Kinds : \E r : e = <<kind, r>>
      BY <1>3, ShownIs
    <3>2. PICK r : e = <<kind, r>>
      BY <3>1
    <3>3. r \in Watch!Range(script.snap[kind])
      BY <1>3, <3>2, ShownIs
    <3> QED
      BY <1>4, <3>3
  <2> QED
    BY <1>1, <2>1 DEF Watch!ToldOnce, Watch!TapeIsExact
<1> QED
  BY <1>1, <1>3, <1>4, <1>5 DEF Watch!ObserverInv

(* What rests does not change. *)
LEMMA ObserverRests ==
  ASSUME Watch!ObserverInv, UNCHANGED observerVars
  PROVE  Watch!ObserverInv'
<1>1. UNCHANGED tape /\ UNCHANGED notes
  BY DEF observerVars, tape, notes
<1>2. Watch!TypeOK
  BY DEF Watch!ObserverInv
<1>3. Watch!TypeOK'
  BY <1>1, <1>2 DEF tape, notes, Watch!TypeOK, Watch!Decisions, Watch!Rows, Watch!Queries, Watch!Kinds
<1>4. ASSUME NEW kind \in Watch!Kinds PROVE Grows(kind)
  <2>1. Watch!Size(kind)' = Watch!Size(kind) /\ \A i : Watch!Row(kind, i)' = Watch!Row(kind, i)
    BY <1>1, Frozen
  <2>2. Watch!Size(kind) \in Nat /\ \A i \in 1..Watch!Size(kind) : Grade(Watch!Row(kind, i)) \in 0..3
    BY <1>2, Sizes, Grades
  <2>3. ASSUME NEW i \in 1..Watch!Size(kind) PROVE Grade(Watch!Row(kind, i)) <= Grade(Watch!Row(kind, i)')
    <3>1. Grade(Watch!Row(kind, i)') = Grade(Watch!Row(kind, i))
      BY <2>1 DEF Grade
    <3> QED
      BY <2>2, <3>1
  <2> QED
    BY <2>1, <2>2, <2>3 DEF Grows
<1> QED
  BY <1>1, <1>3, <1>4, WritingKeeps

----------------------------------------------------------------------------
(* The theorems.                                                            *)

(* At first nothing has come, and nothing was asked for. *)
LEMMA FeedsStart ==
  ASSUME FeedsInit
  PROVE  Stock!MarketInv /\ Stock!TradeInv /\ HistoryInv
<1>1. Stock!Init /\ History!Init
  BY DEF FeedsInit
<1>2. Stock!TypeOK
  BY <1>1 DEF Stock!Init, Stock!TypeOK, Stock!MarketPhases, Stock!TradePhases
<1>3. Stock!BarsAscend /\ Stock!TradeFramesAreTrue /\ Stock!NoSilentLoss /\ Stock!ReadyIsSubscribed
  BY <1>1 DEF Stock!Init, Stock!BarsAscend, Stock!Ascends, Stock!TradeFramesAreTrue, Stock!NoSilentLoss, Stock!PassedOn,
     Stock!InTurn, Stock!ReadyIsSubscribed
<1>4. HistoryInv
  BY <1>1 DEF HistoryInv, History!Init, History!PageIsWhole, History!Pending
<1> QED
  BY <1>2, <1>3, <1>4 DEF Stock!MarketInv, Stock!TradeInv

(* What rests does not change. *)
LEMMA StockRests ==
  ASSUME UNCHANGED <<market, reader, trade>>
  PROVE  (Stock!MarketInv => Stock!MarketInv') /\ (Stock!TradeInv => Stock!TradeInv')
  BY DEF Stock!MarketInv, Stock!TradeInv, Stock!TypeOK, Stock!BarsAscend, Stock!Ascends, Stock!TradeFramesAreTrue,
     Stock!NoSilentLoss, Stock!PassedOn, Stock!InTurn, Stock!Waits, Stock!ReadyIsSubscribed

(* What rests does not change. *)
LEMMA HistoryRests == HistoryInv /\ UNCHANGED historyVars => HistoryInv'
  BY DEF HistoryInv, History!PageIsWhole, historyVars

\* The inductive invariants, each of its part.
StockHolds ==
  /\ part = "market" => Stock!MarketInv
  /\ part = "trade" => Stock!TradeInv
  /\ part = "history" => HistoryInv

(* The bars are in ascending order wherever they are, the updates that wait continue those that were passed on, and a
   page is whole. *)
THEOREM StockInvariance == FeedsSpec => []StockHolds
<1>1. FeedsInit => StockHolds
  BY FeedsStart DEF StockHolds
<1>2. StockHolds /\ [FeedsNext]_<<part, vars, stockVars, historyVars, observerVars>> => StockHolds'
  <2> SUFFICES ASSUME StockHolds, [FeedsNext]_<<part, vars, stockVars, historyVars, observerVars>> PROVE StockHolds'
    OBVIOUS
  <2>1. /\ part' = part
        /\ part = "market" => Stock!MarketNext \/ UNCHANGED <<market, reader, trade>>
        /\ part = "trade" => Stock!TradeNext \/ UNCHANGED <<market, reader, trade>>
        /\ part = "history" => History!Next \/ UNCHANGED historyVars
    BY DEF FeedsNext, Others, stockVars
  <2>2. part = "market" => Stock!MarketInv'
    BY <2>1, MarketStep, StockRests DEF StockHolds
  <2>3. part = "trade" => Stock!TradeInv'
    BY <2>1, TradeStep, StockRests DEF StockHolds
  <2>4. part = "history" => HistoryInv'
    BY <2>1, HistoryStep, HistoryRests DEF StockHolds
  <2> QED
    BY <2>1, <2>2, <2>3, <2>4 DEF StockHolds
<1> QED
  BY <1>1, <1>2, PTL DEF FeedsSpec

(* The transport of the stock worker: bars() yields the bars in the order of the stream and none twice, an order update
   is passed on, still waits or onError was called, onReady is called for a subscription that was granted, and a page
   of the history is all of its window in order. *)
THEOREM StockTransportIsSound == FeedsSpec => []StockInv
<1>1. StockHolds => StockInv
  BY DEF StockHolds, StockInv, Stock!MarketInv, Stock!TradeInv, Stock!BarsAscend, Stock!Ascends, Stock!BarsInOrder, HistoryInv
<1> QED
  BY <1>1, StockInvariance, PTL

\* The inductive invariant of the observer.
TapeHolds == part = "observer" => Watch!ObserverInv

(* What was told and can be shown again is still remembered: a key that BoundedSeen evicts is of a row that is below the
   window of every later snapshot, or of a status that was left behind. *)
THEOREM TapeInvariance == FeedsSpec => []TapeHolds
<1>1. FeedsInit => TapeHolds
  BY ObserverStarts DEF TapeHolds, FeedsInit
<1>2. TapeHolds /\ [FeedsNext]_<<part, vars, stockVars, historyVars, observerVars>> => TapeHolds'
  <2> SUFFICES ASSUME TapeHolds, [FeedsNext]_<<part, vars, stockVars, historyVars, observerVars>> PROVE TapeHolds'
    OBVIOUS
  <2>1. part' = part /\ (part = "observer" => Watch!Next \/ UNCHANGED observerVars)
    BY DEF FeedsNext, Others
  <2>2. part = "observer" => Watch!ObserverInv'
    BY <2>1, ObserverStep, ObserverRests DEF TapeHolds
  <2> QED
    BY <2>1, <2>2 DEF TapeHolds
<1> QED
  BY <1>1, <1>2, PTL DEF FeedsSpec

(* The observer tells a row or a status at most once, tells nothing of what was there before it began, and has told, after
   a poll, all else that its snapshot shows. *)
THEOREM TapeIsRight == FeedsSpec => []TapeInv
<1>1. TapeHolds => TapeInv
  BY DEF TapeHolds, TapeInv, Watch!ObserverInv
<1> QED
  BY <1>1, TapeInvariance, PTL
=============================================================================
